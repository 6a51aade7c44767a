---------------------------- MODULE MCSelectPlan ----------------------------
(* Instances of SelectPlan: the statements of each run.                      *)
EXTENDS SelectPlan

MCKeyColumns == <<"a", "b">>
MCColumns    == {"a", "b", "c"}

R(a, b, c) == [x \in MCColumns |-> IF x = "a" THEN a ELSE IF x = "b" THEN b ELSE c]

\* Tables in which the columns are ordered alike, oppositely or not at all
MCTables ==
  {{}, {R(0, 1, 1)},
   {R(0, 0, 1), R(0, 1, 0), R(1, 0, 0), R(1, 1, 1)},
   {R(0, 1, 2), R(1, 0, 1), R(2, 1, 2)},
   {R(0, 2, 0), R(0, 1, 1), R(1, 0, 1)}}

FullTable == {{R(0, 0, 1), R(0, 1, 0), R(1, 0, 0), R(1, 1, 1)}}

\* All values of the key
Square == {{R(a, b, 0) : a \in 0..2, b \in 0..2}}

Criterion(names) == [column: names, order: {"Ascend", "Descend"}]

\* No criterion, one, or two on different columns
Orders(names) ==
  {<<>>} \cup {<<c>> : c \in Criterion(names)}
    \cup {<<c, d>> : c \in Criterion(names), d \in {x \in Criterion(names) : x.order = "Ascend"}}

Limits == {<<>>, <<[count |-> 2, offset |-> 0]>>, <<[count |-> 1, offset |-> 1]>>, <<[count |-> 2, offset |-> 5]>>}

NoLimit == {<<>>}

Query(where, group, agg, having, order, limit) ==
  [where |-> where, group |-> group, agg |-> agg, having |-> having, order |-> order, limit |-> limit]

Compared(op, left, right) == Op(op, <<left, right>>)
AtLeast(column, value)    == <<Compared(">=", Name(column), Const(value))>>

Plain(limits) ==
  {Query(where, <<>>, <<>>, <<>>, order, limit) :
     where \in {<<>>, AtLeast("c", 1)}, order \in Orders(MCColumns), limit \in limits}

Groups == {<<"a">>, <<"b">>, <<"c">>, <<"a", "b">>, <<"b", "a">>}

Aggs == {[func |-> "COUNT", column |-> "c"], [func |-> "MAX", column |-> "b"],
         [func |-> "MIN", column |-> "c"], [func |-> "SUM", column |-> "a"]}

Grouped(groups, limits) ==
  UNION {{Query(where, group, <<agg>>, having, order, limit) :
            where \in {<<>>, AtLeast("b", 1)}, having \in {<<>>, AtLeast(Agg, 1)}, agg \in Aggs,
            order \in Orders({group[i] : i \in DOMAIN group} \cup {Agg}), limit \in limits} : group \in groups}

\* Aggregates over everything, and conditions that are constant
Total    == {Query(<<>>, <<>>, <<agg>>, <<>>, <<>>, <<>>) : agg \in Aggs}
Constant == {Query(<<Const(v)>>, <<>>, <<>>, <<>>, <<>>, <<>>) : v \in {0, 1}}

AllSources == {"scan", "const", "file"}

\* SELECT without and with a limit.  (The limit of a total would be applied to
\* the rows that are counted.)
ClauseQueries == Plain({<<>>}) \cup Grouped(Groups, {<<>>}) \cup Total \cup Constant

LimitQueries == Plain(Limits \ {<<>>}) \cup Grouped({<<"a">>, <<"c">>}, Limits \ {<<>>})

\* Subqueries that are sorted and limited, and what is done with them
SubQueries ==
  {<<Query(<<>>, <<>>, <<>>, <<>>, order, limit)>> : order \in Orders({"a", "c"}), limit \in Limits}

OuterQueries ==
  {Query(<<>>, <<>>, <<>>, <<>>, order, limit) :
     order \in Orders({"a", "b"}), limit \in {<<>>, <<[count |-> 1, offset |-> 0]>>}}
    \cup {Query(<<>>, group, <<[func |-> "SUM", column |-> "b"]>>, <<>>, order, <<>>) :
            group \in {<<"a">>, <<"c">>}, order \in {<<>>} \cup {<<c>> : c \in Criterion({Agg})}}

\* Statements without a sort: the rows of one that failed stay in its buffer.
Unsorted ==
  {Query(AtLeast("c", 0), <<>>, <<>>, <<>>, <<>>, <<>>),
   Query(AtLeast("c", 1), <<"a">>, <<[func |-> "SUM", column |-> "c"]>>, AtLeast(Agg, 1),
         <<[column |-> "a", order |-> "Descend"]>>, <<>>),
   Query(<<>>, <<>>, <<>>, <<>>, <<>>, <<[count |-> 2, offset |-> 1]>>)}

-----------------------------------------------------------------------------
(* Predicates of up to four comparisons and lists, nested in every way.      *)

In(op, column, elements) == Op(op, <<Name(column), ValueList(elements)>>)

\* Comparisons in both directions and lists of every length.  (NOT IN with
\* several elements accepts every row.)
Atoms ==
  {Compared("=", Name("a"), Const(1)), Compared(">", Const(1), Name("b")),
   Compared("<=", Name("a"), Name("b")), In("in", "a", <<Const(0), Const(2)>>),
   In("in", "b", <<Const(2), Const(1), Const(0)>>), In("not in", "b", <<Const(1)>>)}

\* ... and what is not supported: a bare column, an unknown one, two constants,
\* a column in a list, an operation that is no comparison
Sum == Op("+", <<Name("a"), Name("b")>>)

Unsupported ==
  {Name("a"), Compared("=", Name("d"), Const(1)), Compared("=", Const(1), Const(1)),
   In("in", "a", <<Const(1), Name("b")>>), Sum}

Combined(left, right) == {Op(op, <<l, r>>) : op \in {"AND", "OR"}, l \in left, r \in right}

Predicates ==
  LET Pairs == Combined(Atoms, Atoms)
      Ors   == {p \in Pairs : p.m_op = "OR"}
      Bad   == Unsupported \cup Combined(Unsupported, Atoms) \cup Combined(Atoms, {Name("a"), Sum})
  IN  Atoms \cup Pairs \cup Combined(Pairs, Atoms) \cup Combined(Atoms, Pairs) \cup Combined(Ors, Ors)
        \cup Bad \cup Combined(Pairs, Unsupported) \cup Combined(Bad, {CHOOSE a \in Atoms : TRUE})

PredicateQueries == {Query(<<p>>, <<>>, <<>>, <<>>, <<>>, <<>>) : p \in Predicates}

Setting(tables, sources, subqueries, queries, mayFail) ==
  [tables |-> tables, sources |-> sources, subqueries |-> subqueries, queries |-> queries, mayFail |-> mayFail]

MCSettings ==
  [clauses    |-> Setting(MCTables, AllSources, {<<>>}, ClauseQueries, FALSE),
   limits     |-> Setting(MCTables, {"scan"}, {<<>>}, LimitQueries, FALSE),
   subqueries |-> Setting(FullTable, {"scan"}, SubQueries, OuterQueries, FALSE),
   predicates |-> Setting(Square, {"scan", "file"}, {<<>>}, PredicateQueries, FALSE),
   failures   |-> Setting(MCTables, {"scan"}, {<<>>}, Unsorted, TRUE)]
=============================================================================
