----------------------------- MODULE SelectPlan -----------------------------
(***************************************************************************)
(* SELECT with filters, grouping, ordering and limits: how the plan is built*)
(* on its source (planbuilder/SelectPlanBuilder) and how its stages pull   *)
(* rows from one another (execution/SortPlan, GroupByPlan, FilterPlan,     *)
(* LimitPlan, ProjectionPlan and, as sources, ConstPlan, ReadFilePlan and  *)
(* LevelDBScanPlan without its ranges).                                    *)
(*                                                                         *)
(* A plan is a sequence of stages, the source first; the child of a stage  *)
(* is the one before it.  A row is a function from column names to         *)
(* integers.  begin, next and end of a stage return the plan after the     *)
(* call and how the call ended; "fuel" counts down to the call in which an *)
(* exception is thrown.                                                    *)
(***************************************************************************)
EXTENDS FilterPlan, FiniteSets, FiniteSetsExt, TLC

CONSTANTS
  KeyColumns,     \* the columns of the key of the table, in order
  Columns,        \* all its columns
  Settings        \* what the statements may be: records by their names, with
                  \* tables      sets of rows with different keys
                  \* sources     kinds of sources: "scan", "const", "file"
                  \* queries     SELECT statements
                  \* subqueries  sequences of at most one, in the place of a table
                  \* mayFail     whether executions fail anywhere and are repeated

VARIABLES
  setting,        \* the name of the setting
  content,        \* the rows of the source
  query,          \* the statement, <<outer>> or <<inner, outer>>
  m_pPlan,        \* the stages
  phase,          \* "none", "refused", "ready", "running", "done", "failed" or,
                  \* when an assertion has ended the process, "aborted"
  out,            \* the rows sent since begin()
  ties            \* how std::sort orders rows that compare equal

vars == <<setting, content, query, m_pPlan, phase, out, ties>>

\* The name of the aggregate of a statement, AS agg
Agg == "agg"

Garbage == -1

-----------------------------------------------------------------------------
(* Stages.                                                                 *)

Source(kind, rows) ==
  [stage |-> kind, rows |-> rows, m_order |-> "Any", m_iCurrent |-> 0, m_iRows |-> 0, open |-> FALSE]

Filter(m_predicatesInOr) ==
  [stage |-> "filter", m_predicatesInOr |-> m_predicatesInOr, m_iCurrent |-> 0]

Sort(m_sort) == [stage |-> "sort", m_sort |-> m_sort, m_rows |-> <<>>, m_iCurrent |-> 0]

\* m_proj: the first value of every column of the child, and the aggregate
GroupBy(m_groupby, agg) ==
  [stage |-> "groupby", m_groupby |-> m_groupby, agg |-> agg, m_last |-> <<>>,
   m_proj |-> <<>>, m_iCount |-> 0, m_bHasMore |-> FALSE, m_iRows |-> 0]

Limit(limit) ==
  [stage |-> "limit", m_iLimit |-> limit.count, m_iOffset |-> limit.offset, m_iCurrent |-> 0]

\* m_map: the columns of the result and what they are in the child
Projection(m_map) == [stage |-> "projection", m_map |-> m_map]

-----------------------------------------------------------------------------
(* ensureSortOrder: whether the rows of stage i are sorted by the column as *)
(* the idx-th criterion, after fixing an order that was open.               *)

FixOrder(current, order) == IF current = "Any" THEN order ELSE current

RECURSIVE EnsureSortOrder(_, _, _, _, _)
EnsureSortOrder(p, i, idx, column, order) ==
  LET No == [p |-> p, ok |-> FALSE]
      s  == p[i]
  IN
  CASE s.stage = "scan" ->
         IF idx > Len(KeyColumns) \/ KeyColumns[idx] # column THEN No
         ELSE LET fixed == IF order = "Any" THEN s.m_order ELSE FixOrder(s.m_order, order)
              IN  [p |-> [p EXCEPT ![i].m_order = fixed], ok |-> order \in {"Any", fixed}]
    [] s.stage = "sort" ->
         IF idx > Len(s.m_sort) \/ s.m_sort[idx].column # column THEN No
         ELSE LET fixed == IF order = "Any" THEN s.m_sort[idx].order
                           ELSE FixOrder(s.m_sort[idx].order, order)
              IN  [p |-> [p EXCEPT ![i].m_sort[idx].order = fixed], ok |-> order \in {"Any", fixed}]
    [] s.stage = "projection" ->
         IF column \notin DOMAIN s.m_map THEN No
         ELSE EnsureSortOrder(p, i - 1, idx, s.m_map[column], order)
    [] s.stage \in {"filter", "groupby", "limit"} -> EnsureSortOrder(p, i - 1, idx, column, order)
    [] OTHER -> No

\* The criteria one after the other, up to the first that is not met
EnsureAll(p, criteria) ==
  LET Step(acc, c) ==
        IF ~acc.ok THEN acc
        ELSE EnsureSortOrder(acc.p, Len(p), acc.idx, c.column, c.order) @@ [idx |-> acc.idx + 1]
  IN  FoldLeft(Step, [p |-> p, ok |-> TRUE, idx |-> 1], criteria)

-----------------------------------------------------------------------------
(* Building the plan.  A statement has the clauses where, group, agg (an    *)
(* aggregate), having (a predicate on Agg), order and limit; <<>> is a       *)
(* missing clause.                                                          *)

BuildPlanForFilter(p, predicate) ==
  IF predicate = <<>> THEN p ELSE Append(p, Filter(SetPredicate(Rewrite(predicate[1]))))

RewritingFault(predicate) == IF predicate = <<>> THEN "no" ELSE RewriteFault(predicate[1])

BuildingFault(predicate, columns) ==
  IF predicate = <<>> THEN "no" ELSE SetPredicateFault(Rewrite(predicate[1]), columns)

\* WHERE 0 is the empty plan, WHERE 1 no predicate.
IsFalse(q)   == q.where # <<>> /\ IsFalseConst(q.where[1])
Predicate(q) == IF q.where # <<>> /\ IsConst(q.where[1]) THEN <<>> ELSE q.where

\* The first fault of a statement: parse() rewrites all of it before resolve()
\* builds its plan, both from the subquery outwards.
StatementFault(statement) ==
  LET rewriting == [i \in DOMAIN statement |->
        <<RewritingFault(statement[i].where), RewritingFault(statement[i].having)>>]
      building  == [i \in DOMAIN statement |->
        IF IsFalse(statement[i]) THEN <<>>
        ELSE <<BuildingFault(Predicate(statement[i]), Columns),
               BuildingFault(statement[i].having, Columns \cup {Agg})>>]
  IN  FirstFault(FlattenSeq(rewriting) \o FlattenSeq(building))

\* A sort, unless the plan is in that order already
SortUnless(p, criteria) ==
  LET ensured == EnsureAll(p, criteria)
  IN  IF ensured.ok THEN ensured.p ELSE Append(ensured.p, Sort(criteria))

BuildPlanForGroupBy(p, q) ==
  IF q.group = <<>> THEN p
  ELSE Append(SortUnless(p, [i \in DOMAIN q.group |-> [column |-> q.group[i], order |-> "Any"]]),
              GroupBy(q.group, q.agg))

BuildPlanForOrderBy(p, order) == IF order = <<>> THEN p ELSE SortUnless(p, order)

BuildPlanForLimit(p, limit) == IF limit = <<>> THEN p ELSE Append(p, Limit(limit[1]))

\* The columns that a plan offers to SELECT *
RECURSIVE AllColumns(_, _)
AllColumns(p, i) ==
  CASE p[i].stage = "projection" -> DOMAIN p[i].m_map
    [] p[i].stage \in {"scan", "const", "file"} -> Columns
    [] OTHER -> AllColumns(p, i - 1)

\* buildPlanForProjection; an aggregate that no stage computes adds a GroupBy
\* below the projection (addGroupBy).
BuildPlanForProjection(p, q) ==
  LET names == IF q.group # <<>> THEN ToSet(q.group) \cup {Agg}
               ELSE IF q.agg # <<>> THEN {Agg} ELSE AllColumns(p, Len(p))
      grouped == IF q.group = <<>> /\ q.agg # <<>> THEN Append(p, GroupBy(<<>>, q.agg)) ELSE p
  IN  Append(grouped, Projection([c \in names |-> c]))

\* SelectPlanBuilder::build on the plan of the table or subquery
BuildOn(p, q) ==
  IF IsFalse(q) THEN <<Source("empty", <<>>)>>
  ELSE LET filtered == BuildPlanForFilter(p, Predicate(q))
           grouped  == BuildPlanForGroupBy(filtered, q)
           having   == BuildPlanForFilter(grouped, q.having)
           ordered  == BuildPlanForOrderBy(having, q.order)
           limited  == BuildPlanForLimit(ordered, q.limit)
       IN  BuildPlanForProjection(limited, q)

Build(source, statement) == FoldLeft(BuildOn, <<source>>, statement)

-----------------------------------------------------------------------------
(* The row that getResult of a stage reads.                                 *)

\* A result that is not cached is a view on the current row of the child.
View(column)     == [view |-> TRUE, column |-> column, value |-> Garbage]
Cached(value)    == [view |-> FALSE, column |-> "", value |-> value]
Read(result, r)  == IF result.view THEN r[result.column] ELSE result.value

\* Mutant of Cache: a result is kept as it is.
CacheNot(result, r) == result

\* ExecutionResult::cache
Cache(result, r) == Cached(Read(result, r))

AnyRow == [c \in Columns \cup {Agg} |-> Garbage]

RECURSIVE CurrentRow(_, _)
CurrentRow(p, i) ==
  LET s == p[i] IN
  CASE s.stage \in {"scan", "const", "file"} ->
         LET k == IF s.m_order = "Descend" THEN Len(s.rows) + 1 - s.m_iCurrent ELSE s.m_iCurrent
         IN  IF k \in DOMAIN s.rows THEN s.rows[k] ELSE AnyRow
    [] s.stage = "sort"       -> IF s.m_iCurrent \in DOMAIN s.m_rows THEN s.m_rows[s.m_iCurrent] ELSE AnyRow
    [] s.stage = "groupby"    -> [c \in DOMAIN s.m_proj |-> Read(s.m_proj[c], CurrentRow(p, i - 1))]
    [] s.stage = "projection" -> [c \in DOMAIN s.m_map |-> CurrentRow(p, i - 1)[s.m_map[c]]]
    [] s.stage = "empty"      -> AnyRow
    [] OTHER                  -> CurrentRow(p, i - 1)

-----------------------------------------------------------------------------
(* next().  An execution e is a plan with its fuel; the result has, too, a  *)
(* field res: "row", "end" or "throw".                                      *)

Exec(p, fuel, res) == [p |-> p, fuel |-> fuel, res |-> res]

\* The next row of a source; the position is the number of the row.
NextOfSource(e, i) ==
  LET s     == e.p[i]
      valid == s.m_iCurrent < Len(s.rows)
      moved == [e.p EXCEPT ![i].m_iCurrent = @ + 1, ![i].m_iRows = @ + (IF valid THEN 1 ELSE 0)]
  IN  CASE ~valid /\ s.stage # "const" -> Exec(moved, e.fuel, "end")
        [] e.fuel = 0                  -> Exec(e.p, 0, "throw")
        [] OTHER -> Exec(moved, e.fuel - 1, IF valid THEN "row" ELSE "end")

NextOfSort(e, i) ==
  LET s == e.p[i]
  IN  CASE e.fuel = 0                    -> Exec(e.p, 0, "throw")
        [] s.m_iCurrent >= Len(s.m_rows) -> Exec(e.p, e.fuel - 1, "end")
        [] OTHER -> Exec([e.p EXCEPT ![i].m_iCurrent = @ + 1], e.fuel - 1, "row")

\* The values of a group after its first row r, and after a further one
FirstOfGroup(s, r) ==
  LET first == [c \in DOMAIN r |-> Cache(View(c), r)]
  IN  IF s.agg = <<>> THEN first ELSE [c \in {Agg} |-> Cache(View(s.agg[1].column), r)] @@ first

AddToGroup(s, r) ==
  LET v == r[s.agg[1].column]
      w == s.m_proj[Agg].value
  IN  CASE s.agg = <<>>              -> s.m_proj
        [] s.agg[1].func = "COUNT"   -> s.m_proj
        [] s.agg[1].func = "MAX"     -> [s.m_proj EXCEPT ![Agg] = IF v > w THEN Cached(v) ELSE @]
        [] s.agg[1].func = "MIN"     -> [s.m_proj EXCEPT ![Agg] = IF v < w THEN Cached(v) ELSE @]
        [] s.agg[1].func = "SUM"     -> [s.m_proj EXCEPT ![Agg] = Cached(v + w)]

\* getResult of COUNT reads m_iCount.
GroupDone(s) ==
  IF s.agg # <<>> /\ s.agg[1].func = "COUNT"
  THEN [s EXCEPT !.m_proj[Agg] = Cached(s.m_iCount), !.m_iRows = @ + 1]
  ELSE [s EXCEPT !.m_iRows = @ + 1]

RECURSIVE NextRow(_, _)
RECURSIVE RestOfGroup(_, _)

\* The loop of GroupByPlan::next: up to the first row of the next group
RestOfGroup(e, i) ==
  LET n    == NextRow(e, i - 1)
      s    == n.p[i]
      r    == CurrentRow(n.p, i - 1)
      same == \A k \in DOMAIN s.m_groupby : r[s.m_groupby[k]] = Read(s.m_last[k], r)
      last == [k \in DOMAIN s.m_groupby |-> Cache(View(s.m_groupby[k]), r)]
  IN  CASE n.res = "throw" -> n
        [] n.res = "end"   -> Exec([n.p EXCEPT ![i] = GroupDone([s EXCEPT !.m_bHasMore = FALSE])], n.fuel, "row")
        [] n.res = "row" /\ ~same ->
             Exec([n.p EXCEPT ![i] = GroupDone([s EXCEPT !.m_last = last])], n.fuel, "row")
        [] n.res = "row" /\ same ->
             RestOfGroup(Exec([n.p EXCEPT ![i] = [s EXCEPT !.m_iCount = @ + 1, !.m_proj = AddToGroup(s, r)]],
                              n.fuel, "row"), i)

NextOfGroupBy(e, i) ==
  LET s == e.p[i]
      r == CurrentRow(e.p, i - 1)
  IN  IF ~s.m_bHasMore THEN Exec(e.p, e.fuel, "end")
      ELSE RestOfGroup(Exec([e.p EXCEPT ![i] = [s EXCEPT !.m_proj = FirstOfGroup(s, r), !.m_iCount = 1]],
                            e.fuel, "row"), i)

\* Whether LIMIT lets the row through that its child has just returned
WithinLimit(s) == s.m_iCurrent < s.m_iLimit + s.m_iOffset

SkipsRow(s) == s.m_iCurrent < s.m_iOffset

NextRow(e, i) ==
  LET s     == e.p[i]
      n     == NextRow(e, i - 1)
      t     == n.p[i]
      count == Exec([n.p EXCEPT ![i].m_iCurrent = @ + 1], n.fuel, n.res)
  IN
  CASE s.stage \in {"scan", "const", "file"} -> NextOfSource(e, i)
    [] s.stage = "empty"      -> Exec(e.p, e.fuel, "end")
    [] s.stage = "sort"       -> NextOfSort(e, i)
    [] s.stage = "groupby"    -> NextOfGroupBy(e, i)
    [] s.stage = "projection" -> n
    [] s.stage = "filter"     ->
         IF n.res # "row" THEN n
         ELSE LET result == Match(s.m_predicatesInOr, CurrentRow(n.p, i - 1))
              IN  IF result = "throw" THEN [n EXCEPT !.res = "throw"]
                  ELSE IF result = "match" THEN count ELSE NextRow(n, i)
    [] s.stage = "limit"      ->
         IF n.res # "row" THEN n
         ELSE IF SkipsRow(s) THEN NextRow(count, i)
         ELSE [count EXCEPT !.res = IF WithinLimit(t) THEN "row" ELSE "end"]

-----------------------------------------------------------------------------
(* begin() and end()                                                        *)

RECURSIVE EndPlan(_, _)
EndPlan(p, i) ==
  CASE p[i].stage \in {"scan", "const", "file"} -> [p EXCEPT ![i].open = FALSE]
    [] p[i].stage = "empty" -> p
    [] p[i].stage = "sort"  -> [p EXCEPT ![i].m_rows = <<>>]
    [] OTHER -> EndPlan(p, i - 1)

\* std::sort by the criteria; rows that compare equal stay in the order in
\* which they were read, or are reversed.
Before(criteria, x, y) ==
  LET diff == {k \in DOMAIN criteria : x.row[criteria[k].column] # y.row[criteria[k].column]}
      k    == Min(diff)
      less == x.row[criteria[k].column] < y.row[criteria[k].column]
  IN  IF diff = {} THEN (IF ties = "kept" THEN x.n < y.n ELSE x.n > y.n)
      ELSE IF criteria[k].order = "Descend" THEN ~less ELSE less

SortRows(criteria, rows) ==
  LET numbered == [k \in DOMAIN rows |-> [row |-> rows[k], n |-> k]]
      sorted   == SortSeq(numbered, LAMBDA x, y : Before(criteria, x, y))
  IN  [k \in DOMAIN rows |-> sorted[k].row]

\* The loop of SortPlan::begin.  copyRow throws when there is no memory.
RECURSIVE ReadAll(_, _)
ReadAll(e, i) ==
  LET n == NextRow(e, i - 1)
  IN  IF n.res # "row" THEN n
      ELSE IF n.fuel = 0 THEN Exec(n.p, 0, "throw")
      ELSE ReadAll(Exec([n.p EXCEPT ![i].m_rows = Append(@, CurrentRow(n.p, i - 1))], n.fuel - 1, "row"), i)

RECURSIVE BeginPlan(_, _)

\* Mutant of BeginSort: the child is not ended.
BeginSortOpen(e, i) ==
  LET begun == BeginPlan(e, i - 1)
      read  == ReadAll(begun, i)
  IN  CASE begun.res = "throw" -> begun
        [] read.res = "throw"  -> read
        [] OTHER -> Exec([read.p EXCEPT ![i].m_rows = SortRows(read.p[i].m_sort, @), ![i].m_iCurrent = 0],
                         read.fuel, "row")

BeginSort(e, i) ==
  LET begun == BeginPlan(e, i - 1)
      read  == ReadAll(begun, i)
  IN  CASE begun.res = "throw" -> begun
        [] read.res = "throw"  -> read
        [] OTHER -> Exec([EndPlan(read.p, i - 1)
                            EXCEPT ![i].m_rows = SortRows(read.p[i].m_sort, @), ![i].m_iCurrent = 0],
                         read.fuel, "row")

BeginGroupBy(e, i) ==
  LET reset == [e.p EXCEPT ![i].m_iRows = 0, ![i].m_last = <<>>]
      begun == BeginPlan(Exec(reset, e.fuel, "row"), i - 1)
      n     == NextRow(begun, i - 1)
      r     == CurrentRow(n.p, i - 1)
      last  == [k \in DOMAIN e.p[i].m_groupby |-> Cache(View(e.p[i].m_groupby[k]), r)]
  IN  CASE begun.res = "throw" -> begun
        [] n.res = "throw"     -> n
        [] n.res = "end"       -> Exec([n.p EXCEPT ![i].m_bHasMore = FALSE], n.fuel, "row")
        [] OTHER -> Exec([n.p EXCEPT ![i].m_bHasMore = TRUE, ![i].m_last = last], n.fuel, "row")

\* A scan counts its rows from zero, a file goes on counting.
BeginSource(s) ==
  [s EXCEPT !.m_iCurrent = 0, !.open = TRUE, !.m_iRows = IF s.stage = "file" THEN @ ELSE 0]

\* FilterPlan and LimitPlan
BeginCounter(e, i) ==
  LET begun == BeginPlan(e, i - 1)
  IN  IF begun.res = "throw" THEN begun ELSE [begun EXCEPT !.p[i].m_iCurrent = 0]

BeginPlan(e, i) ==
  CASE e.p[i].stage \in {"scan", "const", "file"} -> [e EXCEPT !.p[i] = BeginSource(@)]
    [] e.p[i].stage = "empty"   -> e
    [] e.p[i].stage = "sort"    -> BeginSort(e, i)
    [] e.p[i].stage = "groupby" -> BeginGroupBy(e, i)
    [] e.p[i].stage \in {"filter", "limit"} -> BeginCounter(e, i)
    [] OTHER -> BeginPlan(e, i - 1)

-----------------------------------------------------------------------------
(* getInfoString: the number after SELECT.  It is a uint64_t: a negative     *)
(* number stands for what it wraps around to.                               *)

\* Mutant of InfoNumber: the rows of the source are counted.
InfoNumberOfSource(p, i) == IF p[1].stage = "const" THEN Len(p[1].rows) ELSE p[1].m_iRows

RECURSIVE InfoNumber(_, _)
InfoNumber(p, i) ==
  CASE p[i].stage = "filter"             -> p[i].m_iCurrent
    [] p[i].stage \in {"groupby", "scan", "file"} -> p[i].m_iRows
    [] p[i].stage = "const"              -> Len(p[i].rows)
    [] p[i].stage = "empty"              -> 0
    [] p[i].stage = "limit"              -> p[i].m_iCurrent - p[i].m_iOffset
    [] OTHER                             -> InfoNumber(p, i - 1)

-----------------------------------------------------------------------------
(* The session: resolve(), handleExecutionBegin, handleExecutionResult and  *)
(* handleExecutionDone.                                                     *)

\* The rows of the table as a source has them: a scan in the order of the key,
\* the others in any order, here the opposite one
KeyLess(x, y) ==
  LET diff == {k \in DOMAIN KeyColumns : x[KeyColumns[k]] # y[KeyColumns[k]]}
  IN  diff # {} /\ x[KeyColumns[Min(diff)]] < y[KeyColumns[Min(diff)]]

SourceOf(kind) ==
  LET sorted == [n \in 1..Cardinality(content) |->
                   CHOOSE r \in content : Cardinality({x \in content : KeyLess(x, r)}) = n - 1]
  IN  Source(kind, IF kind = "scan" THEN sorted ELSE Reverse(sorted))

Init ==
  /\ setting \in DOMAIN Settings
  /\ content \in Settings[setting].tables
  /\ ties \in {"kept", "reversed"}
  /\ query = <<>>
  /\ m_pPlan = <<>>
  /\ phase = "none"
  /\ out = <<>>

\* The predicates of a statement are made of the operations given.
MadeOf(operations, q) ==
  /\ \A p \in ToSet(Predicate(q)) : WellFormed(p, Columns, operations)
  /\ \A p \in ToSet(q.having) : WellFormed(p, Columns \cup {Agg}, operations)

\* A scan makes key ranges of its predicates first, which is not modelled here:
\* it is only asked what is supported.
MayScan(statement) == \A i \in DOMAIN statement : MadeOf(Comparison, statement[i])

\* parse() or resolve() throws, or there is a new plan, or an assertion fails.
Resolve ==
  /\ phase = "none"
  /\ \E kind \in Settings[setting].sources, sub \in Settings[setting].subqueries, q \in Settings[setting].queries :
       /\ query' = Append(sub, q)
       /\ kind = "scan" => MayScan(query')
       /\ LET fault == StatementFault(query')
          IN  CASE fault = "throws" -> phase' = "refused" /\ UNCHANGED m_pPlan
                [] fault = "aborts" -> phase' = "aborted" /\ UNCHANGED m_pPlan
                [] fault = "no"     -> phase' = "ready" /\ m_pPlan' = Build(SourceOf(kind), query')
  /\ out' = <<>>
  /\ UNCHANGED <<setting, content, ties>>

\* How many calls succeed before one throws; Plenty when none does
Plenty == 1000
Fuel == IF Settings[setting].mayFail THEN (0..(2 * Cardinality(content) + 2)) \cup {Plenty} ELSE {Plenty}

\* handleExecutionBegin up to the first next()
Begin ==
  /\ phase = "ready" \/ (phase = "failed" /\ Settings[setting].mayFail)
  /\ \E fuel \in Fuel :
       LET e == BeginPlan(Exec(m_pPlan, fuel, "row"), Len(m_pPlan))
       IN  /\ m_pPlan' = e.p
           /\ phase' = IF e.res = "throw" THEN "failed" ELSE "running"
  /\ out' = <<>>
  /\ UNCHANGED <<setting, content, query, ties>>

\* One next() and, if it returns a row, the row that buildData reads; at the
\* end handleExecutionDone calls end().
FetchRow ==
  /\ phase = "running"
  /\ \E fuel \in Fuel :
       LET e == NextRow(Exec(m_pPlan, fuel, "row"), Len(m_pPlan))
       IN  CASE e.res = "row" ->
                  /\ m_pPlan' = e.p
                  /\ out' = Append(out, CurrentRow(e.p, Len(e.p)))
                  /\ UNCHANGED phase
             [] e.res = "end" ->
                  /\ m_pPlan' = EndPlan(e.p, Len(e.p))
                  /\ phase' = "done"
                  /\ UNCHANGED out
             [] e.res = "throw" ->
                  /\ m_pPlan' = e.p
                  /\ phase' = "failed"
                  /\ UNCHANGED out
  /\ UNCHANGED <<setting, content, query, ties>>

\* The session waits for the next statement.  The plan of one that is done has
\* been destroyed; one that failed is not executed again but replaced.
Discard ==
  /\ phase \in {"done", "refused", "failed"}
  /\ phase' = "none"
  /\ m_pPlan' = <<>>
  /\ query' = <<>>
  /\ out' = <<>>
  /\ UNCHANGED <<setting, content, ties>>

\* Nothing is left to do.
Aborted == phase = "aborted" /\ UNCHANGED vars

Next == Resolve \/ Begin \/ FetchRow \/ Discard \/ Aborted

Spec == Init /\ [][Next]_vars

-----------------------------------------------------------------------------
(* What a SELECT means.  The rows of its result are pairwise different:     *)
(* statements keep the key or the grouping columns.                         *)

Aggregate(agg, rows) ==
  LET values == {r[agg.column] : r \in rows}
  IN  CASE agg.func = "COUNT" -> Cardinality(rows)
        [] agg.func = "MAX"   -> Max(values)
        [] agg.func = "MIN"   -> Min(values)
        [] agg.func = "SUM"   -> MapThenSumSet(LAMBDA r : r[agg.column], rows)

\* The rows of a statement without its limit.  An aggregate of no rows is no
\* row.
ResultRows(q, rows) ==
  LET selected == IF IsFalse(q) THEN {}
                  ELSE IF Predicate(q) = <<>> THEN rows ELSE {r \in rows : Means(q.where[1], r)}
      keys     == {Restrict(r, ToSet(q.group)) : r \in selected}
      grouped  == {k @@ [c \in {Agg} |->
                     Aggregate(q.agg[1], {r \in selected : Restrict(r, ToSet(q.group)) = k})] : k \in keys}
  IN  IF q.agg = <<>> THEN selected
      ELSE IF q.having = <<>> THEN grouped ELSE {r \in grouped : Means(q.having[1], r)}

Precedes(order, x, y) ==
  \E k \in DOMAIN order :
    /\ \A j \in 1..(k - 1) : x[order[j].column] = y[order[j].column]
    /\ IF order[k].order = "Descend" THEN x[order[k].column] > y[order[k].column]
                                     ELSE x[order[k].column] < y[order[k].column]

\* The sequence rows is what ORDER BY and LIMIT may make of the set all: the
\* row at position k may stand there.
IsResult(q, all, rows) ==
  LET offset == IF q.limit = <<>> THEN 0 ELSE q.limit[1].offset
      rest   == IF Cardinality(all) > offset THEN Cardinality(all) - offset ELSE 0
      length == IF q.limit = <<>> \/ q.limit[1].count > rest THEN rest ELSE q.limit[1].count
  IN  /\ Len(rows) = length
      /\ Cardinality(ToSet(rows)) = Len(rows)
      /\ ToSet(rows) \subseteq all
      /\ \A j, k \in DOMAIN rows : j < k => ~Precedes(q.order, rows[k], rows[j])
      /\ \A k \in DOMAIN rows :
           /\ Cardinality({r \in all : Precedes(q.order, r, rows[k])}) < offset + k
           /\ Cardinality({r \in all : ~Precedes(q.order, rows[k], r)}) >= offset + k

\* The sets of rows that a subquery may hand to the statement around it
SubResults(q, rows) ==
  {s \in SUBSET ResultRows(q, rows) : \E perm \in SetToSeqs(s) : IsResult(q, ResultRows(q, rows), perm)}

-----------------------------------------------------------------------------

\* An execution that ends has returned the rows of the statement, in its order
\* and within its limit: rewriting IN into alternatives and lifting OR over AND
\* (QueryRewritter), leaving out a sort because of the order of the key, of a
\* subquery or of the grouping (ensureSortOrder), detecting the end of a group
\* by comparing neighbours, caching results across next() and counting rows
\* from zero in begin() lose, add, repeat or disorder nothing.
ResultRight ==
  phase = "done" /\ (\A i \in DOMAIN query : MadeOf(Comparison, query[i])) =>
    IF Len(query) = 1 THEN IsResult(query[1], ResultRows(query[1], content), out)
    ELSE \E rows \in SubResults(query[1], content) :
           IsResult(query[2], ResultRows(query[2], rows), out)

\* The number that handleExecutionDone reports is the number of rows that were
\* sent (ExecutionPlan.h: "num is the number of result set rows").  Not so with
\* LIMIT, whose count includes the row at which it stops.
CountRight ==
  phase = "done" /\ (\A i \in DOMAIN query : query[i].limit = <<>>) =>
    InfoNumber(m_pPlan, Len(m_pPlan)) = Len(out)

\* When a statement is done its iterators and files are closed, although a sort
\* ends its child in begin() and does not pass end() on.
SourceClosed ==
  phase = "done" => \A i \in DOMAIN m_pPlan :
                      m_pPlan[i].stage \in {"scan", "const", "file"} => ~m_pPlan[i].open

\* A statement whose predicates are of the supported language is answered:
\* whatever the nesting, the rewriter leaves no IN and no OR where doAddPredicate,
\* which takes no other than AND and operations on columns, would find it.  What
\* becomes of the others depends on what is wrong with them.  With an operation
\* that is no comparison the plan is built, and evaluate() throws when it comes to
\* it (FilterPlan.cpp:63).  Everything else that is not supported is refused
\* before the plan is executed, except that a bare column or constant under AND or
\* OR may end the process by an assertion (QueryRewritter.cpp:31).
SupportedAnswered ==
  /\ phase # "none" =>
       (phase \in {"refused", "aborted"} <=> \E i \in DOMAIN query : ~MadeOf(Comparison \cup Arithmetic, query[i]))
  /\ phase = "aborted" =>
       \E i \in DOMAIN query : \E p \in ToSet(query[i].where) \cup ToSet(query[i].having) : BareOperand(p)
  /\ phase = "failed" /\ ~Settings[setting].mayFail => \E i \in DOMAIN query : ~MadeOf(Comparison, query[i])
=============================================================================
