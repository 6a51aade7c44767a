---------------------------- MODULE MCLevelDBPlan ----------------------------
(* Instances of LevelDBPlan: the statements of each run.                      *)
EXTENDS LevelDBPlan

Pred(c, o, v) == [col |-> c, op |-> o, val |-> v, swapped |-> FALSE]

\* The tables of the range run: full, empty, and with gaps at a boundary
RangeTables ==
  {Key, {}, {k \in Key : k[1] # 1}, {k \in Key : k[2] # 1}}

\* Conjunctions of two predicates of every form, and of three that compare with
\* the value 1
Conjunctions ==
  [1..2 -> Predicate] \cup [1..3 -> {p \in Predicate : p.val = 1 /\ ~p.swapped /\ p.op # "!="}]

\* Conjunctions on the first column that some value may satisfy: one bound, or
\* two that are not the wrong way around
SingleBounds == {<<Pred(1, o, v)>> : o \in Operation, v \in Value}

Bounds ==
  {c \in {<<Pred(1, l, v), Pred(1, u, w)>> : l \in {">", ">="}, u \in {"<", "<="}, v, w \in Value} :
     Proper(MakeRange(DoSetPredicate(c)))}

\* A value of the first column and one bound on the second
Prefixed == {<<Pred(1, "=", v), Pred(2, o, 1)>> : v \in {0, 1}, o \in Operation \ {"!="}}

\* Unions of two, and of three around one value
Unions ==
  [1..2 -> SingleBounds \cup Bounds] \cup [1..2 -> Prefixed]
    \cup [1..3 -> {c \in SingleBounds : c[1].val = 1} \cup {<<Pred(1, "=", 0)>>, <<Pred(1, "=", 2)>>}]

RangeSelects == {<<c>> : c \in Conjunctions} \cup Unions \cup {<<>>}

\* A contradiction in the middle of two ranges that share one key
ContradictionSelects ==
  {<< <<Pred(1, "<=", 1)>>, <<Pred(1, ">", 1), Pred(1, "<", 1)>>, <<Pred(1, ">=", 1)>> >>}

\* A few statements whose rows other sessions insert and delete
Outer == << <<Pred(1, "<", 1)>>, <<Pred(1, ">", 1)>> >>
Upper == << <<Pred(1, ">", 0), Pred(1, "!=", 1)>> >>

ConcurrentSelects == {Outer}
ConcurrentDeletes == {Outer, Upper}
ConcurrentInserts == {<<[i \in Column |-> 0], [i \in Column |-> 2]>>, <<[i \in Column |-> 1]>>}

FullTable    == {Key}
NoStatements == {}

\* Workers differ only in name.
WorkerSymmetry == Permutations(Worker)
=============================================================================
