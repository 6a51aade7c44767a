---------------------------- MODULE LevelDBPlan ----------------------------
(***************************************************************************)
(* SELECT, DELETE and INSERT on one LevelDB table: how the plan of a       *)
(* statement is built from its predicate (planbuilder/LevelDBPlanBuilder)  *)
(* and how begin, next and end execute it (execution/LevelDBScanPlan,      *)
(* FilterPlan, UnionAllPlan, LevelDBDeletePlan, LevelDBInsertPlan), in     *)
(* workers that share the table.                                           *)
(*                                                                         *)
(* A predicate is in the normal form that the rewriter produces: a         *)
(* sequence of alternatives, each a conjunction (a sequence of             *)
(* predicates); <<>> is a statement without a predicate.  A row is its     *)
(* key: the other columns follow it and decide nothing.                    *)
(***************************************************************************)
EXTENDS KeySearchRange, FiniteSets

CONSTANTS
  Worker,       \* the sessions that execute statements
  Tables,       \* the initial contents of the table, sets of keys
  Selects,      \* the predicates of SELECT statements
  Deletes,      \* the predicates of DELETE statements
  Inserts,      \* the rows of INSERT statements, sequences of keys
  MayCancel     \* whether sessions are cancelled

ASSUME PlanAssumption ==
  /\ Tables \subseteq SUBSET Key
  /\ Selects \cup Deletes \subseteq Seq(Seq(Predicate))
  /\ Inserts \subseteq Seq(Key)
VARIABLES
  m_pDB,        \* the keys in the table
  plan,         \* m_pPlan of each worker
  m_bTerminate  \* whether the worker's session has been cancelled

vars == <<m_pDB, plan, m_bTerminate>>

Matches(where, k) ==
  where = <<>> \/ \E i \in DOMAIN where : \A j \in DOMAIN where[i] : Holds(where[i][j], k)

Matching(where, content) == {k \in content : Matches(where, k)}

-----------------------------------------------------------------------------
(* Building the plan of a predicate.  A scan is the range of keys it reads, *)
(* a filter (some alternative has to hold, {{}} is no filter) and an        *)
(* iterator: {} is a null pointer, {c} one over the snapshot c of the table.*)

\* ScanPlanInfo for a conjunction: the filter is left with what the range does
\* not guarantee
ScanPlanInfo(conjunction) ==
  LET s == DoSetPredicate(conjunction)
  IN  [range     |-> MakeRange(s),
       filter    |-> {ToSet(conjunction) \ Solved(s)},
       m_pDBIter |-> {}]

IsFullScan(conjunction) == Solved(DoSetPredicate(conjunction)) = {}

\* ScanPlanInfo without a predicate or for one with alternatives
FullScan(where) ==
  [range     |-> MakeRange(NoRanges),
   filter    |-> IF where = <<>> THEN {{}} ELSE {ToSet(where[i]) : i \in DOMAIN where},
   m_pDBIter |-> {}]

\* The results of std::sort by compareStart: which one is unspecified when
\* ranges have the same start.
SortedByStart(scans) ==
  {s \in {[i \in DOMAIN scans |-> scans[f[i]]] : f \in Bijection(DOMAIN scans, DOMAIN scans)} :
     \A i, j \in DOMAIN s : i < j => ~StartsBefore(s[j].range, s[i].range)}

\* Mutant of Overlap: ranges may touch.
OverlapIgnored(s) ==
  \E i \in 2..Len(s) : StartsBefore(s[i].range, s[i - 1].range)

Overlap(s) == \E i \in 2..Len(s) : ~StartAfterEnd(s[i].range, s[i - 1].range)

\* Mutant of ShareIterator: every scan opens its own.
ShareNothing(s) == s

\* The scans of a union read one snapshot, taken when the plan is built.
ShareIterator(s) == [i \in DOMAIN s |-> [s[i] EXCEPT !.m_pDBIter = {m_pDB}]]

\* buildUnionAll
BuildUnionAll(where) ==
  IF \E i \in DOMAIN where : IsFullScan(where[i]) THEN {<<FullScan(where)>>}
  ELSE {IF Overlap(s) THEN <<FullScan(where)>> ELSE ShareIterator(s) :
          s \in SortedByStart([i \in DOMAIN where |-> ScanPlanInfo(where[i])])}

\* buildSelectPlan: the sequences of scans that may result, a union when there
\* are several
BuildSelectPlan(where) ==
  CASE where = <<>>     -> {<<FullScan(where)>>}
    [] Len(where) = 1   -> {<<ScanPlanInfo(where[1])>>}
    [] OTHER            -> BuildUnionAll(where)

-----------------------------------------------------------------------------
(* The state of a plan.  "rows" are the rows returned by next() since       *)
(* begin(); two histories are used only by properties: "versions", the      *)
(* contents the table has had since the plan was built, and "again", whether *)
(* an execution of it has failed before.                                     *)

Plan(kind, where, m_order, scans, values) ==
  [kind |-> kind, where |-> where, m_order |-> m_order, scans |-> scans,
   values |-> values, phase |-> "ready", m_iCurrentIndex |-> 1, m_iRows |-> 0,
   m_currentKey |-> <<>>, rows |-> <<>>, m_batch |-> {}, versions |-> {m_pDB},
   again |-> FALSE]

NoPlan == [phase |-> "none"]

\* A statement can be bound: none is being executed.  (Binding again before the
\* plan is executed destroys a plan that has had no effect.)
Resting(w) == plan[w].phase \in {"none", "failed"}

SetPlan(w, p) == plan' = [plan EXCEPT ![w] = p]

Init ==
  /\ m_pDB \in Tables
  /\ plan = [w \in Worker |-> NoPlan]
  /\ m_bTerminate = [w \in Worker |-> FALSE]

\* resolve() for the three kinds of statement.  ORDER BY the key sets m_order;
\* every other order is a forward scan.
ResolveSelect(w) ==
  /\ Resting(w)
  /\ \E where \in Selects, m_order \in {"Ascend", "Descend"} :
       \E scans \in BuildSelectPlan(where) :
         SetPlan(w, Plan("select", where, m_order, scans, <<>>))
  /\ UNCHANGED <<m_pDB, m_bTerminate>>

ResolveDelete(w) ==
  /\ Resting(w)
  /\ \E where \in Deletes : \E scans \in BuildSelectPlan(where) :
       SetPlan(w, Plan("delete", where, "Any", scans, <<>>))
  /\ UNCHANGED <<m_pDB, m_bTerminate>>

ResolveInsert(w) ==
  /\ Resting(w)
  /\ \E values \in Inserts : SetPlan(w, Plan("insert", <<>>, "Any", <<>>, values))
  /\ UNCHANGED <<m_pDB, m_bTerminate>>

-----------------------------------------------------------------------------
(* begin()                                                                  *)

\* LevelDBScanPlan::begin of scan i
BeginScan(p, i) ==
  [p EXCEPT !.m_iCurrentIndex = i,
            !.m_iRows = 0,
            !.scans[i].m_pDBIter = IF @ = {} THEN {m_pDB} ELSE @]

\* Mutant of ScanOrder: the union runs its scans in the order of their start.
ScanOrderForward(p) == p.scans

\* UnionAllPlan::begin: the last range first when scanning backwards.  A plan
\* that failed and is executed again is reversed again.
ScanOrder(p) == IF p.m_order = "Descend" THEN Reverse(p.scans) ELSE p.scans

\* Execute: also of a plan whose last execution failed.  m_batch is kept.  (An
\* INSERT with the wrong number of values throws here and changes nothing.)
Begin(w) ==
  LET p == [plan[w] EXCEPT !.phase = "running", !.rows = <<>>,
                            !.again = plan[w].phase = "failed"]
  IN  /\ plan[w].phase \in {"ready", "failed"}
      /\ SetPlan(w, IF p.kind = "insert" THEN [p EXCEPT !.m_iCurrentIndex = 1]
                    ELSE BeginScan([p EXCEPT !.scans = ScanOrder(p)], 1))
      /\ UNCHANGED <<m_pDB, m_bTerminate>>

-----------------------------------------------------------------------------
(* next(): one step is one call of LevelDBScanPlan::next with what filter,  *)
(* union and delete do with its result.                                     *)

Lowest(keys)  == {k \in keys : \A j \in keys : ~KeyLess(j, k)}
Highest(keys) == {k \in keys : \A j \in keys : ~KeyLess(k, j)}

Running(w, kinds) == plan[w].phase = "running" /\ plan[w].kind \in kinds

Scan(p) == p.scans[p.m_iCurrentIndex]
Snapshot(p) == UNION Scan(p).m_pDBIter

\* Where the iterator moves, {} if it becomes invalid: seekStart and
\* seekStartReversed for the first row, next() and prev() for the others
Moved(p) ==
  IF p.m_order = "Descend"
  THEN Highest({k \in Snapshot(p) : IF p.m_iRows = 0 THEN BeforeEnd(Scan(p).range, k)
                                    ELSE KeyLess(k, p.m_currentKey)})
  ELSE Lowest({k \in Snapshot(p) : IF p.m_iRows = 0 THEN AfterStart(Scan(p).range, k)
                                   ELSE KeyLess(p.m_currentKey, k)})

\* exceedEndReversed, exceedEnd
Exceeds(p, k) ==
  IF p.m_order = "Descend" THEN ~AfterStart(Scan(p).range, k)
                           ELSE ~BeforeEnd(Scan(p).range, k)

\* FilterPlan::evaluate for every predicate left in the filter
Passes(p, k) == \E conjunction \in Scan(p).filter : \A q \in conjunction : Holds(q, k)

\* CheckCancellation throws: the plan stays, its batch and iterators too.
NextThrows(w) ==
  /\ \/ Running(w, {"select", "delete"}) /\ Moved(plan[w]) # {}
     \/ Running(w, {"insert"})
  /\ m_bTerminate[w]
  /\ SetPlan(w, [plan[w] EXCEPT !.phase = "failed"])
  /\ UNCHANGED <<m_pDB, m_bTerminate>>

\* Mutant of NextRow: a row is taken before the filter has seen it.
NextRowUnfiltered(w) ==
  /\ Running(w, {"select", "delete"})
  /\ ~m_bTerminate[w]
  /\ \E k \in Moved(plan[w]) :
       /\ ~Exceeds(plan[w], k)
       /\ SetPlan(w, [plan[w] EXCEPT !.m_currentKey = k,
                                     !.m_iRows = @ + 1,
                                     !.rows = IF Passes(plan[w], k) THEN Append(@, k) ELSE @,
                                     !.m_batch = IF plan[w].kind = "delete" THEN @ \cup {k} ELSE @])
  /\ UNCHANGED <<m_pDB, m_bTerminate>>

\* A row of the range; if it passes the filter it is returned, or put into the
\* batch of a delete
NextRow(w) ==
  /\ Running(w, {"select", "delete"})
  /\ ~m_bTerminate[w]
  /\ \E k \in Moved(plan[w]) :
       /\ ~Exceeds(plan[w], k)
       /\ SetPlan(w, [plan[w] EXCEPT
            !.m_currentKey = k,
            !.m_iRows = @ + 1,
            !.rows = IF Passes(plan[w], k) THEN Append(@, k) ELSE @,
            !.m_batch = IF Passes(plan[w], k) /\ plan[w].kind = "delete" THEN @ \cup {k} ELSE @])
  /\ UNCHANGED <<m_pDB, m_bTerminate>>

\* Mutant of RangeDone: a scan that found nothing is tried again.
RangeDoneRetries(w) ==
  LET p == plan[w]
  IN  /\ Running(w, {"select", "delete"})
      /\ Moved(p) = {} \/ ~m_bTerminate[w]
      /\ \A k \in Moved(p) : Exceeds(p, k)
      /\ SetPlan(w, IF p.m_iRows = 0 THEN p
                    ELSE IF p.m_iCurrentIndex < Len(p.scans) THEN BeginScan(p, p.m_iCurrentIndex + 1)
                    ELSE [p EXCEPT !.phase = "exhausted"])
      /\ UNCHANGED <<m_pDB, m_bTerminate>>

\* The range has no further row: the union goes on to the next one
RangeDone(w) ==
  LET p == plan[w]
  IN  /\ Running(w, {"select", "delete"})
      /\ Moved(p) = {} \/ ~m_bTerminate[w]
      /\ \A k \in Moved(p) : Exceeds(p, k)
      /\ SetPlan(w, IF p.m_iCurrentIndex < Len(p.scans) THEN BeginScan(p, p.m_iCurrentIndex + 1)
                    ELSE [p EXCEPT !.phase = "exhausted"])
      /\ UNCHANGED <<m_pDB, m_bTerminate>>

\* LevelDBInsertPlan::next over the rows of a ConstPlan
InsertNext(w) ==
  LET p == plan[w]
  IN  /\ Running(w, {"insert"})
      /\ ~m_bTerminate[w]
      /\ SetPlan(w, IF p.m_iCurrentIndex > Len(p.values) THEN [p EXCEPT !.phase = "exhausted"]
                    ELSE [p EXCEPT !.m_iCurrentIndex = @ + 1,
                                   !.rows = Append(@, p.values[p.m_iCurrentIndex]),
                                   !.m_batch = @ \cup {p.values[p.m_iCurrentIndex]}])
      /\ UNCHANGED <<m_pDB, m_bTerminate>>

-----------------------------------------------------------------------------
(* end()                                                                    *)

\* The table after LevelDBHandler::commit of a plan's batch
Committed(p) ==
  CASE p.kind = "insert" -> m_pDB \cup p.m_batch
    [] p.kind = "delete" -> m_pDB \ p.m_batch
    [] OTHER -> m_pDB

\* end() and handleExecutionDone: the batch is written at once, the plan is
\* destroyed.
End(w) ==
  /\ plan[w].phase = "exhausted"
  /\ m_pDB' = Committed(plan[w])
  /\ plan' = [v \in Worker |->
       IF v = w THEN NoPlan
       ELSE IF plan[v].phase = "none" THEN plan[v]
       ELSE [plan[v] EXCEPT !.versions = @ \cup {m_pDB'}]]
  /\ UNCHANGED m_bTerminate

\* The write fails: the scans have been ended, the plan and its batch stay.
CommitFails(w) ==
  LET p == plan[w]
  IN  /\ p.phase = "exhausted" /\ p.kind \in {"insert", "delete"}
      /\ SetPlan(w, [p EXCEPT !.phase = "failed",
                              !.scans = [i \in DOMAIN @ |-> [@[i] EXCEPT !.m_pDBIter = {}]]])
      /\ UNCHANGED <<m_pDB, m_bTerminate>>

\* SessionInfo::cancel from another thread; the flag is never reset
Cancel(w) ==
  /\ MayCancel /\ ~m_bTerminate[w]
  /\ m_bTerminate' = [m_bTerminate EXCEPT ![w] = TRUE]
  /\ UNCHANGED <<m_pDB, plan>>

Step(w) ==
  \/ NextThrows(w) \/ NextRow(w) \/ RangeDone(w) \/ InsertNext(w)
  \/ End(w) \/ CommitFails(w)

Next ==
  \E w \in Worker :
    \/ ResolveSelect(w) \/ ResolveDelete(w) \/ ResolveInsert(w)
    \/ Begin(w) \/ Step(w) \/ Cancel(w)

\* The handler that executes a plan does not stop before it is done or fails.
Spec == Init /\ [][Next]_vars /\ \A w \in Worker : WF_vars(Step(w))

-----------------------------------------------------------------------------
(* Properties                                                               *)

Comes(m_order, a, b) == IF m_order = "Descend" THEN KeyLess(b, a) ELSE KeyLess(a, b)

\* Rows come out in key order, in the direction asked for, and none twice:
\* within a range, from one range of a union to the next, and when an execution
\* is repeated after a failure (UnionAllPlan::begin, LevelDBScanPlan::next).
\* ORDER BY on the key relies on it, because no sort is planned then.
RowsInOrder ==
  \A w \in Worker :
    plan[w].phase # "none" /\ plan[w].kind # "insert" =>
      \A i, j \in DOMAIN plan[w].rows :
        i < j => Comes(plan[w].m_order, plan[w].rows[i], plan[w].rows[j])

\* A complete execution has returned exactly the rows that satisfy the predicate,
\* as the table was at one moment since the statement was bound, although the
\* predicate is split into ranges and filters (KeySearchRange, ScanPlanInfo) and
\* other sessions commit while the ranges are read (buildUnionAll's iterator).
\* Not so for a DELETE that is executed again after its commit failed: end() has
\* dropped the shared iterator, and every range opens its own.
RowsOfOneVersion ==
  \A w \in Worker :
    plan[w].phase = "exhausted" /\ plan[w].kind # "insert" /\ ~plan[w].again =>
      \E v \in plan[w].versions : ToSet(plan[w].rows) = Matching(plan[w].where, v)

\* A DELETE removes only rows that satisfy its predicate, even when it is executed
\* again with the batch of an attempt that failed (LevelDBDeletePlan keeps
\* m_batch); the first time it leaves none of those that the table held at some
\* moment since it was bound.
DeleteExact ==
  [][\A w \in Worker :
       plan[w].phase = "exhausted" /\ plan[w].kind = "delete" /\ plan'[w] = NoPlan =>
         /\ \A k \in m_pDB \ m_pDB' : Matches(plan[w].where, k)
         /\ ~plan[w].again =>
              \E v \in plan[w].versions : Matching(plan[w].where, v) \cap m_pDB' = {}]_vars

\* Every execution comes to its end, whatever ranges are empty: the loops of
\* UnionAllPlan::next and FilterPlan::next terminate.
ExecutionEnds ==
  \A w \in Worker : plan[w].phase = "running" ~> Resting(w)
=============================================================================
