----------------------------- MODULE ParseResult -----------------------------
(***************************************************************************)
(* The arena of a session (common/ParseResult) and what lies in it: the    *)
(* SQL text and the nodes of the statement parsed last, and the strings of *)
(* the parameters bound to it.  A plan points to nodes and strings without *)
(* owning them.  Included are the handlers of SessionInfo that fill,       *)
(* mark, restore and read the arena.                                       *)
(*                                                                         *)
(* The arena has BlockSize cells.  An object is the range of cells it was  *)
(* written to and whether all of them still hold it.  A statement has the  *)
(* cells of its text and nodes, its parameters, and what becomes of it:    *)
(* "ok", "bypassed" (SET, BEGIN, COMMIT, DEALLOCATE), "syntax" (the parser *)
(* rejects it), "unsupported" (the rewriting rejects it) or "refused" (no  *)
(* plan can be built).                                                     *)
(***************************************************************************)
EXTENDS Integers, Sequences, SequencesExt

CONSTANTS
  BlockSize,      \* cells of the arena, GlobalMemBlockPool::BLOCK_SIZE
  Statements,     \* records with fields name, size, params and kind
  StringSizes     \* the sizes of the values of parameters

ASSUME ArenaAssumption ==
  /\ BlockSize \in Nat
  /\ StringSizes \subseteq Nat
  /\ \A s \in Statements : s.size \in Nat /\ s.params \in Nat /\ (s.kind = "bypassed" => s.params = 0)

VARIABLES
  m_iCurrent,        \* cells in use
  m_iMark,           \* what restore() goes back to
  tree,              \* m_pResult: <<>>, or <<the statement and its object>>
  m_bindParamNodes,  \* the strings of the parameter nodes
  m_pPlan,           \* <<>>, or <<the plan>>
  executing,         \* whether the plan is being executed
  client,            \* what the client has sent and been told
  failedSince,       \* whether a Bind or an execution has failed since the last
                     \* Parse: a history, for BindFits only
  refused,           \* why the last message was refused, or "no"
  described,         \* what the message just handled has read to describe a
                     \* result: "nothing", "names" or "overwritten"
  planLeft           \* whether m_pPlan is one that something failed has left: an
                     \* execution, a Describe, or the previous client; a history

handled == <<refused, described>>
vars == <<m_iCurrent, m_iMark, tree, m_bindParamNodes, m_pPlan, executing, client, failedSince, planLeft, handled>>

Unbound == [lo |-> 1, hi |-> 0, intact |-> TRUE]

\* Object o after the cells lo..hi have been written
Overwrite(o, lo, hi) == [o EXCEPT !.intact = @ /\ (o.hi < lo \/ hi < o.lo \/ o.lo > o.hi \/ lo > hi)]

OverwriteAll(objects, lo, hi) == [i \in DOMAIN objects |-> Overwrite(objects[i], lo, hi)]

OverwriteTree(lo, hi) == [i \in DOMAIN tree |-> [tree[i] EXCEPT !.nodes = Overwrite(@, lo, hi)]]

\* A plan reads its nodes and, through them, the strings of their parameters.
OverwritePlan(lo, hi) ==
  [i \in DOMAIN m_pPlan |->
     [m_pPlan[i] EXCEPT !.nodes = Overwrite(@, lo, hi), !.strings = OverwriteAll(@, lo, hi)]]

-----------------------------------------------------------------------------

\* The client waits for each answer.  It executes what it has bound before it
\* parses or binds again, binds the statement it parsed last, and sends nothing
\* more for a statement after an error.
MayParse   == client.state # "bound"
MayBind(s) == client.state # "bound" /\ client.last = <<s>>
MayExecute == client.state = "bound"

Idle           == [state |-> "idle", last |-> <<>>]
HasParsed(s)   == [state |-> "parsed", last |-> <<s>>]

Init ==
  /\ m_iCurrent = 0 /\ m_iMark = 0
  /\ tree = <<>> /\ m_bindParamNodes = <<>> /\ m_pPlan = <<>>
  /\ executing = FALSE
  /\ client = Idle
  /\ failedSince = FALSE /\ planLeft = FALSE
  /\ refused = "no" /\ described = "nothing"

\* The message just handled: why it was refused, if it was, and no result has
\* been described.
Handled(why) == refused' = why /\ described' = "nothing"

-----------------------------------------------------------------------------
(* SessionInfo::parse, the first part of handleParse and handleQuery: the   *)
(* arena after it, as a record.                                             *)

\* initParse and the parser: the arena is filled from its beginning.
InitParse(size, params) ==
  [current |-> size, params |-> [i \in 1..params |-> Unbound]]

\* The parser stops with an exception, at the cell that does not fit or in front
\* of a token it does not expect, with part of the tree built, or the rewriting
\* does.
Stops(s) == s.kind \in {"syntax", "unsupported"} \/ s.size > BlockSize

Parse(arena, newTree) ==
  /\ tree' = newTree
  /\ m_iCurrent' = arena.current
  /\ m_bindParamNodes' = arena.params
  /\ m_pPlan' = OverwritePlan(1, arena.current)

\* A bypassed statement leaves the arena alone, but for the tree.
Bypass ==
  /\ tree' = <<>>
  /\ UNCHANGED <<m_iCurrent, m_bindParamNodes, m_pPlan>>

\* The tree of a statement, as far as it has been built
NewTree(s, size) == <<[stmt |-> s, nodes |-> [lo |-> 1, hi |-> size, intact |-> TRUE]]>>

\* What m_pResult is after the parser or the rewriting has stopped: nothing, or
\* what the parser made of it, which is not yet rewritten.
TreesLeft(s, built) ==
  CASE s.kind = "syntax"  -> {<<>>}
    [] s.size > BlockSize -> {<<>>, NewTree(s, built)}
    [] OTHER              -> {NewTree(s, built)}

\* The outcomes of parse(s): whether it throws, and the variables it assigns
ParseSql(s, throws) ==
  CASE s.kind = "bypassed" -> ~throws /\ Bypass
    [] s.kind # "bypassed" /\ Stops(s) ->
         /\ throws
         /\ \E built \in 0..(IF s.size > BlockSize THEN BlockSize ELSE s.size), n \in 0..s.params :
              \E left \in TreesLeft(s, built) : Parse(InitParse(built, n), left)
    [] OTHER -> ~throws /\ Parse(InitParse(s.size, s.params), NewTree(s, s.size))

-----------------------------------------------------------------------------

HandleParse ==
  /\ ~executing /\ MayParse
  /\ \E s \in Statements, throws \in BOOLEAN :
       /\ ParseSql(s, throws)
       /\ IF throws \/ Len(m_bindParamNodes') # s.params
          THEN client' = Idle /\ Handled("statement")
          ELSE client' = HasParsed(s) /\ Handled("no")
  /\ failedSince' = FALSE
  /\ UNCHANGED <<m_iMark, executing, planLeft>>

\* Mutant of Mark: the mark is left where it was.
MarkNot == m_iMark

\* mark() at the beginning of handleBind
Mark == m_iCurrent

\* The strings of a Bind are put behind one another; the n-th one ends here.
StringEnd(sizes, n) == FoldLeft(+, m_iCurrent, SubSeq(sizes, 1, n))

\* The strings that fit; allocString throws at the first one that does not.
Fitting(sizes) == {n \in 0..Len(sizes) : StringEnd(sizes, n) <= BlockSize}

\* resolve(): no tree is an empty plan.
NewPlan(newTree) ==
  IF newTree = <<>>
  THEN <<[nodes |-> Unbound, strings |-> <<>>, own |-> TRUE]>>
  ELSE <<[nodes |-> newTree[1].nodes, strings |-> m_bindParamNodes', own |-> TRUE]>>

ResolveThrows == tree # <<>> /\ tree[1].stmt.kind = "refused"

\* readBindParam finds another number of format codes or values than there are
\* parameter nodes.  A client may leave out the format codes.
BindUnmatched ==
  /\ ~executing
  /\ \E s \in Statements : \E codes \in {0, s.params} :
       MayBind(s) /\ {codes, s.params} # {Len(m_bindParamNodes)}
  /\ m_iMark' = Mark
  /\ client' = Idle
  /\ failedSince' = TRUE
  /\ Handled("params")
  /\ UNCHANGED <<m_iCurrent, tree, m_bindParamNodes, m_pPlan, executing, planLeft>>

\* The first n strings are allocated and their nodes set.
SetStrings(sizes, n) ==
  LET end == StringEnd(sizes, n)
  IN  /\ m_iMark' = Mark
      /\ m_iCurrent' = end
      /\ tree' = OverwriteTree(m_iCurrent + 1, end)
      /\ m_bindParamNodes' = [i \in DOMAIN m_bindParamNodes |->
           IF i <= n THEN [lo |-> StringEnd(sizes, i - 1) + 1, hi |-> StringEnd(sizes, i), intact |-> TRUE]
           ELSE Overwrite(m_bindParamNodes[i], m_iCurrent + 1, end)]

\* allocString or resolve() throws: the old plan stays, if there is one, and
\* its parameters may have new values.
BindFails ==
  /\ ~executing
  /\ \E s \in Statements : MayBind(s) /\ Len(m_bindParamNodes) = s.params /\ \E sizes \in [1..s.params -> StringSizes] :
       LET n == Max(Fitting(sizes))
       IN  /\ n < Len(sizes) \/ ResolveThrows
           /\ SetStrings(sizes, n)
           /\ Handled(CASE n = Len(sizes) \/ s.size + FoldLeft(+, 0, sizes) > BlockSize -> "statement"
                        [] failedSince -> "leaked"
                        [] OTHER       -> "space")
           /\ m_pPlan' = [i \in DOMAIN m_pPlan |->
                [OverwritePlan(m_iCurrent + 1, StringEnd(sizes, n))[i] EXCEPT !.own = @ /\ n = 0]]
  /\ client' = Idle
  /\ failedSince' = TRUE
  /\ UNCHANGED <<executing, planLeft>>

HandleBind ==
  /\ ~executing /\ ~ResolveThrows
  /\ \E s \in Statements : MayBind(s) /\ Len(m_bindParamNodes) = s.params /\ \E sizes \in [1..s.params -> StringSizes] :
       /\ Len(sizes) \in Fitting(sizes)
       /\ SetStrings(sizes, Len(sizes))
       /\ client' = [client EXCEPT !.state = "bound"]
  /\ m_pPlan' = NewPlan(tree')
  /\ Handled("no")
  /\ planLeft' = FALSE
  /\ UNCHANGED <<executing, failedSince>>

\* The names of the result lie in the text and the nodes of the plan; a plan may
\* have none.  It is whatever plan there is, and a client may ask at any time.
HandleDescription ==
  /\ ~executing
  /\ refused' = "no"
  /\ described' \in {"nothing"} \cup
       {IF m_pPlan[i].nodes.intact THEN "names" ELSE "overwritten" : i \in DOMAIN m_pPlan}
  /\ UNCHANGED <<m_iCurrent, m_iMark, tree, m_bindParamNodes, m_pPlan, executing, client, failedSince, planLeft>>

\* The names do not fit into the network buffer: the client gets an error
\* instead of them, and the plan stays.
DescriptionFails ==
  /\ ~executing /\ m_pPlan # <<>>
  /\ client' = Idle
  /\ failedSince' = TRUE /\ planLeft' = TRUE
  /\ Handled("description")
  /\ UNCHANGED <<m_iCurrent, m_iMark, tree, m_bindParamNodes, m_pPlan, executing>>

HandleExecution ==
  /\ ~executing /\ MayExecute
  /\ executing' = TRUE
  /\ Handled("no")
  /\ UNCHANGED <<m_iCurrent, m_iMark, tree, m_bindParamNodes, m_pPlan, client, failedSince, planLeft>>

\* handleQuery: parse() or resolve() throws, and the old plan stays, or the new
\* one is executed.
MayQuery == client.state # "bound"

Queryable == {s \in Statements : s.params = 0}

QueryFails ==
  /\ ~executing /\ MayQuery
  /\ \E s \in Queryable, throws \in BOOLEAN :
       /\ throws \/ s.kind = "refused"
       /\ ParseSql(s, throws)
  /\ client' = Idle
  /\ Handled("statement")
  /\ UNCHANGED <<m_iMark, executing, failedSince, planLeft>>

HandleQuery ==
  /\ ~executing /\ MayQuery
  /\ \E s \in Queryable :
       /\ s.kind = "bypassed" \/ (s.kind = "ok" /\ ~Stops(s))
       /\ tree' = IF s.kind = "bypassed" THEN <<>> ELSE NewTree(s, s.size)
       /\ m_iCurrent' = IF s.kind = "bypassed" THEN m_iCurrent ELSE InitParse(s.size, 0).current
       /\ m_bindParamNodes' = IF s.kind = "bypassed" THEN m_bindParamNodes ELSE InitParse(s.size, 0).params
  /\ client' = Idle
  /\ m_pPlan' = NewPlan(tree')
  /\ executing' = TRUE
  /\ Handled("no")
  /\ planLeft' = FALSE
  /\ UNCHANGED <<m_iMark, failedSince>>

\* Mutant of Restored: restore() is not called.
RestoredNot == m_iCurrent

\* restore() in handleExecutionDone
Restored == m_iMark

\* Mutant of PlanDropped: m_pPlan is not set to null.
PlanKept == m_pPlan

\* m_pPlan = nullptr in handleExecutionDone
PlanDropped == <<>>

HandleExecutionDone ==
  /\ executing
  /\ executing' = FALSE
  /\ m_pPlan' = PlanDropped
  /\ m_iCurrent' = Restored
  /\ client' = [client EXCEPT !.state = "idle"]
  /\ planLeft' = FALSE
  /\ Handled("no")
  /\ UNCHANGED <<m_iMark, tree, m_bindParamNodes, failedSince>>

\* An exception during the execution: the plan and the arena stay.
ExecutionFails ==
  /\ executing
  /\ executing' = FALSE
  /\ client' = [client EXCEPT !.state = "idle"]
  /\ failedSince' = TRUE /\ planLeft' = TRUE
  /\ Handled("execution")
  /\ UNCHANGED <<m_iCurrent, m_iMark, tree, m_bindParamNodes, m_pPlan>>

Freed(o) == [o EXCEPT !.intact = FALSE]

\* The client goes, at any time, and the session serves another one: end() frees
\* the arena, which another session may take, start() makes a new one, and the
\* plan stays.
Reconnect ==
  /\ m_iCurrent' = 0 /\ m_iMark' = 0
  /\ tree' = <<>> /\ m_bindParamNodes' = <<>>
  /\ m_pPlan' = [i \in DOMAIN m_pPlan |->
       [m_pPlan[i] EXCEPT !.nodes = Freed(@), !.strings = [j \in DOMAIN @ |-> Freed(@[j])]]]
  /\ planLeft' = (m_pPlan # <<>>)
  /\ executing' = FALSE /\ client' = Idle /\ failedSince' = FALSE
  /\ Handled("no")

Next ==
  HandleParse \/ BindUnmatched \/ BindFails \/ HandleBind \/ HandleDescription \/ DescriptionFails
    \/ HandleExecution \/ HandleQuery \/ QueryFails \/ HandleExecutionDone \/ ExecutionFails \/ Reconnect

Spec == Init /\ [][Next]_vars

-----------------------------------------------------------------------------

\* What is read is still what was written: resolve() reads the tree of the
\* statement parsed last, an execution reads the nodes and parameter strings of
\* the plan, the parameters are those of the plan's own Bind, and Describe reads
\* the names of the plan.  Neither restore() nor a later Parse or Bind has given
\* their cells to something else (ParseNode.h: "string view on
\* ParseResult.m_sSql").  For Describe this holds only as long as m_pPlan is a
\* plan that was bound and is still to be executed: a plan that a failed
\* execution, a failed Describe or the previous client has left is described
\* although its names may be overwritten (SessionInfo.cpp:40).
ArenaIntact ==
  /\ \A i \in DOMAIN tree : tree[i].nodes.intact
  /\ described = "overwritten" => planLeft
  /\ executing \/ MayExecute => \A i \in DOMAIN m_pPlan :
       /\ m_pPlan[i].nodes.intact
       /\ \A j \in DOMAIN m_pPlan[i].strings : m_pPlan[i].strings[j].intact
       /\ m_pPlan[i].own

\* A Bind is not refused for lack of space as long as the statement and its own
\* strings fit: the strings of earlier Binds have been discarded
\* (SessionInfo.cpp: "discard allocated string for bind param").  Those of a
\* Bind or an execution that failed are only discarded by the next Parse.
BindFits == refused # "space"
=============================================================================
