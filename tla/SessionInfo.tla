---------------------------- MODULE SessionInfo ----------------------------
(***************************************************************************)
(* The per-connection state machine of server/SessionInfo.{h,cpp}, run by  *)
(* the worker threads of one asio io_service.                              *)
(*                                                                         *)
(* task[i] is the set of things in progress for SessionInfo i: operations  *)
(* handed to asio that have not completed (IoTask) and handler code that a *)
(* worker thread is executing (RunTask).  The code never says that there   *)
(* is only one of them; that is a property (PgServer!OneTaskPerSession).   *)
(* A handler is cut into several steps exactly where it touches state that *)
(* other threads touch: the block pool, the session table and the          *)
(* m_bTerminate flag read by every next() of a plan.                       *)
(*                                                                         *)
(* A statement is abstracted to the kind of plan it builds:                *)
(*   "empty"    DEALLOCATE, SET, BEGIN, COMMIT: no parse tree, EmptyPlan   *)
(*   "scan"     returns rows, every next() checks for cancellation (GROUP  *)
(*              BY, which reads one row ahead, is not among them)          *)
(*   "sort"     same, and begin() copies the child's rows into pool blocks *)
(*   "explain"  returns rows without checking for cancellation             *)
(*   "dml"      INSERT and DELETE: no columns, end() commits the batch     *)
(* How many rows a plan has, and every failure, is nondeterministic.       *)
(***************************************************************************)
EXTENDS GlobalMemBlockPool, SessionManager

CONSTANTS
  Kinds,         \* the kinds of statement that the clients send
  MsgTypes,      \* the message types that the clients send
  MaxRows,       \* bound: rows returned by one execution
  MaxPlanBlocks, \* SORT_BUFFER_SIZE / BLOCK_SIZE
  Events         \* what the environment does besides sending messages

TreeKind == {"scan", "sort", "explain", "dml"}
MsgType  == {"S", "Q", "P", "B", "D", "E", "X", "?"}
Event    == {"cancel", "hugeRow", "acceptError", "signal"}

ASSUME SessionAssumption ==
  /\ Kinds \subseteq TreeKind
  /\ MsgTypes \subseteq MsgType
  /\ MaxRows \in Nat
  /\ MaxPlanBlocks \in Nat
  /\ Events \subseteq Event

VARIABLES
  task,          \* what is in progress for each session
  m_qtype,       \* type of the message being served, "0" for startup
  m_pResult,     \* block of the ParseResult, NoBlock if there is none
  tree,          \* kind of the parse tree m_pResult->m_pResult, or "none"
  m_pBuffer,     \* network buffer
  m_pPlan,       \* the plan, with its cursor and the blocks it holds
  m_bTerminate,  \* cancellation flag
  m_bParsed,     \* a ParseComplete is owed
  m_bBinded,     \* a BindComplete is owed
  prepared,      \* rows complete in the PgDataWriter and not yet written
  reply,         \* messages written in answer to the current message
  crashed        \* the process died dereferencing null or out of stack

sessionVars == <<task, m_qtype, m_pResult, tree, m_pBuffer, m_pPlan,
                 m_bTerminate, m_bParsed, m_bBinded, prepared, reply, crashed>>

ReadTask  == {"readType", "readLen", "readData"}
WriteTask == {"writeLen", "writeType", "writeBegin", "writeResult", "writeDone"}
IoTask    == {"accept"} \cup ReadTask \cup WriteTask
EndTask   == {"endParse", "endBuffer", "endSlot"}
ExecTask  == {"begin", "sorting", "first", "result", "done"}
RunTask   == {"startBuffer", "dispatch"} \cup ExecTask \cup EndTask
Task      == IoTask \cup RunTask

NewPlan(k) == [kind |-> k, row |-> 0, blocks |-> <<>>]
NoPlan == NewPlan("none")      \* the null ExecutionPlanPtr
Plan   == [kind: TreeKind \cup {"none", "empty"}, row: Nat, blocks: Seq(Block)]
HasColumns(p)    == p.kind \in {"scan", "sort", "explain"}
ChecksCancel(p)  == p.kind \in {"scan", "sort", "dml"}

Msg == {"K", "T", "D", "1", "2", "C", "E", "Z"} \X Nat
Rows(ns) == [k \in 1..Len(ns) |-> <<"D", ns[k]>>]

SessionTypeOK ==
  /\ task \in [Slot -> SUBSET Task]
  /\ m_qtype \in [Slot -> MsgType \cup {"0"}]
  /\ m_pResult \in [Slot -> BlockPtr]
  /\ tree \in [Slot -> TreeKind \cup {"none"}]
  /\ m_pBuffer \in [Slot -> BlockPtr]
  /\ m_pPlan \in [Slot -> Plan]
  /\ m_bTerminate \in [Slot -> BOOLEAN]
  /\ m_bParsed \in [Slot -> BOOLEAN]
  /\ m_bBinded \in [Slot -> BOOLEAN]
  /\ prepared \in [Slot -> Seq(Nat)]
  /\ reply \in [Slot -> Seq(Msg)]
  /\ crashed \in BOOLEAN

SessionInit ==
  /\ task = [i \in Slot |-> {}]
  /\ m_qtype = [i \in Slot |-> "0"]
  /\ m_pResult = [i \in Slot |-> NoBlock]
  /\ tree = [i \in Slot |-> "none"]
  /\ m_pBuffer = [i \in Slot |-> NoBlock]
  /\ m_pPlan = [i \in Slot |-> NoPlan]
  /\ m_bTerminate = [i \in Slot |-> FALSE]
  /\ m_bParsed = [i \in Slot |-> FALSE]
  /\ m_bBinded = [i \in Slot |-> FALSE]
  /\ prepared = [i \in Slot |-> <<>>]
  /\ reply = [i \in Slot |-> <<>>]
  /\ crashed = FALSE

\* Task t of session i is over and task u takes its place.
Goto(i, t, u) == task' = [task EXCEPT ![i] = (@ \ {t}) \cup {u}]

\* The messages ms are handed to doWrite.
Send(i, ms) == reply' = [reply EXCEPT ![i] = @ \o ms]

\* Mutant of Sync: ReadyForQuery after every message.
SyncAlways(i) == <<<<"Z", 0>>>>

\* buildSync is only asked for in answer to a simple query.
Sync(i) == IF m_qtype[i] = "Q" THEN <<<<"Z", 0>>>> ELSE <<>>

(***************************************************************************)
(* An exception leaves a handler.  It is caught where asio called the      *)
(* handler, in readData or in doWrite, which overwrite the network buffer  *)
(* with an ErrorResponse: rows prepared but not yet written are lost.      *)
(***************************************************************************)
Throw(i, t) ==
  /\ Goto(i, t, "writeType")
  /\ Send(i, <<<<"E", 0>>>> \o Sync(i))
  /\ prepared' = [prepared EXCEPT ![i] = <<>>]

\* Null dereference or stack exhaustion: the whole process is gone.
Crash ==
  /\ crashed' = TRUE
  /\ UNCHANGED <<task, m_qtype, m_pResult, tree, m_pBuffer, m_pPlan,
                 m_bTerminate, m_bParsed, m_bBinded, prepared, reply>>
  /\ UNCHANGED poolVars

-----------------------------------------------------------------------------
(* Start and end of a connection.                                          *)

\* Mutant of StartParse: a failed allocation goes unnoticed.
StartParseUnchecked(i) ==
  /\ m_qtype' = [m_qtype EXCEPT ![i] = "0"]
  /\ AllocStep
  /\ m_pResult' = [m_pResult EXCEPT ![i] = AllocResult]
  /\ Goto(i, "accept", "startBuffer")
  /\ UNCHANGED <<tree, m_pBuffer, m_pPlan, m_bTerminate, m_bParsed, m_bBinded,
                 prepared, reply, crashed, m_sessions, m_free>>

\* Accepted: start() up to the construction of the ParseResult, whose
\* constructor throws when the pool gives it no block; the caller then ends.
StartParse(i) ==
  /\ m_qtype' = [m_qtype EXCEPT ![i] = "0"]
  /\ AllocStep
  /\ m_pResult' = [m_pResult EXCEPT ![i] = AllocResult]
  /\ Goto(i, "accept", IF AllocResult = NoBlock THEN "endParse" ELSE "startBuffer")
  /\ UNCHANGED <<tree, m_pBuffer, m_pPlan, m_bTerminate, m_bParsed, m_bBinded,
                 prepared, reply, crashed, m_sessions, m_free>>

\* The rest of start(): the network buffer, used at once by readLen().
StartBuffer(i) ==
  /\ "startBuffer" \in task[i]
  /\ IF AllocResult = NoBlock
     THEN Crash
     ELSE /\ AllocStep
          /\ m_pBuffer' = [m_pBuffer EXCEPT ![i] = AllocResult]
          /\ Goto(i, "startBuffer", "readLen")
          /\ UNCHANGED <<m_qtype, m_pResult, tree, m_pPlan, m_bTerminate,
                         m_bParsed, m_bBinded, prepared, reply, crashed>>
  /\ UNCHANGED mgrVars

\* end(): m_pResult.reset()
EndParse(i) ==
  /\ "endParse" \in task[i]
  /\ IF m_pResult[i] = NoBlock THEN UNCHANGED poolVars ELSE Free(m_pResult[i])
  /\ m_pResult' = [m_pResult EXCEPT ![i] = NoBlock]
  /\ tree' = [tree EXCEPT ![i] = "none"]
  /\ reply' = [reply EXCEPT ![i] = <<>>]     \* the socket is closed
  /\ Goto(i, "endParse", "endBuffer")
  /\ UNCHANGED <<m_qtype, m_pBuffer, m_pPlan, m_bTerminate, m_bParsed,
                 m_bBinded, prepared, crashed, m_sessions, m_free>>

\* Mutant of EndBuffer: the session keeps the pointer it gave back.
EndBufferCopied(i) ==
  /\ "endBuffer" \in task[i]
  /\ Free(m_pBuffer[i])
  /\ Goto(i, "endBuffer", "endSlot")
  /\ UNCHANGED <<m_qtype, m_pResult, tree, m_pBuffer, m_pPlan, m_bTerminate,
                 m_bParsed, m_bBinded, prepared, reply, crashed, m_sessions, m_free>>

\* Mutant of EndBuffer: the pointer is cleared and the block not given back.
EndBufferForgets(i) ==
  /\ "endBuffer" \in task[i]
  /\ m_pBuffer' = [m_pBuffer EXCEPT ![i] = NoBlock]
  /\ Goto(i, "endBuffer", "endSlot")
  /\ UNCHANGED <<m_qtype, m_pResult, tree, m_pPlan, m_bTerminate, m_bParsed,
                 m_bBinded, prepared, reply, crashed, m_sessions, m_free>>
  /\ UNCHANGED poolVars

\* end(): the buffer goes back to the pool, null or not
EndBuffer(i) ==
  /\ "endBuffer" \in task[i]
  /\ Free(m_pBuffer[i])
  /\ m_pBuffer' = [m_pBuffer EXCEPT ![i] = NoBlock]
  /\ Goto(i, "endBuffer", "endSlot")
  /\ UNCHANGED <<m_qtype, m_pResult, tree, m_pPlan, m_bTerminate, m_bParsed,
                 m_bBinded, prepared, reply, crashed, m_sessions, m_free>>

\* end(): freeSession(this); m_pPlan and the flags are left as they are, although
\* the names of the plan are views of the arena that has just been given back
EndSlot(i) ==
  /\ "endSlot" \in task[i]
  /\ FreeSession(i)
  /\ task' = [task EXCEPT ![i] = @ \ {"endSlot"}]
  /\ UNCHANGED <<m_qtype, m_pResult, tree, m_pBuffer, m_pPlan, m_bTerminate,
                 m_bParsed, m_bBinded, prepared, reply, crashed>>
  /\ UNCHANGED poolVars

-----------------------------------------------------------------------------
(* Completion of the asynchronous operations.                              *)

\* What a step that only reads or writes the socket leaves alone.
ioFrame == <<m_pResult, tree, m_pBuffer, m_pPlan, m_bTerminate, m_bParsed,
             m_bBinded, prepared, crashed, freeBlocks, m_iTotalMem,
             m_sessions, m_free>>

\* readMessageType(): 'X' ends the session
ReadType(i, c) ==
  /\ "readType" \in task[i]
  /\ m_qtype' = [m_qtype EXCEPT ![i] = c]
  /\ reply' = [reply EXCEPT ![i] = <<>>]
  /\ Goto(i, "readType", IF c = "X" THEN "endParse" ELSE "readLen")
  /\ UNCHANGED ioFrame

\* readLen(): an impossible length ends the session, an empty body needs no
\* read and is dispatched at once by doRead
ReadLen(i) ==
  /\ "readLen" \in task[i]
  /\ \E t \in {"endParse", "readData", "dispatch"} : Goto(i, "readLen", t)
  /\ UNCHANGED <<m_qtype, reply>>
  /\ UNCHANGED ioFrame

\* readData(): the body is complete; an unknown type ends the session
ReadData(i) ==
  /\ "readData" \in task[i]
  /\ Goto(i, "readData", "dispatch")
  /\ UNCHANGED <<m_qtype, reply>>
  /\ UNCHANGED ioFrame

\* Mutants of IoError: the handler goes on after end(), or does not call it.
IoErrorGoesOn(i, t) ==
  /\ t \in task[i]
  /\ task' = [task EXCEPT ![i] = (@ \ {t}) \cup {"endParse", "readType"}]
  /\ UNCHANGED <<m_qtype, reply>>
  /\ UNCHANGED ioFrame
IoErrorIgnored(i, t) ==
  /\ t \in task[i]
  /\ task' = [task EXCEPT ![i] = @ \ {t}]
  /\ UNCHANGED <<m_qtype, reply>>
  /\ UNCHANGED ioFrame

\* doRead and doWrite: asio reports an error
IoError(i, t) ==
  /\ t \in task[i]
  /\ Goto(i, t, "endParse")
  /\ UNCHANGED <<m_qtype, reply>>
  /\ UNCHANGED ioFrame

AfterWrite == [writeLen |-> "readLen", writeType |-> "readType",
               writeBegin |-> "begin", writeResult |-> "result",
               writeDone |-> "done"]

\* doWrite: the bytes are out, the continuation runs
WriteDone(i, t) ==
  /\ t \in task[i]
  /\ Goto(i, t, AfterWrite[t])
  /\ UNCHANGED <<m_qtype, reply>>
  /\ UNCHANGED ioFrame

-----------------------------------------------------------------------------
(* The message handlers, called with the whole message in the buffer.      *)

Dispatch(i, c) == "dispatch" \in task[i] /\ m_qtype[i] = c

UnknownMessage(i) ==
  /\ Dispatch(i, "?")
  /\ Goto(i, "dispatch", "endParse")
  /\ UNCHANGED <<m_qtype, reply>>
  /\ UNCHANGED ioFrame

\* handleStartup: SSL is refused with one byte, a normal startup answered
\* with the session index and ReadyForQuery, anything else closes
HandleStartup(i) ==
  /\ Dispatch(i, "0")
  /\ \/ /\ Goto(i, "dispatch", "writeLen")
        /\ UNCHANGED reply
     \/ /\ Goto(i, "dispatch", "writeType")
        /\ Send(i, <<<<"K", i>>, <<"Z", 0>>>>)
     \/ /\ Goto(i, "dispatch", "endParse")
        /\ UNCHANGED reply
  /\ UNCHANGED m_qtype
  /\ UNCHANGED ioFrame

\* handleStartup with a cancel request for session j, then closes
HandleCancel(i, j) ==
  /\ "cancel" \in Events
  /\ Dispatch(i, "0")
  /\ j < m_sessions
  /\ m_bTerminate' = [m_bTerminate EXCEPT ![j] = TRUE]
  /\ Goto(i, "dispatch", "endParse")
  /\ UNCHANGED <<m_qtype, m_pResult, tree, m_pBuffer, m_pPlan, m_bParsed,
                 m_bBinded, prepared, reply, crashed, m_sessions, m_free>>
  /\ UNCHANGED poolVars

HandleSync(i) ==
  /\ Dispatch(i, "S")
  /\ Goto(i, "dispatch", "writeType")
  /\ Send(i, <<<<"Z", 0>>>>)
  /\ UNCHANGED m_qtype
  /\ UNCHANGED ioFrame

\* Reading the statement and parse(): the tree they leave and whether they
\* throw.  A malformed message throws with the old tree in place, a syntax
\* error with none, the rewriter with the new one.
ParseOutcome(i) ==
  {[tree |-> k, throws |-> FALSE] : k \in Kinds \cup {"none"}} \cup
  {[tree |-> k, throws |-> TRUE] : k \in Kinds \cup {"none", tree[i]}}

\* Mutant of Resolve: the blocks of the old plan are not given back.
ResolveLeaks(i, k) ==
  /\ m_pPlan' = [m_pPlan EXCEPT ![i] = NewPlan(IF k = "none" THEN "empty" ELSE k)]
  /\ UNCHANGED poolVars

\* Mutant of Resolve: the new plan keeps the blocks that the old one gives back.
ResolveKeeps(i, k) ==
  /\ m_pPlan' = [m_pPlan EXCEPT ![i] = [NewPlan(IF k = "none" THEN "empty" ELSE k)
                                         EXCEPT !.blocks = m_pPlan[i].blocks]]
  /\ FreeAll(m_pPlan[i].blocks)

\* resolve(): the plan built from tree k replaces the old one, whose blocks
\* go back to the pool
Resolve(i, k) ==
  /\ m_pPlan' = [m_pPlan EXCEPT ![i] = NewPlan(IF k = "none" THEN "empty" ELSE k)]
  /\ FreeAll(m_pPlan[i].blocks)

\* resolve() throws before the assignment to m_pPlan; EmptyPlan cannot fail
ResolveThrows(i, k) == k # "none" /\ UNCHANGED m_pPlan /\ UNCHANGED poolVars

HandleQuery(i) ==
  /\ Dispatch(i, "Q")
  /\ \E p \in ParseOutcome(i) :
       /\ tree' = [tree EXCEPT ![i] = p.tree]
       /\ \/ /\ p.throws
             /\ Throw(i, "dispatch")
             /\ UNCHANGED <<m_pPlan, m_bParsed, m_bBinded>> /\ UNCHANGED poolVars
          \/ /\ ~p.throws
             /\ ResolveThrows(i, p.tree)
             /\ Throw(i, "dispatch")
             /\ UNCHANGED <<m_bParsed, m_bBinded>>
          \/ /\ ~p.throws
             /\ Resolve(i, p.tree)
             /\ m_bParsed' = [m_bParsed EXCEPT ![i] = FALSE]
             /\ m_bBinded' = [m_bBinded EXCEPT ![i] = FALSE]
             /\ IF HasColumns(m_pPlan'[i])
                THEN \/ /\ Goto(i, "dispatch", "writeBegin")
                        /\ Send(i, <<<<"T", 0>>>>)
                        /\ UNCHANGED prepared
                     \/ Throw(i, "dispatch")   \* row description too long
                ELSE /\ Goto(i, "dispatch", "begin")
                     /\ UNCHANGED <<reply, prepared>>
  /\ UNCHANGED <<m_qtype, m_pResult, m_pBuffer, m_bTerminate, crashed>>
  /\ UNCHANGED mgrVars

\* handleParse: a wrong parameter count throws after the tree is in place
HandleParse(i) ==
  /\ Dispatch(i, "P")
  /\ \E p \in ParseOutcome(i) :
       /\ tree' = [tree EXCEPT ![i] = p.tree]
       /\ \/ /\ Throw(i, "dispatch")
             /\ UNCHANGED <<m_bParsed, m_bBinded>>
          \/ /\ ~p.throws
             /\ m_bParsed' = [m_bParsed EXCEPT ![i] = TRUE]
             /\ m_bBinded' = [m_bBinded EXCEPT ![i] = FALSE]
             /\ Goto(i, "dispatch", "readType")
             /\ UNCHANGED <<reply, prepared>>
  /\ UNCHANGED <<m_qtype, m_pResult, m_pBuffer, m_pPlan, m_bTerminate, crashed>>
  /\ UNCHANGED <<poolVars, mgrVars>>

\* handleBind: m_bBinded is set before resolve(), which may throw
HandleBind(i) ==
  /\ Dispatch(i, "B")
  /\ \/ /\ Throw(i, "dispatch")               \* bad parameters
        /\ UNCHANGED <<m_bBinded, m_pPlan>> /\ UNCHANGED poolVars
     \/ /\ ResolveThrows(i, tree[i])
        /\ Throw(i, "dispatch")
        /\ m_bBinded' = [m_bBinded EXCEPT ![i] = TRUE]
     \/ /\ Resolve(i, tree[i])
        /\ m_bBinded' = [m_bBinded EXCEPT ![i] = TRUE]
        /\ Goto(i, "dispatch", "readType")
        /\ UNCHANGED <<reply, prepared>>
  /\ UNCHANGED <<m_qtype, m_pResult, tree, m_pBuffer, m_bTerminate, m_bParsed,
                 crashed>>
  /\ UNCHANGED mgrVars

\* handleDescription: silent when there is no plan or it has no columns
HandleDescription(i) ==
  /\ Dispatch(i, "D")
  /\ \/ /\ HasColumns(m_pPlan[i])
        /\ Goto(i, "dispatch", "writeType")
        /\ Send(i, <<<<"T", 0>>>>)
        /\ UNCHANGED prepared
     \/ /\ ~HasColumns(m_pPlan[i])
        /\ Goto(i, "dispatch", "readType")
        /\ UNCHANGED <<reply, prepared>>
     \/ Throw(i, "dispatch")
  /\ UNCHANGED <<m_qtype, m_pResult, tree, m_pBuffer, m_pPlan, m_bTerminate,
                 m_bParsed, m_bBinded, crashed>>
  /\ UNCHANGED <<poolVars, mgrVars>>

HandleExecution(i) ==
  /\ Dispatch(i, "E")
  /\ Goto(i, "dispatch", "begin")
  /\ UNCHANGED <<m_qtype, reply>>
  /\ UNCHANGED ioFrame

-----------------------------------------------------------------------------
(* Execution of the plan.                                                  *)

execFrame == <<m_qtype, m_pResult, tree, m_pBuffer, m_bTerminate, m_bParsed,
               m_bBinded, m_sessions, m_free>>

\* handleExecutionBegin: m_pPlan->begin() on whatever m_pPlan points to.
\* SortPlan::begin replaces its ExecutionBuffer and goes on to fill it.
HandleExecutionBegin(i) ==
  /\ "begin" \in task[i]
  /\ IF m_pPlan[i].kind = "none"
     THEN Crash
     ELSE /\ m_pPlan' = [m_pPlan EXCEPT ![i] = NewPlan(m_pPlan[i].kind)]
          /\ FreeAll(m_pPlan[i].blocks)
          /\ \/ /\ Goto(i, "begin", IF m_pPlan[i].kind = "sort" THEN "sorting" ELSE "first")
                /\ UNCHANGED <<reply, prepared>>
             \/ /\ m_pPlan[i].kind # "empty"
                /\ Throw(i, "begin")
          /\ UNCHANGED <<m_qtype, m_pResult, tree, m_pBuffer, m_bTerminate,
                         m_bParsed, m_bBinded, crashed>>
  /\ UNCHANGED mgrVars

\* SortPlan::begin, one row of the child: ExecutionBuffer::doAlloc needs a
\* further block, or the child fails, or it has no more rows.
Sorting(i) ==
  /\ "sorting" \in task[i]
  /\ \/ /\ ~m_bTerminate[i]
        /\ Len(m_pPlan[i].blocks) < MaxPlanBlocks
        /\ AllocStep
        /\ IF AllocResult = NoBlock
           THEN /\ Throw(i, "sorting")
                /\ UNCHANGED m_pPlan
           ELSE /\ m_pPlan' = [m_pPlan EXCEPT ![i].blocks = Append(@, AllocResult)]
                /\ UNCHANGED <<task, reply, prepared>>
     \/ /\ Throw(i, "sorting")
        /\ UNCHANGED m_pPlan /\ UNCHANGED poolVars
     \/ /\ Goto(i, "sorting", "first")
        /\ UNCHANGED <<m_pPlan, reply, prepared>> /\ UNCHANGED poolVars
  /\ UNCHANGED crashed
  /\ UNCHANGED execFrame

\* Mutant of NextOutcome: no next() looks at the flag.
NextOutcomeUnchecked(i) ==
  LET p == m_pPlan[i]
  IN  (IF p.kind # "empty" /\ p.row < MaxRows THEN {"row"} ELSE {})
      \cup {"end"} \cup (IF p.kind # "empty" THEN {"throw"} ELSE {})

\* m_pPlan->next(m_bTerminate): what it may return.  A scan notices that it
\* is at the end of the table before it looks at the flag, a sort after.
NextOutcome(i) ==
  LET p == m_pPlan[i]
      cancelled == ChecksCancel(p) /\ m_bTerminate[i]
  IN  (IF p.kind # "empty" /\ ~cancelled /\ p.row < MaxRows THEN {"row"} ELSE {})
      \cup (IF p.kind = "sort" /\ cancelled THEN {} ELSE {"end"})
      \cup (IF p.kind # "empty" THEN {"throw"} ELSE {})

\* The first next(), still in handleExecutionBegin
FirstNext(i) ==
  /\ "first" \in task[i]
  /\ \E o \in NextOutcome(i) :
       \/ /\ o = "row"
          /\ m_pPlan' = [m_pPlan EXCEPT ![i].row = @ + 1]
          /\ Goto(i, "first", "result")
          /\ UNCHANGED <<reply, prepared>>
       \/ /\ o = "end"
          /\ Goto(i, "first", "done")
          /\ UNCHANGED <<m_pPlan, reply, prepared>>
       \/ /\ o = "throw"
          /\ Throw(i, "first")
          /\ UNCHANGED m_pPlan
  /\ UNCHANGED crashed
  /\ UNCHANGED execFrame /\ UNCHANGED poolVars

\* The rows prepared so far, ending with the current one if it is encoded
Encoded(i) == IF HasColumns(m_pPlan[i])
              THEN Append(prepared[i], m_pPlan[i].row) ELSE prepared[i]

\* handleExecutionResult, the current row does not fit: what is prepared is
\* written and the row is built again afterwards.  If nothing is prepared,
\* doWrite(0) calls handleExecutionResult again, without end.
BufferFull(i) ==
  /\ "result" \in task[i]
  /\ HasColumns(m_pPlan[i])
  /\ IF prepared[i] = <<>>
     THEN "hugeRow" \in Events /\ Crash
     ELSE /\ Send(i, Rows(prepared[i]))
          /\ prepared' = [prepared EXCEPT ![i] = <<>>]
          /\ Goto(i, "result", "writeResult")
          /\ UNCHANGED <<m_qtype, m_pResult, tree, m_pBuffer, m_pPlan,
                         m_bTerminate, m_bParsed, m_bBinded, crashed>>
          /\ UNCHANGED poolVars
  /\ UNCHANGED mgrVars

\* Mutant of HandleExecutionResult: the plan is destroyed with the last row
\* and not in the continuation of the write.
ResultResetsPlan(i) ==
  /\ "result" \in task[i]
  /\ "end" \in NextOutcome(i)
  /\ Goto(i, "result", IF Encoded(i) = <<>> THEN "done" ELSE "writeDone")
  /\ Send(i, Rows(Encoded(i)))
  /\ prepared' = [prepared EXCEPT ![i] = <<>>]
  /\ m_pPlan' = [m_pPlan EXCEPT ![i] = NoPlan]
  /\ FreeAll(m_pPlan[i].blocks)
  /\ UNCHANGED crashed
  /\ UNCHANGED execFrame

\* handleExecutionResult, the current row is encoded and next() called
HandleExecutionResult(i) ==
  /\ "result" \in task[i]
  /\ \E o \in NextOutcome(i) :
       \/ /\ o = "row"
          /\ m_pPlan' = [m_pPlan EXCEPT ![i].row = @ + 1]
          /\ prepared' = [prepared EXCEPT ![i] = Encoded(i)]
          /\ UNCHANGED <<task, reply>>
       \/ /\ o = "end"
          /\ Goto(i, "result", IF Encoded(i) = <<>> THEN "done" ELSE "writeDone")
          /\ Send(i, Rows(Encoded(i)))
          /\ prepared' = [prepared EXCEPT ![i] = <<>>]
          /\ UNCHANGED m_pPlan
       \/ /\ o = "throw"                \* from next() or from buildData()
          /\ Throw(i, "result")
          /\ UNCHANGED m_pPlan
  /\ UNCHANGED crashed
  /\ UNCHANGED execFrame /\ UNCHANGED poolVars

\* handleExecutionDone: m_pPlan->end() may fail to commit; otherwise the plan
\* is destroyed and the owed messages are written
HandleExecutionDone(i) ==
  /\ "done" \in task[i]
  /\ \/ /\ m_pPlan[i].kind = "dml"
        /\ Throw(i, "done")
        /\ UNCHANGED <<m_pPlan, m_bParsed, m_bBinded>> /\ UNCHANGED poolVars
     \/ /\ FreeAll(m_pPlan[i].blocks)
        /\ m_pPlan' = [m_pPlan EXCEPT ![i] = NoPlan]
        /\ Send(i, (IF m_bParsed[i] THEN <<<<"1", 0>>>> ELSE <<>>) \o
                   (IF m_bBinded[i] THEN <<<<"2", 0>>>> ELSE <<>>) \o
                   <<<<"C", 0>>>> \o Sync(i))
        /\ m_bParsed' = [m_bParsed EXCEPT ![i] = FALSE]
        /\ m_bBinded' = [m_bBinded EXCEPT ![i] = FALSE]
        /\ Goto(i, "done", "writeType")
        /\ UNCHANGED prepared
  /\ UNCHANGED <<m_qtype, m_pResult, tree, m_pBuffer, m_bTerminate, crashed>>
  /\ UNCHANGED mgrVars
=============================================================================
