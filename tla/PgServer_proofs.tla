-------------------------- MODULE PgServer_proofs --------------------------
(***************************************************************************)
(* Proofs about PgServer, for any number of sessions, blocks, rows and     *)
(* statements: what runs for a session and on which list it is, the        *)
(* connections it implements, the memory of the sessions (no handler runs  *)
(* without its arena and its network buffer, none loses its plan), and     *)
(* what the clients are sent (every message is answered completely, and a  *)
(* cancelled session sends no row again).                                  *)
(***************************************************************************)
EXTENDS PgServer, TLAPS, SequenceTheorems

\* The assumptions on the constants.
LEMMA Constants ==
  /\ MaxBlocks \in Nat
  /\ MaxSessions \in Nat \ {0}
  /\ Kinds \subseteq TreeKind
  /\ MsgTypes \subseteq MsgType
  /\ MaxRows \in Nat
BY MaxBlocksAssumption, MaxSessionsAssumption, SessionAssumption

-----------------------------------------------------------------------------
(* What a step of a session does to task.                                  *)

\* One task of session i gives way to another one, and none of them waits for
\* a connection.
Moves(i) ==
  \E t, u \in Task \ {"accept"} : t \in task[i] /\ Goto(i, t, u)

\* Every completion of an asynchronous operation replaces that operation.
LEMMA IoStepMoves ==
  ASSUME NEW i \in Slot, IoStep(i)
  PROVE  Moves(i) /\ UNCHANGED <<m_sessions, m_free, acceptor>>
<1> USE DEF Moves, ioFrame, Task, RunTask, IoTask, ReadTask, WriteTask, EndTask, ExecTask
<1>1. UNCHANGED <<m_sessions, m_free, acceptor>>
  BY DEF IoStep, ReadType, ReadLen, ReadData, IoError, WriteDone, netVars
<1>2. ASSUME NEW c \in MsgTypes, ReadType(i, c) PROVE Moves(i)
  BY <1>2 DEF ReadType
<1>3. CASE ReadLen(i)
  BY <1>1, <1>3 DEF ReadLen
<1>4. CASE ReadData(i)
  BY <1>1, <1>4 DEF ReadData
<1>5. ASSUME NEW t \in ReadTask \cup WriteTask, IoError(i, t) PROVE Moves(i)
  BY <1>5 DEF IoError
<1>6. ASSUME NEW t \in WriteTask, WriteDone(i, t) PROVE Moves(i)
  BY <1>6 DEF WriteDone, AfterWrite
<1>7. QED
  BY <1>1, <1>2, <1>3, <1>4, <1>5, <1>6 DEF IoStep

\* Every step of a handler replaces the handler or leaves it running; a crash
\* leaves everything as it is.
LEMMA HandlerStepMoves ==
  ASSUME NEW i \in Slot, HandlerStep(i)
  PROVE  (Moves(i) \/ UNCHANGED task) /\ UNCHANGED <<m_sessions, m_free, acceptor>>
<1> DEFINE Goal == (Moves(i) \/ UNCHANGED task) /\ UNCHANGED <<m_sessions, m_free>>
<1>0. UNCHANGED acceptor
  BY DEF HandlerStep, netVars
<1>1. ASSUME NEW t \in Task \ {"accept"}, NEW u \in Task \ {"accept"},
             t \in task[i], Goto(i, t, u)
      PROVE  Moves(i)
  BY <1>1 DEF Moves
<1>2. /\ {"writeType", "writeLen", "writeBegin", "writeResult", "writeDone",
          "readType", "dispatch"} \subseteq Task \ {"accept"}
      /\ ExecTask \cup EndTask \subseteq Task \ {"accept"}
  BY DEF Task, IoTask, ReadTask, WriteTask, RunTask, EndTask, ExecTask
<1> HIDE DEF Goal
<1>3. ASSUME EndParse(i) PROVE Goal
  BY <1>1, <1>2, <1>3 DEF Goal, ExecTask, EndTask, EndParse
<1>4. ASSUME EndBuffer(i) PROVE Goal
  BY <1>1, <1>2, <1>4 DEF Goal, ExecTask, EndTask, EndBuffer
<1>5. ASSUME UnknownMessage(i) PROVE Goal
  BY <1>1, <1>2, <1>5 DEF Goal, ExecTask, EndTask, UnknownMessage, Dispatch, ioFrame
<1>6. ASSUME HandleStartup(i) PROVE Goal
  BY <1>1, <1>2, <1>6 DEF Goal, ExecTask, EndTask, HandleStartup, Dispatch, ioFrame
<1>7. ASSUME HandleSync(i) PROVE Goal
  BY <1>1, <1>2, <1>7 DEF Goal, ExecTask, EndTask, HandleSync, Dispatch, ioFrame
<1>8. ASSUME HandleQuery(i) PROVE Goal
  BY <1>1, <1>2, <1>8 DEF Goal, ExecTask, EndTask, HandleQuery, Dispatch, Throw, mgrVars
<1>9. ASSUME HandleParse(i) PROVE Goal
  BY <1>1, <1>2, <1>9 DEF Goal, ExecTask, EndTask, HandleParse, Dispatch, Throw, mgrVars
<1>10. ASSUME HandleBind(i) PROVE Goal
  BY <1>1, <1>2, <1>10 DEF Goal, ExecTask, EndTask, HandleBind, Dispatch, Throw, mgrVars
<1>11. ASSUME HandleDescription(i) PROVE Goal
  BY <1>1, <1>2, <1>11 DEF Goal, ExecTask, EndTask, HandleDescription, Dispatch, Throw, mgrVars
<1>12. ASSUME HandleExecution(i) PROVE Goal
  BY <1>1, <1>2, <1>12 DEF Goal, ExecTask, EndTask, HandleExecution, Dispatch, ioFrame
<1>13. ASSUME HandleExecutionBegin(i) PROVE Goal
  BY <1>1, <1>2, <1>13 DEF Goal, ExecTask, EndTask, HandleExecutionBegin, Crash, Throw, mgrVars
<1>14. ASSUME Sorting(i) PROVE Goal
  BY <1>1, <1>2, <1>14 DEF Goal, ExecTask, EndTask, Sorting, Throw, execFrame
<1>15. ASSUME FirstNext(i) PROVE Goal
  BY <1>1, <1>2, <1>15 DEF Goal, ExecTask, EndTask, FirstNext, Throw, execFrame
<1>16. ASSUME BufferFull(i) PROVE Goal
  BY <1>1, <1>2, <1>16 DEF Goal, ExecTask, EndTask, BufferFull, Crash, mgrVars
<1>17. ASSUME HandleExecutionResult(i) PROVE Goal
  BY <1>1, <1>2, <1>17 DEF Goal, ExecTask, EndTask, HandleExecutionResult, Throw, execFrame
<1>18. ASSUME HandleExecutionDone(i) PROVE Goal
  BY <1>1, <1>2, <1>18 DEF Goal, ExecTask, EndTask, HandleExecutionDone, Throw, mgrVars
<1>19. ASSUME NEW j \in Slot, HandleCancel(i, j) PROVE Goal
  BY <1>1, <1>2, <1>19 DEF Goal, ExecTask, EndTask, HandleCancel, Dispatch
<1>20. Goal
  BY <1>3, <1>4, <1>5, <1>6, <1>7, <1>8, <1>9, <1>10, <1>11, <1>12, <1>13, <1>14, <1>15, <1>16, <1>17, <1>18, <1>19 DEF HandlerStep
<1> QED
  BY <1>0, <1>20 DEF Goal

-----------------------------------------------------------------------------
(* Type correctness.                                                       *)

\* What the handlers write are messages.
LEMMA MsgTypes2 ==
  /\ <<"E", 0>> \in Msg
  /\ <<"Z", 0>> \in Msg
  /\ <<"T", 0>> \in Msg
  /\ <<"1", 0>> \in Msg
  /\ <<"2", 0>> \in Msg
  /\ \A n \in Nat : <<"K", n>> \in Msg /\ <<"C", n>> \in Msg /\ <<"D", n>> \in Msg
BY DEF Msg

\* What is sent stays a sequence of messages.
LEMMA SendType ==
  ASSUME NEW i \in Slot, NEW ms \in Seq(Msg), Send(i, ms),
         reply \in [Slot -> Seq(Msg)]
  PROVE  reply' \in [Slot -> Seq(Msg)]
<1>1. reply[i] \o ms \in Seq(Msg)
  BY ConcatProperties
<1>2. QED
  BY <1>1 DEF Send

\* The answer to Sync is a sequence of messages (handleSync).
LEMMA SyncType ==
  ASSUME NEW i \in Slot
  PROVE  Sync(i) \in Seq(Msg)
BY MsgTypes2 DEF Sync

\* Prepared rows become a sequence of DataRow messages (buildData).
LEMMA RowsType ==
  ASSUME NEW ns \in Seq(Nat)
  PROVE  Rows(ns) \in Seq(Msg)
<1>1. \A k \in 1..Len(ns) : ns[k] \in Nat
  OBVIOUS
<1>2. \A k \in 1..Len(ns) : <<"D", ns[k]>> \in Msg
  BY <1>1, MsgTypes2
<1>3. Rows(ns) \in [1..Len(ns) -> Msg]
  BY <1>2, Zenon DEF Rows
<1>4. Len(ns) \in Nat
  OBVIOUS
<1>5. QED
  BY <1>3, <1>4, SeqDef

\* Moving a session from one task to the next keeps the type of task.
LEMMA GotoType ==
  ASSUME NEW i \in Slot, NEW t, NEW u \in Task, Goto(i, t, u),
         task \in [Slot -> SUBSET Task]
  PROVE  task' \in [Slot -> SUBSET Task]
BY DEF Goto

\* The catch block of doRead writes a well-formed error answer.
LEMMA ThrowType ==
  ASSUME NEW i \in Slot, NEW t, Throw(i, t), SessionTypeOK
  PROVE  /\ task' \in [Slot -> SUBSET Task]
         /\ reply' \in [Slot -> Seq(Msg)]
         /\ prepared' \in [Slot -> Seq(Nat)]
<1>1. "writeType" \in Task
  BY DEF Task, IoTask, WriteTask
<1>2. task' \in [Slot -> SUBSET Task]
  BY <1>1, GotoType DEF Throw, SessionTypeOK
<1>3. <<<<"E", 0>>>> \o Sync(i) \in Seq(Msg)
  BY SyncType, MsgTypes2, ConcatProperties
<1>4. reply' \in [Slot -> Seq(Msg)]
  BY <1>3, SendType DEF Throw, SessionTypeOK
<1>5. prepared' \in [Slot -> Seq(Nat)]
  BY DEF Throw, SessionTypeOK
<1>6. QED
  BY <1>2, <1>4, <1>5

\* alloc() returns a block or null and keeps the pool well-formed.
LEMMA AllocType ==
  ASSUME PoolTypeOK, AllocStep
  PROVE  PoolTypeOK' /\ AllocResult \in BlockPtr
BY Constants DEF PoolTypeOK, AllocStep, AllocResult, BlockPtr, Block, NoBlock

\* free() keeps the pool well-formed, for a null block too.
LEMMA FreeType ==
  ASSUME PoolTypeOK, NEW b \in BlockPtr, Free(b)
  PROVE  PoolTypeOK'
BY AppendProperties DEF PoolTypeOK, Free

\* Freeing the blocks of a sort buffer keeps the pool well-formed.
LEMMA FreeAllType ==
  ASSUME PoolTypeOK, NEW bs \in Seq(Block), FreeAll(bs)
  PROVE  PoolTypeOK'
<1>1. bs \in Seq(BlockPtr)
  BY DEF BlockPtr
<1>2. QED
  BY <1>1, ConcatProperties DEF PoolTypeOK, FreeAll

\* The new plan of a step that sets its cursor and its blocks.
LEMMA PlanType ==
  ASSUME NEW i \in Slot, SessionTypeOK
  PROVE  /\ m_pPlan[i] \in Plan
         /\ m_pPlan[i].blocks \in Seq(Block)
         /\ m_pPlan[i].row \in Nat
         /\ [m_pPlan EXCEPT ![i] = NewPlan(m_pPlan[i].kind)] \in [Slot -> Plan]
         /\ [m_pPlan EXCEPT ![i].row = @ + 1] \in [Slot -> Plan]
         /\ \A b \in Block : [m_pPlan EXCEPT ![i].blocks = Append(@, b)] \in [Slot -> Plan]
         /\ [m_pPlan EXCEPT ![i] = NoPlan] \in [Slot -> Plan]
<1>1. m_pPlan \in [Slot -> Plan] /\ m_pPlan[i] \in Plan
  BY DEF SessionTypeOK
<1>2. m_pPlan[i].blocks \in Seq(Block) /\ m_pPlan[i].row \in Nat
  BY <1>1 DEF Plan
<1>3. NewPlan(m_pPlan[i].kind) \in Plan
  BY <1>1 DEF Plan, NewPlan
<1>4. [m_pPlan[i] EXCEPT !.row = @ + 1] \in Plan
  BY <1>1, <1>2 DEF Plan
<1>5. ASSUME NEW b \in Block
      PROVE  [m_pPlan[i] EXCEPT !.blocks = Append(@, b)] \in Plan
  <2>1. Append(m_pPlan[i].blocks, b) \in Seq(Block)
    BY <1>2, AppendProperties
  <2>2. QED
    BY <1>1, <2>1 DEF Plan
<1>6. [m_pPlan EXCEPT ![i] = NewPlan(m_pPlan[i].kind)] \in [Slot -> Plan]
  BY <1>1, <1>3
<1>7. [m_pPlan EXCEPT ![i].row = @ + 1] \in [Slot -> Plan]
  BY <1>1, <1>4
<1>8. \A b \in Block : [m_pPlan EXCEPT ![i].blocks = Append(@, b)] \in [Slot -> Plan]
  BY <1>1, <1>5
<1>9. [m_pPlan EXCEPT ![i] = NoPlan] \in [Slot -> Plan]
  BY <1>1 DEF NoPlan, NewPlan, Plan
<1>10. QED
  BY <1>1, <1>2, <1>6, <1>7, <1>8, <1>9

\* The names of the tasks that the actions mention are tasks.
LEMMA TaskNames ==
  {"readType", "readLen", "readData", "writeLen", "writeType", "writeBegin",
   "writeResult", "writeDone", "endParse", "endBuffer", "endSlot", "begin",
   "sorting", "first", "result", "done", "startBuffer", "dispatch", "accept"}
    \subseteq Task
BY DEF Task, IoTask, RunTask, ReadTask, WriteTask, EndTask, ExecTask

\* The messages that the handlers send.
LEMMA ReplyType ==
  ASSUME NEW i \in Slot, SessionTypeOK
  PROVE  /\ <<<<"K", i>>, <<"Z", 0>>>> \in Seq(Msg)
         /\ <<<<"Z", 0>>>> \in Seq(Msg)
         /\ <<<<"T", 0>>>> \in Seq(Msg)
         /\ (IF m_bParsed[i] THEN <<<<"1", 0>>>> ELSE <<>>) \o
            (IF m_bBinded[i] THEN <<<<"2", 0>>>> ELSE <<>>) \o
            <<<<"C", 0>>>> \o Sync(i) \in Seq(Msg)
<1>a. i \in Nat
  BY Constants DEF Slot
<1>b. m_pPlan[i].row \in Nat
  BY PlanType
<1>c. /\ <<"K", i>> \in Msg
      /\ <<"C", 0>> \in Msg
  BY <1>a, <1>b, MsgTypes2
<1>d. ASSUME NEW x \in Msg, NEW y \in Msg
      PROVE  <<x>> \in Seq(Msg) /\ <<x, y>> \in Seq(Msg)
  OBVIOUS
<1>2. /\ <<<<"K", i>>, <<"Z", 0>>>> \in Seq(Msg)
      /\ <<<<"Z", 0>>>> \in Seq(Msg)
      /\ <<<<"T", 0>>>> \in Seq(Msg)
      /\ <<<<"1", 0>>>> \in Seq(Msg)
      /\ <<<<"2", 0>>>> \in Seq(Msg)
      /\ <<<<"C", 0>>>> \in Seq(Msg)
  BY <1>c, <1>d, MsgTypes2
<1> DEFINE a == IF m_bParsed[i] THEN <<<<"1", 0>>>> ELSE <<>>
           b == IF m_bBinded[i] THEN <<<<"2", 0>>>> ELSE <<>>
           c == <<<<"C", 0>>>>
<1>e. <<>> \in Seq(Msg)
  OBVIOUS
<1>3. a \in Seq(Msg) /\ b \in Seq(Msg) /\ c \in Seq(Msg)
  BY <1>2, <1>e, Zenon
<1> HIDE DEF a, b, c
<1>4. a \o b \in Seq(Msg)
  BY <1>3, ConcatProperties
<1>5. a \o b \o c \in Seq(Msg)
  BY <1>3, <1>4, ConcatProperties
<1>6. a \o b \o c \o Sync(i) \in Seq(Msg)
  BY <1>5, SyncType, ConcatProperties
<1>7. QED
  BY <1>2, <1>6 DEF a, b, c

\* The rows in the writer stay a sequence of row numbers.
LEMMA EncodedType ==
  ASSUME NEW i \in Slot, SessionTypeOK
  PROVE  prepared[i] \in Seq(Nat) /\ Encoded(i) \in Seq(Nat)
<1>1. prepared[i] \in Seq(Nat) /\ m_pPlan[i].row \in Nat
  BY PlanType DEF SessionTypeOK
<1>2. QED
  BY <1>1, AppendProperties DEF Encoded

\* The death of the process leaves every variable with its type.
LEMMA CrashType ==
  ASSUME SessionTypeOK, PoolTypeOK, Crash
  PROVE  SessionTypeOK' /\ PoolTypeOK'
BY DEF SessionTypeOK, PoolTypeOK, Crash, poolVars

\* Completions of asynchronous operations preserve the types.
LEMMA IoStepType ==
  ASSUME TypeOK, NEW i \in Slot, IoStep(i)
  PROVE  TypeOK'
<1>1. /\ UNCHANGED <<m_pResult, tree, m_pBuffer, m_pPlan, m_bTerminate, m_bParsed,
                     m_bBinded, prepared, crashed, server, acceptor>>
      /\ UNCHANGED <<freeBlocks, m_iTotalMem, m_sessions, m_free>>
  BY DEF IoStep, ReadType, ReadLen, ReadData, IoError, WriteDone, ioFrame, netVars
<1>2. task' \in [Slot -> SUBSET Task]
  BY IoStepMoves, GotoType DEF Moves, TypeOK, SessionTypeOK
<1>3. \/ UNCHANGED <<m_qtype, reply>>
      \/ \E c \in MsgType : /\ m_qtype' = [m_qtype EXCEPT ![i] = c]
                            /\ reply' = [reply EXCEPT ![i] = <<>>]
  BY Constants DEF IoStep, ReadType, ReadLen, ReadData, IoError, WriteDone
<1>4. m_qtype' \in [Slot -> MsgType \cup {"0"}]
  BY <1>3 DEF TypeOK, SessionTypeOK
<1>a. <<>> \in Seq(Msg)
  OBVIOUS
<1>5. reply' \in [Slot -> Seq(Msg)]
  BY <1>3, <1>a, Zenon DEF TypeOK, SessionTypeOK
<1>6. QED
  BY <1>1, <1>2, <1>4, <1>5 DEF TypeOK, SessionTypeOK, PoolTypeOK, MgrTypeOK

\* Handlers preserve the types.
LEMMA HandlerStepType ==
  ASSUME TypeOK, NEW i \in Slot, HandlerStep(i)
  PROVE  TypeOK'
<1>a. SessionTypeOK /\ PoolTypeOK
  BY DEF TypeOK
<1>b. m_pPlan[i].blocks \in Seq(Block) /\ m_pResult[i] \in BlockPtr /\ m_pBuffer[i] \in BlockPtr
  BY <1>a, PlanType DEF SessionTypeOK
<1>c. NoBlock \in BlockPtr /\ Slot # {}
  BY Constants DEF BlockPtr, Slot
<1>d. task' \in [Slot -> SUBSET Task]
  <2>1. CASE UNCHANGED task
    BY <1>a, <2>1 DEF SessionTypeOK
  <2>2. CASE Moves(i)
    BY <1>a, <2>2, GotoType DEF Moves, SessionTypeOK
  <2>3. QED
    BY <2>1, <2>2, HandlerStepMoves
<1>e. UNCHANGED <<m_sessions, m_free, server, acceptor>>
  BY HandlerStepMoves DEF HandlerStep, netVars
<1>f. <<>> \in Seq(Nat) /\ <<>> \in Seq(Msg)
  OBVIOUS
<1> DEFINE Out == reply' \in [Slot -> Seq(Msg)] /\ prepared' \in [Slot -> Seq(Nat)]
           Mem == /\ m_pResult' \in [Slot -> BlockPtr]
                  /\ m_pBuffer' \in [Slot -> BlockPtr]
                  /\ m_pPlan' \in [Slot -> Plan]
                  /\ PoolTypeOK'
           Flags == /\ m_qtype' \in [Slot -> MsgType \cup {"0"}]
                    /\ tree' \in [Slot -> TreeKind \cup {"none"}]
                    /\ m_bTerminate' \in [Slot -> BOOLEAN]
                    /\ m_bParsed' \in [Slot -> BOOLEAN]
                    /\ m_bBinded' \in [Slot -> BOOLEAN]
                    /\ crashed' \in BOOLEAN
<1>1. SUFFICES Out /\ Mem /\ Flags
  BY <1>d, <1>e DEF TypeOK, SessionTypeOK, MgrTypeOK
<1>2. CASE EndParse(i)
  <2>1. Out
    BY <1>a, <1>2, <1>f, Zenon DEF EndParse, SessionTypeOK
  <2>2. PoolTypeOK'
    BY <1>a, <1>b, <1>2, FreeType DEF EndParse, PoolTypeOK, poolVars
  <2>3. QED
    BY <1>a, <1>c, <1>2, <2>1, <2>2 DEF EndParse, SessionTypeOK
<1>3. CASE EndBuffer(i)
  <2>1. PoolTypeOK'
    BY <1>a, <1>b, <1>3, FreeType DEF EndBuffer
  <2>2. QED
    BY <1>a, <1>c, <1>3, <2>1 DEF EndBuffer, SessionTypeOK
<1>4. CASE UnknownMessage(i) \/ HandleExecution(i)
  BY <1>a, <1>4 DEF UnknownMessage, HandleExecution, ioFrame, SessionTypeOK, PoolTypeOK
<1>5. CASE HandleStartup(i) \/ HandleSync(i)
  <2>1. reply' \in [Slot -> Seq(Msg)]
    BY <1>a, <1>5, SendType, ReplyType DEF HandleStartup, HandleSync, SessionTypeOK
  <2>2. QED
    BY <1>a, <1>5, <2>1 DEF HandleStartup, HandleSync, ioFrame, SessionTypeOK, PoolTypeOK
<1>6. ASSUME NEW j \in Slot, HandleCancel(i, j) PROVE Out /\ Mem /\ Flags
  BY <1>a, <1>6 DEF HandleCancel, SessionTypeOK, PoolTypeOK, poolVars
<1>7. CASE HandleParse(i) \/ HandleDescription(i)
  <2>1. Out
    BY <1>a, <1>7, SendType, ReplyType, ThrowType
    DEF HandleParse, HandleDescription, SessionTypeOK
  <2>a. \A pp \in ParseOutcome(i) : pp.tree \in TreeKind \cup {"none"}
    BY <1>a, Constants DEF ParseOutcome, SessionTypeOK
  <2>b. UNCHANGED tree \/ \E pp \in ParseOutcome(i) : tree' = [tree EXCEPT ![i] = pp.tree]
    BY <1>7, Zenon DEF HandleParse, HandleDescription
  <2>2. tree' \in [Slot -> TreeKind \cup {"none"}]
    BY <1>a, <2>a, <2>b DEF SessionTypeOK
  <2>3. QED
    BY <1>a, <1>7, <2>1, <2>2 DEF HandleParse, HandleDescription, SessionTypeOK, PoolTypeOK, poolVars
<1>8. ASSUME NEW k \in TreeKind \cup {"none"}, Resolve(i, k)
      PROVE  m_pPlan' \in [Slot -> Plan] /\ PoolTypeOK'
  <2>1. NewPlan(IF k = "none" THEN "empty" ELSE k) \in Plan
    BY DEF NewPlan, Plan
  <2>2. m_pPlan' \in [Slot -> Plan]
    BY <1>a, <1>8, <2>1 DEF Resolve, SessionTypeOK
  <2>3. QED
    BY <1>a, <1>b, <1>8, <2>2, FreeAllType DEF Resolve
<1>9. CASE HandleBind(i)
  <2>1. Out
    BY <1>a, <1>9, ThrowType DEF HandleBind, SessionTypeOK
  <2>2. m_pPlan' \in [Slot -> Plan] /\ PoolTypeOK'
    BY <1>a, <1>8, <1>9 DEF HandleBind, ResolveThrows, SessionTypeOK, PoolTypeOK, poolVars
  <2>3. QED
    BY <1>a, <1>9, <2>1, <2>2 DEF HandleBind, SessionTypeOK
<1>10. CASE HandleQuery(i)
  <2>1. PICK pp \in ParseOutcome(i) :
          /\ tree' = [tree EXCEPT ![i] = pp.tree]
          /\ \/ UNCHANGED <<m_pPlan, m_bParsed, m_bBinded>> /\ UNCHANGED poolVars
             \/ ResolveThrows(i, pp.tree) /\ UNCHANGED <<m_bParsed, m_bBinded>>
             \/ /\ Resolve(i, pp.tree)
                /\ m_bParsed' = [m_bParsed EXCEPT ![i] = FALSE]
                /\ m_bBinded' = [m_bBinded EXCEPT ![i] = FALSE]
    BY <1>10, Zenon DEF HandleQuery
  <2>2. pp.tree \in TreeKind \cup {"none"}
    BY <1>a, Constants DEF ParseOutcome, SessionTypeOK
  <2>3. Out
    BY <1>a, <1>10, ThrowType, SendType, ReplyType DEF HandleQuery, SessionTypeOK
  <2>4. m_pPlan' \in [Slot -> Plan] /\ PoolTypeOK'
    BY <1>a, <1>8, <2>1, <2>2 DEF ResolveThrows, SessionTypeOK, PoolTypeOK, poolVars
  <2>5. Flags
    BY <1>a, <1>10, <2>1, <2>2 DEF HandleQuery, SessionTypeOK
  <2>6. QED
    BY <1>a, <1>10, <2>3, <2>4, <2>5 DEF HandleQuery, SessionTypeOK
<1>11. CASE HandleExecutionBegin(i)
  <2>1. CASE Crash
    BY <1>a, <2>1, CrashType DEF SessionTypeOK
  <2>2. CASE ~Crash
    <3>1. Out
      BY <1>a, <1>11, <2>2, ThrowType DEF HandleExecutionBegin, SessionTypeOK
    <3>2. m_pPlan' \in [Slot -> Plan] /\ PoolTypeOK'
      BY <1>a, <1>b, <1>11, <2>2, PlanType, FreeAllType DEF HandleExecutionBegin
    <3>3. QED
      BY <1>a, <1>11, <2>2, <3>1, <3>2 DEF HandleExecutionBegin, SessionTypeOK
  <2>3. QED
    BY <2>1, <2>2
<1>12. CASE Sorting(i)
  <2>1. Out
    BY <1>a, <1>12, ThrowType DEF Sorting, SessionTypeOK
  <2>2. PoolTypeOK'
    BY <1>a, <1>12, AllocType DEF Sorting, PoolTypeOK, poolVars
  <2>3. m_pPlan' \in [Slot -> Plan]
    <3>1. CASE UNCHANGED m_pPlan
      BY <1>a, <3>1 DEF SessionTypeOK
    <3>2. CASE ~UNCHANGED m_pPlan
      <4>1. AllocStep /\ AllocResult # NoBlock
            /\ m_pPlan' = [m_pPlan EXCEPT ![i].blocks = Append(@, AllocResult)]
        BY <1>12, <3>2, Zenon DEF Sorting
      <4>2. AllocResult \in Block
        BY <1>a, <4>1, AllocType DEF BlockPtr
      <4>3. QED
        BY <1>a, <4>1, <4>2, PlanType
    <3>3. QED
      BY <3>1, <3>2
  <2>4. QED
    BY <1>a, <1>12, <2>1, <2>2, <2>3 DEF Sorting, execFrame, SessionTypeOK
<1>13. CASE FirstNext(i)
  <2>1. Out
    BY <1>a, <1>13, ThrowType DEF FirstNext, SessionTypeOK
  <2>2. m_pPlan' = m_pPlan \/ m_pPlan' = [m_pPlan EXCEPT ![i].row = @ + 1]
    BY <1>13, Zenon DEF FirstNext
  <2>3. m_pPlan' \in [Slot -> Plan]
    <3>1. m_pPlan \in [Slot -> Plan] /\ [m_pPlan EXCEPT ![i].row = @ + 1] \in [Slot -> Plan]
      BY <1>a, PlanType DEF SessionTypeOK
    <3>2. QED
      BY <2>2, <3>1
  <2>4. QED
    BY <1>a, <1>13, <2>1, <2>3 DEF FirstNext, execFrame, SessionTypeOK, PoolTypeOK, poolVars
<1>14. CASE BufferFull(i)
  <2>1. CASE Crash
    BY <1>a, <2>1, CrashType DEF SessionTypeOK
  <2>2. CASE ~Crash
    <3>1. reply' \in [Slot -> Seq(Msg)]
      BY <1>a, <1>14, <2>2, EncodedType, RowsType, SendType DEF BufferFull, SessionTypeOK
    <3>2. prepared' \in [Slot -> Seq(Nat)]
      BY <1>a, <1>f, <1>14, <2>2 DEF BufferFull, SessionTypeOK
    <3>3. QED
      BY <1>a, <1>14, <2>2, <3>1, <3>2 DEF BufferFull, SessionTypeOK, PoolTypeOK, poolVars
  <2>3. QED
    BY <2>1, <2>2
<1>15. CASE HandleExecutionResult(i)
  <2>1. Encoded(i) \in Seq(Nat) /\ Rows(Encoded(i)) \in Seq(Msg)
    BY <1>a, EncodedType, RowsType
  <2>2. \/ UNCHANGED reply /\ prepared' = [prepared EXCEPT ![i] = Encoded(i)]
        \/ Send(i, Rows(Encoded(i))) /\ prepared' = [prepared EXCEPT ![i] = <<>>]
        \/ Throw(i, "result")
    BY <1>15, Zenon DEF HandleExecutionResult
  <2>3. Out
    <3>0. reply \in [Slot -> Seq(Msg)] /\ prepared \in [Slot -> Seq(Nat)]
      BY <1>a DEF SessionTypeOK
    <3>1. CASE UNCHANGED reply /\ prepared' = [prepared EXCEPT ![i] = Encoded(i)]
      BY <2>1, <3>0, <3>1
    <3>2. CASE Send(i, Rows(Encoded(i))) /\ prepared' = [prepared EXCEPT ![i] = <<>>]
      BY <1>f, <2>1, <3>0, <3>2, SendType
    <3>3. CASE Throw(i, "result")
      BY <1>a, <3>3, ThrowType
    <3>4. QED
      BY <2>2, <3>1, <3>2, <3>3
  <2>4. m_pPlan' = m_pPlan \/ m_pPlan' = [m_pPlan EXCEPT ![i].row = @ + 1]
    <3>1. CASE UNCHANGED m_pPlan
      BY <3>1
    <3>2. CASE m_pPlan' # m_pPlan
      BY <1>15, <3>2, Zenon DEF HandleExecutionResult
    <3>3. QED
      BY <3>1, <3>2
  <2>5. m_pPlan' \in [Slot -> Plan]
    <3>1. m_pPlan \in [Slot -> Plan] /\ [m_pPlan EXCEPT ![i].row = @ + 1] \in [Slot -> Plan]
      BY <1>a, PlanType DEF SessionTypeOK
    <3>2. QED
      BY <2>4, <3>1
  <2>6. QED
    BY <1>a, <1>15, <2>3, <2>5
    DEF HandleExecutionResult, execFrame, SessionTypeOK, PoolTypeOK, poolVars
<1>16. CASE HandleExecutionDone(i)
  <2>1. Out
    BY <1>a, <1>16, ThrowType, SendType, ReplyType DEF HandleExecutionDone, SessionTypeOK
  <2>2. m_pPlan' \in [Slot -> Plan] /\ PoolTypeOK'
    BY <1>a, <1>b, <1>16, PlanType, FreeAllType
    DEF HandleExecutionDone, SessionTypeOK, PoolTypeOK, poolVars
  <2>3. QED
    BY <1>a, <1>16, <2>1, <2>2 DEF HandleExecutionDone, SessionTypeOK
<1>17. QED
  BY <1>2, <1>3, <1>4, <1>5, <1>6, <1>7, <1>9, <1>10, <1>11, <1>12, <1>13,
     <1>14, <1>15, <1>16 DEF HandlerStep

\* Every step preserves the types.
LEMMA NextType ==
  ASSUME TypeOK, [Next]_vars
  PROVE  TypeOK'
<1>a. SessionTypeOK /\ PoolTypeOK /\ MgrTypeOK
  BY DEF TypeOK
<1>b. acceptor \in [state: {"ready", "listen", "busy"}, slot: Slot]
  BY DEF TypeOK
<1>1. CASE UNCHANGED vars
  BY <1>1 DEF vars, poolVars, mgrVars, sessionVars, netVars, TypeOK, PoolTypeOK,
              MgrTypeOK, SessionTypeOK
<1>2. CASE StartAccept
  <2>1. MgrTypeOK' /\ AllocSlot \in Slot
    <3>1. CASE m_free = <<>>
      BY <1>a, <1>2, <3>1, Constants DEF StartAccept, AllocSession, AllocSlot, MgrTypeOK, Slot
    <3>2. CASE m_free # <<>>
      <4>1. Len(m_free) \in Nat /\ Len(m_free) > 0
        BY <1>a, <3>2, EmptySeq, LenProperties DEF MgrTypeOK
      <4>2. m_free[Len(m_free)] \in Slot
        BY <1>a, <4>1 DEF MgrTypeOK
      <4>3. SubSeq(m_free, 1, Len(m_free) - 1) \in Seq(Slot)
        BY <1>a, <4>1, SubSeqProperties DEF MgrTypeOK
      <4>4. QED
        BY <1>a, <1>2, <3>2, <4>2, <4>3 DEF StartAccept, AllocSession, AllocSlot, MgrTypeOK
    <3>3. QED
      BY <3>1, <3>2
  <2>2. task' \in [Slot -> SUBSET Task]
    BY <1>a, <1>2, <2>1, TaskNames DEF StartAccept, SessionTypeOK
  <2>3. QED
    BY <1>a, <1>2, <2>1, <2>2 DEF StartAccept, TypeOK, SessionTypeOK, PoolTypeOK, poolVars
<1>3. ASSUME NEW i \in Slot, AcceptOk(i) PROVE TypeOK'
  <2>1. PoolTypeOK' /\ AllocResult \in BlockPtr
    BY <1>a, <1>3, AllocType DEF AcceptOk, StartParse
  <2>2. task' \in [Slot -> SUBSET Task]
    BY <1>a, <1>3, GotoType, TaskNames DEF AcceptOk, StartParse, SessionTypeOK
  <2>3. acceptor' \in [state: {"ready", "listen", "busy"}, slot: Slot]
    BY <1>b, <1>3 DEF AcceptOk
  <2>4. QED
    BY <1>a, <1>3, <2>1, <2>2, <2>3 DEF AcceptOk, StartParse, TypeOK, SessionTypeOK, MgrTypeOK
<1>4. ASSUME NEW i \in Slot, AcceptError(i) PROVE TypeOK'
  <2>2. task' \in [Slot -> SUBSET Task]
    BY <1>a, <1>4, GotoType, TaskNames DEF AcceptError, SessionTypeOK
  <2>3. acceptor' \in [state: {"ready", "listen", "busy"}, slot: Slot]
    BY <1>b, <1>4 DEF AcceptError
  <2>4. QED
    BY <1>a, <1>4, <2>2, <2>3
    DEF AcceptError, TypeOK, SessionTypeOK, MgrTypeOK, PoolTypeOK, poolVars, mgrVars
<1>5. ASSUME NEW i \in Slot, AcceptorAfter(i)
      PROVE  acceptor' \in [state: {"ready", "listen", "busy"}, slot: Slot]
  BY <1>b, <1>5 DEF AcceptorAfter
<1>6. ASSUME NEW i \in Slot, StartReturns(i) PROVE TypeOK'
  <2>1. SessionTypeOK' /\ PoolTypeOK'
    <3>1. CASE Crash
      BY <1>a, <3>1, CrashType
    <3>2. CASE ~Crash
      <4>1. PoolTypeOK' /\ AllocResult \in BlockPtr
        BY <1>a, <1>6, <3>2, AllocType DEF StartReturns, StartBuffer
      <4>2. task' \in [Slot -> SUBSET Task]
        BY <1>a, <1>6, <3>2, GotoType, TaskNames DEF StartReturns, StartBuffer, SessionTypeOK
      <4>3. QED
        BY <1>a, <1>6, <3>2, <4>1, <4>2 DEF StartReturns, StartBuffer, SessionTypeOK
    <3>3. QED
      BY <3>1, <3>2
  <2>2. QED
    BY <1>a, <1>5, <1>6, <2>1 DEF StartReturns, StartBuffer, TypeOK, MgrTypeOK, mgrVars
<1>7. ASSUME NEW i \in Slot, EndReturns(i) PROVE TypeOK'
  <2>1. MgrTypeOK'
    BY <1>a, <1>7, AppendProperties DEF EndReturns, EndSlot, FreeSession, MgrTypeOK
  <2>2. task' \in [Slot -> SUBSET Task]
    BY <1>a, <1>7 DEF EndReturns, EndSlot, SessionTypeOK
  <2>3. QED
    BY <1>a, <1>5, <1>7, <2>1, <2>2
    DEF EndReturns, EndSlot, TypeOK, SessionTypeOK, PoolTypeOK, poolVars
<1>8. CASE Stop \/ Clear
  BY <1>8 DEF Stop, Clear, poolVars, mgrVars, sessionVars, TypeOK, PoolTypeOK,
              MgrTypeOK, SessionTypeOK
<1>9. CASE CancelAll
  <2>1. m_bTerminate' \in [Slot -> BOOLEAN]
    BY <1>9 DEF CancelAll
  <2>2. QED
    BY <1>9, <2>1 DEF CancelAll, poolVars, mgrVars, TypeOK, PoolTypeOK, MgrTypeOK, SessionTypeOK
<1>10. QED
  BY <1>1, <1>2, <1>3, <1>4, <1>6, <1>7, <1>8, <1>9, IoStepType, HandlerStepType
  DEF Next, Terminated

\* Every variable of the server keeps its type: blocks are blocks of the budget,
\* sessions are sessions of the table, and replies are sequences of messages.
THEOREM TypeCorrect == Spec => []TypeOK
<1>1. ASSUME Init PROVE TypeOK
  <2>1. PoolTypeOK /\ MgrTypeOK
    BY <1>1, Constants DEF Init, PoolInit, MgrInit, PoolTypeOK, MgrTypeOK
  <2>2. /\ NoBlock \in BlockPtr
        /\ NoPlan \in Plan
        /\ <<>> \in Seq(Nat)
        /\ <<>> \in Seq(Msg)
        /\ 0 \in Slot
    BY Constants DEF BlockPtr, NoPlan, NewPlan, Plan, Slot
  <2>3. SessionTypeOK
    BY <1>1, <2>2, Zenon DEF Init, SessionInit, SessionTypeOK
  <2>4. QED
    BY <1>1, <2>1, <2>2, <2>3 DEF Init, TypeOK
<1>2. TypeOK /\ [Next]_vars => TypeOK'
  BY NextType
<1>3. QED
  BY <1>1, <1>2, PTL DEF Spec

-----------------------------------------------------------------------------
(* One task per session.  The inductive invariant adds what the accept loop *)
(* relies on: the session it listens for is waiting for a connection.      *)

SlotInv ==
  /\ OneTaskPerSession
  /\ acceptor.state = "listen" => "accept" \in task[acceptor.slot]

\* Replacing the task of a session leaves one task.
LEMMA GotoOneTask ==
  ASSUME TypeOK, OneTaskPerSession, NEW i \in Slot, NEW t, NEW u,
         t \in task[i], Goto(i, t, u), UNCHANGED <<m_sessions, m_free>>
  PROVE  /\ OneTaskPerSession'
         /\ task[i] = {t}
         /\ task'[i] = {u}
         /\ \A j \in Slot : j # i => task'[j] = task[j]
<1>1. task[i] = {t}
  BY DEF OneTaskPerSession
<1>2. task'[i] = {u} /\ \A j \in Slot : j # i => task'[j] = task[j]
  BY <1>1 DEF Goto, TypeOK, SessionTypeOK
<1>3. FreeSlots' = FreeSlots
  BY DEF FreeSlots
<1>4. QED
  BY <1>1, <1>2, <1>3 DEF OneTaskPerSession

\* Sessions in progress keep the invariant.
LEMMA MovesSlotInv ==
  ASSUME TypeOK, SlotInv, NEW i \in Slot, Moves(i) \/ UNCHANGED task,
         UNCHANGED <<m_sessions, m_free, acceptor>>
  PROVE  SlotInv'
<1>1. CASE UNCHANGED task
  BY <1>1 DEF SlotInv, OneTaskPerSession, FreeSlots
<1>2. CASE Moves(i)
  <2>1. PICK t \in Task \ {"accept"}, u \in Task \ {"accept"} : t \in task[i] /\ Goto(i, t, u)
    BY <1>2 DEF Moves
  <2>2. /\ OneTaskPerSession'
        /\ task[i] = {t}
        /\ \A j \in Slot : j # i => task'[j] = task[j]
    BY <2>1, GotoOneTask DEF SlotInv
  <2>3. acceptor.slot \in Slot
    BY DEF TypeOK
  <2>4. QED
    BY <2>2, <2>3 DEF SlotInv
<1>3. QED
  BY <1>1, <1>2

\* What SubSeq leaves when the last element of a sequence is popped.
LEMMA PopSeq ==
  ASSUME NEW S, NEW q \in Seq(S), NEW n \in Nat, n = Len(q), n > 0,
         NEW r, r = SubSeq(q, 1, n - 1)
  PROVE  /\ Len(r) = n - 1
         /\ \A k \in 1..(n - 1) : r[k] = q[k]
<1>1. \A k \in 1..(n - 1) : q[k] \in S
  OBVIOUS
<1>2. Len(r) = IF 1 <= n - 1 THEN (n - 1) - 1 + 1 ELSE 0
  BY <1>1, SubSeqProperties
<1>3. \A k \in 1..((n - 1) - 1 + 1) : r[k] = q[1 + k - 1]
  BY <1>1, SubSeqProperties
<1>4. QED
  BY <1>2, <1>3

\* Every step keeps the invariant.
LEMMA NextSlotInv ==
  ASSUME TypeOK, SlotInv, [Next]_vars
  PROVE  SlotInv'
<1>t. /\ acceptor \in [state: {"ready", "listen", "busy"}, slot: Slot]
      /\ m_free \in Seq(Slot)
      /\ m_sessions \in 0..MaxSessions
      /\ task \in [Slot -> SUBSET Task]
      /\ MaxSessions \in Nat
  BY Constants DEF TypeOK, MgrTypeOK, SessionTypeOK
<1>1. CASE UNCHANGED vars
  BY <1>1 DEF vars, mgrVars, sessionVars, netVars, SlotInv, OneTaskPerSession, FreeSlots
<1>2. CASE StartAccept
  <2>1. CASE m_free = <<>>
    <3>1. /\ m_sessions < MaxSessions
          /\ m_sessions' = m_sessions + 1
          /\ m_free' = m_free
          /\ AllocSlot = m_sessions
      BY <1>2, <2>1 DEF StartAccept, AllocSession, AllocSlot
    <3>2. m_sessions \in Slot
      BY <1>t, <3>1 DEF Slot
    <3>3. task[m_sessions] = {}
      BY <1>t, <3>2 DEF SlotInv, OneTaskPerSession
    <3>4. /\ task'[m_sessions] = {"accept"}
          /\ \A j \in Slot : j # m_sessions => task'[j] = task[j]
      BY <1>t, <1>2, <3>1, <3>2, <3>3 DEF StartAccept
    <3>5. FreeSlots = {} /\ FreeSlots' = {} /\ Len(m_free) = 0
      BY <2>1, <3>1 DEF FreeSlots
    <3>6. OneTaskPerSession'
      BY <1>t, <2>1, <3>1, <3>2, <3>4, <3>5 DEF SlotInv, OneTaskPerSession, Slot
    <3>7. QED
      BY <1>2, <3>1, <3>4, <3>6 DEF SlotInv, StartAccept
  <2>2. CASE m_free # <<>>
    <3> DEFINE n == Len(m_free)
               s == m_free[n]
    <3>1. n \in Nat /\ n > 0
      BY <1>t, <2>2, EmptySeq, LenProperties
    <3>2. /\ m_free' = SubSeq(m_free, 1, n - 1)
          /\ m_sessions' = m_sessions
          /\ AllocSlot = s
      BY <1>2, <2>2 DEF StartAccept, AllocSession, AllocSlot
    <3>3. /\ Len(m_free') = n - 1
          /\ \A k \in 1..(n - 1) : m_free'[k] = m_free[k]
      <4>1. m_free \in Seq(Slot) /\ n = Len(m_free)
        BY <1>t
      <4> HIDE DEF n
      <4>2. QED
        BY <3>1, <3>2, <4>1, PopSeq
    <3>4. s \in Slot /\ s \in FreeSlots /\ s < m_sessions
      BY <1>t, <3>1 DEF FreeSlots, SlotInv, OneTaskPerSession
    <3>d. \A k, l \in 1..n : m_free[k] = m_free[l] => k = l
      BY DEF SlotInv, OneTaskPerSession
    <3>f. FreeSlots' = {m_free[k] : k \in 1..(n - 1)}
      BY <3>3 DEF FreeSlots
    <3>5. FreeSlots' = FreeSlots \ {s}
      <4>1. ASSUME NEW k \in 1..(n - 1) PROVE m_free[k] \in FreeSlots /\ m_free[k] # s
        BY <3>1, <3>d DEF FreeSlots
      <4>2. ASSUME NEW k \in 1..n, m_free[k] # s PROVE k \in 1..(n - 1)
        BY <3>1, <4>2
      <4>3. QED
        BY <3>f, <4>1, <4>2 DEF FreeSlots
    <3>6. task[s] = {}
      BY <3>4 DEF SlotInv, OneTaskPerSession
    <3>7. /\ task'[s] = {"accept"}
          /\ \A j \in Slot : j # s => task'[j] = task[j]
      BY <1>t, <1>2, <3>2, <3>4, <3>6 DEF StartAccept
    <3>8. OneTaskPerSession'
      <4>1. ASSUME NEW j \in Slot
            PROVE  /\ \A t, u \in task'[j] : t = u
                   /\ task'[j] = {} <=> (j >= m_sessions \/ j \in FreeSlots')
        <5>1. CASE j = s
          <6>1. s \notin FreeSlots' /\ ~(s >= m_sessions)
            BY <1>t, <3>4, <3>5 DEF Slot
          <6>2. QED
            BY <3>7, <5>1, <6>1
        <5>2. CASE j # s
          BY <3>5, <3>7, <5>2 DEF SlotInv, OneTaskPerSession
        <5>3. QED
          BY <5>1, <5>2
      <4>2. \A k \in 1..(n - 1) : m_free[k] < m_sessions
        BY <3>1 DEF SlotInv, OneTaskPerSession
      <4>3. \A k, l \in 1..(n - 1) : m_free[k] = m_free[l] => k = l
        BY <3>1, <3>d
      <4>4. \A k \in 1..Len(m_free') : m_free'[k] < m_sessions'
        BY <3>2, <3>3, <4>2
      <4>5. \A k, l \in 1..Len(m_free') : m_free'[k] = m_free'[l] => k = l
        BY <3>3, <4>3
      <4>6. QED
        BY <3>2, <4>1, <4>4, <4>5, Zenon DEF OneTaskPerSession
    <3>9. QED
      BY <1>2, <3>2, <3>7, <3>8 DEF SlotInv, StartAccept
  <2>3. QED
    BY <2>1, <2>2
<1>3. ASSUME NEW i \in Slot, AcceptOk(i) \/ AcceptError(i) PROVE SlotInv'
  <2>1. /\ acceptor.state = "listen" /\ acceptor.slot = i
        /\ acceptor'.state = "busy"
    BY <1>t, <1>3 DEF AcceptOk, AcceptError
  <2>2. "accept" \in task[i]
    BY <2>1 DEF SlotInv
  <2>3. UNCHANGED <<m_sessions, m_free>> /\ \E u \in Task : Goto(i, "accept", u)
    BY <1>3, TaskNames DEF AcceptOk, AcceptError, StartParse, mgrVars
  <2>4. OneTaskPerSession'
    BY <2>2, <2>3, GotoOneTask DEF SlotInv
  <2>5. QED
    BY <2>1, <2>4 DEF SlotInv
<1>4. ASSUME NEW i \in Slot, IoStep(i) \/ HandlerStep(i) PROVE SlotInv'
  BY <1>4, IoStepMoves, HandlerStepMoves, MovesSlotInv
<1>5. ASSUME NEW i \in Slot, StartReturns(i) PROVE SlotInv'
  <2>1. UNCHANGED <<m_sessions, m_free>> /\ "startBuffer" \in task[i]
    BY <1>5 DEF StartReturns, StartBuffer, mgrVars
  <2>2. UNCHANGED task \/ Goto(i, "startBuffer", "readLen")
    BY <1>5 DEF StartReturns, StartBuffer, Crash
  <2>3. OneTaskPerSession'
    <3>1. CASE UNCHANGED task
      BY <2>1, <3>1 DEF SlotInv, OneTaskPerSession, FreeSlots
    <3>2. CASE Goto(i, "startBuffer", "readLen")
      BY <2>1, <3>2, GotoOneTask DEF SlotInv
    <3>3. QED
      BY <2>2, <3>1, <3>2
  <2>4. acceptor'.state = "listen" =>
          acceptor' = acceptor /\ acceptor.state = "listen"
    BY <1>t, <1>5 DEF StartReturns, AcceptorAfter
  <2>5. acceptor.state = "listen" => "accept" \in task'[acceptor.slot]
    BY <1>t, <2>1, <2>2, GotoOneTask DEF SlotInv, OneTaskPerSession
  <2>6. QED
    BY <2>3, <2>4, <2>5 DEF SlotInv
<1>6. ASSUME NEW i \in Slot, EndReturns(i) PROVE SlotInv'
  <2>1. /\ "endSlot" \in task[i]
        /\ m_free' = Append(m_free, i)
        /\ m_sessions' = m_sessions
        /\ task' = [task EXCEPT ![i] = @ \ {"endSlot"}]
    BY <1>6 DEF EndReturns, EndSlot, FreeSession
  <2>2. task[i] = {"endSlot"} /\ i < m_sessions /\ i \notin FreeSlots
    BY <1>t, <2>1 DEF SlotInv, OneTaskPerSession, Slot
  <2>3. task'[i] = {} /\ \A j \in Slot : j # i => task'[j] = task[j]
    BY <1>t, <2>1, <2>2
  <2>4. /\ Len(m_free') = Len(m_free) + 1
        /\ \A k \in 1..Len(m_free) : m_free'[k] = m_free[k]
        /\ m_free'[Len(m_free) + 1] = i
        /\ Len(m_free) \in Nat
    BY <1>t, <2>1
  <2>5. FreeSlots' = FreeSlots \cup {i}
    BY <2>4 DEF FreeSlots
  <2>6. OneTaskPerSession'
    <3>1. ASSUME NEW j \in Slot
          PROVE  /\ \A t, u \in task'[j] : t = u
                 /\ task'[j] = {} <=> (j >= m_sessions \/ j \in FreeSlots')
      <4>1. CASE j = i
        BY <2>3, <2>5, <4>1
      <4>2. CASE j # i
        BY <2>3, <2>5, <4>2 DEF SlotInv, OneTaskPerSession
      <4>3. QED
        BY <4>1, <4>2
    <3>2. ASSUME NEW k \in 1..(Len(m_free) + 1) PROVE m_free'[k] < m_sessions
      <4>1. CASE k = Len(m_free) + 1
        BY <2>2, <2>4, <4>1
      <4>2. CASE k \in 1..Len(m_free)
        BY <2>4, <4>2 DEF SlotInv, OneTaskPerSession
      <4>3. QED
        BY <2>4, <4>1, <4>2
    <3>3. \A k \in 1..Len(m_free) : m_free'[k] \in FreeSlots
      BY <2>4 DEF FreeSlots
    <3>4. ASSUME NEW k \in 1..(Len(m_free) + 1), NEW l \in 1..(Len(m_free) + 1),
                 m_free'[k] = m_free'[l]
          PROVE  k = l
      <4>1. CASE k \in 1..Len(m_free) /\ l \in 1..Len(m_free)
        BY <2>4, <3>4, <4>1 DEF SlotInv, OneTaskPerSession
      <4>2. CASE k = Len(m_free) + 1 /\ l \in 1..Len(m_free)
        BY <2>2, <2>4, <3>3, <3>4, <4>2
      <4>3. CASE l = Len(m_free) + 1 /\ k \in 1..Len(m_free)
        BY <2>2, <2>4, <3>3, <3>4, <4>3
      <4>4. QED
        BY <2>4, <4>1, <4>2, <4>3
    <3>5. QED
      BY <2>1, <2>4, <3>1, <3>2, <3>4 DEF OneTaskPerSession
  <2>7. acceptor'.state = "listen" =>
          acceptor' = acceptor /\ acceptor.state = "listen"
    BY <1>t, <1>6 DEF EndReturns, AcceptorAfter
  <2>8. acceptor.state = "listen" => "accept" \in task'[acceptor.slot]
    BY <1>t, <2>2, <2>3 DEF SlotInv
  <2>9. QED
    BY <2>6, <2>7, <2>8 DEF SlotInv
<1>7. CASE Stop \/ Clear \/ CancelAll
  BY <1>7 DEF Stop, Clear, CancelAll, mgrVars, sessionVars, SlotInv, OneTaskPerSession, FreeSlots
<1>8. QED
  BY <1>1, <1>2, <1>3, <1>4, <1>5, <1>6, <1>7 DEF Next, Terminated

\* The session that startAccept() takes is idle, and then waits for a connection.
LEMMA AllocIdle ==
  ASSUME TypeOK, OneTaskPerSession, StartAccept
  PROVE  /\ AllocSlot \in Slot /\ task[AllocSlot] = {} /\ task'[AllocSlot] = {"accept"}
         /\ \A j \in Slot : j # AllocSlot => task'[j] = task[j]
<1>t. /\ task \in [Slot -> SUBSET Task]
      /\ m_free \in Seq(Slot)
      /\ m_sessions \in 0..MaxSessions
      /\ MaxSessions \in Nat
  BY Constants DEF TypeOK, MgrTypeOK, SessionTypeOK
<1>1. AllocSlot \in Slot /\ task[AllocSlot] = {}
  <2>1. CASE m_free = <<>>
    <3>1. AllocSlot = m_sessions /\ m_sessions < MaxSessions
      BY <2>1 DEF StartAccept, AllocSession, AllocSlot
    <3>2. QED
      BY <1>t, <3>1 DEF OneTaskPerSession, Slot
  <2>2. CASE m_free # <<>>
    <3>1. Len(m_free) \in 1..Len(m_free)
      BY <1>t, <2>2, EmptySeq, LenProperties
    <3>2. AllocSlot \in FreeSlots /\ AllocSlot \in Slot
      BY <1>t, <2>2, <3>1 DEF AllocSlot, FreeSlots
    <3>3. QED
      BY <3>2 DEF OneTaskPerSession
  <2>3. QED
    BY <2>1, <2>2
<1>2. task' = [task EXCEPT ![AllocSlot] = @ \cup {"accept"}]
  BY DEF StartAccept
<1>3. QED
  BY <1>t, <1>1, <1>2

\* The inductive invariant holds in every reachable state.
THEOREM SlotTheorem == Spec => []SlotInv
<1>1. Init => SlotInv
  BY Constants
  DEF Init, MgrInit, SessionInit, SlotInv, OneTaskPerSession, FreeSlots, Slot
<1>2. TypeOK /\ SlotInv /\ [Next]_vars => SlotInv'
  BY NextSlotInv
<1>3. QED
  BY <1>1, <1>2, TypeCorrect, PTL DEF Spec

\* However many sessions there are, a session that is not free has exactly one
\* asynchronous operation or handler in progress, and the free stack holds
\* every idle session exactly once.
THEOREM OneTaskTheorem == Spec => []OneTaskPerSession
<1>1. SlotInv => OneTaskPerSession
  BY DEF SlotInv
<1>2. QED
  BY <1>1, SlotTheorem, PTL

-----------------------------------------------------------------------------
(* PgServer implements Connections: the initial states map to initial       *)
(* states, and every step of the accept loop, of a session or of the        *)
(* shutdown maps to one step of Connections or to none.                     *)

-----------------------------------------------------------------------------
(* The refinement mapping.                                                 *)

Phases == [i \in Slot |-> PhaseOf(i)]
Up == server = "running"

\* What the actions of Connections say under the mapping.
LEMMA MappedActions ==
  /\ Conn!Init <=> Phases = [i \in Slot |-> "free"] /\ Up = TRUE
  /\ \A i \in Slot : \A from, to :
       Conn!Move(i, from, to) <=> /\ Phases[i] = from
                                  /\ Phases' = [Phases EXCEPT ![i] = to]
                                  /\ Up' = Up
  /\ Conn!Stop <=> Up /\ Up' = FALSE /\ Phases' = Phases
  /\ (Phases' = Phases /\ Up' = Up) => UNCHANGED Conn!connVars
BY DEF Conn!Init, Conn!Move, Conn!Stop, Conn!connVars, Phases, Up
\* A step that moves the phase of one session as Connections allows.
LEMMA PhaseMove ==
  ASSUME NEW i \in Slot, Up' = Up,
         \A j \in Slot : j # i => PhaseOf(j)' = PhaseOf(j),
         \/ PhaseOf(i)' = PhaseOf(i)
         \/ /\ PhaseOf(i) = "free" /\ PhaseOf(i)' = "listening"
            /\ \A j \in Slot : PhaseOf(j) # "listening"
         \/ PhaseOf(i) \in {"listening", "idle"} /\ PhaseOf(i)' = "busy" /\ Up
         \/ PhaseOf(i) = "busy" /\ PhaseOf(i)' \in {"idle", "free"}
  PROVE  [Conn!Next]_(Conn!connVars)
<1>1. Phases' = [Phases EXCEPT ![i] = PhaseOf(i)']
  BY DEF Phases
<1>2. \A j \in Slot : Phases[j] = PhaseOf(j)
  BY DEF Phases
<1>3. Conn!Move(i, PhaseOf(i), PhaseOf(i)')
  BY <1>1, <1>2, MappedActions
<1>4. CASE PhaseOf(i)' = PhaseOf(i)
  <2>1. Phases' = Phases
    BY <1>4 DEF Phases
  <2>2. QED
    BY <2>1, MappedActions
<1>5. CASE PhaseOf(i) = "free" /\ PhaseOf(i)' = "listening" /\ \A j \in Slot : PhaseOf(j) # "listening"
  <2>1. Conn!Listen(i)
    BY <1>2, <1>3, <1>5 DEF Conn!Listen, Phases
  <2>2. QED
    BY <2>1 DEF Conn!Next
<1>6. CASE PhaseOf(i) \in {"listening", "idle"} /\ PhaseOf(i)' = "busy" /\ Up
  <2>1. Conn!Connect(i) \/ Conn!Receive(i)
    BY <1>3, <1>6 DEF Conn!Connect, Conn!Receive, Up
  <2>2. QED
    BY <2>1 DEF Conn!Next
<1>7. CASE PhaseOf(i) = "busy" /\ PhaseOf(i)' \in {"idle", "free"}
  <2>1. Conn!Answer(i) \/ Conn!Close(i)
    BY <1>3, <1>7 DEF Conn!Answer, Conn!Close
  <2>2. QED
    BY <2>1 DEF Conn!Next
<1>8. QED
  BY <1>4, <1>5, <1>6, <1>7

-----------------------------------------------------------------------------
(* The phases before and after a step.                                     *)

\* A handler runs before its step.
LEMMA HandlerStepRuns ==
  ASSUME NEW i \in Slot, HandlerStep(i)
  PROVE  task[i] \cap RunTask # {} /\ server' = server
<1> SUFFICES task[i] \cap RunTask # {}
  BY DEF HandlerStep, netVars
<1>0. ASSUME NEW t \in {"dispatch", "begin", "sorting", "first", "result", "done",
                        "endParse", "endBuffer"}, t \in task[i]
      PROVE  task[i] \cap RunTask # {}
  BY <1>0 DEF RunTask, ExecTask, EndTask
<1>1. CASE EndParse(i) \/ EndBuffer(i)
  BY <1>0, <1>1 DEF EndParse, EndBuffer
<1>2. CASE \/ UnknownMessage(i) \/ HandleStartup(i) \/ HandleSync(i) \/ HandleQuery(i)
           \/ HandleParse(i) \/ HandleBind(i) \/ HandleDescription(i) \/ HandleExecution(i)
           \/ \E j \in Slot : HandleCancel(i, j)
  <2>1. "dispatch" \in task[i]
    BY <1>2 DEF UnknownMessage, HandleStartup, HandleSync, HandleQuery, HandleParse,
                HandleBind, HandleDescription, HandleExecution, HandleCancel, Dispatch
  <2>2. QED
    BY <1>0, <2>1
<1>3. CASE \/ HandleExecutionBegin(i) \/ Sorting(i) \/ FirstNext(i) \/ BufferFull(i)
           \/ HandleExecutionResult(i) \/ HandleExecutionDone(i)
  <2>1. \E t \in {"begin", "sorting", "first", "result", "done"} : t \in task[i]
    BY <1>3 DEF HandleExecutionBegin, Sorting, FirstNext, BufferFull,
                HandleExecutionResult, HandleExecutionDone
  <2>2. QED
    BY <1>0, <2>1
<1>4. QED
  BY <1>1, <1>2, <1>3 DEF HandlerStep

\* A session that goes on with its connection: a step that leaves the phase
\* "idle" is a completed read, which asio delivers only before the stop.
LEMMA MovesPhase ==
  ASSUME TypeOK, SlotInv, NEW i \in Slot, Moves(i),
         UNCHANGED <<acceptor, server>>,
         task[i] \cap RunTask # {} \/ server = "running"
  PROVE  [Conn!Next]_(Conn!connVars)
<1>1. PICK t \in Task \ {"accept"}, u \in Task \ {"accept"} : t \in task[i] /\ Goto(i, t, u)
  BY DEF Moves
<1>2. task[i] = {t}
  BY <1>1 DEF SlotInv, OneTaskPerSession
<1>3. task'[i] = {u} /\ \A j \in Slot : j # i => task'[j] = task[j]
  BY <1>1, <1>2 DEF Goto, TypeOK, SessionTypeOK
<1>4. acceptor # [state |-> "listen", slot |-> i]
  BY <1>1, <1>2 DEF SlotInv
<1>5. /\ PhaseOf(i) = IF t \in ReadTask THEN "idle" ELSE "busy"
      /\ PhaseOf(i)' = IF u \in ReadTask THEN "idle" ELSE "busy"
  BY <1>2, <1>3, <1>4 DEF PhaseOf
<1>6. \A j \in Slot : j # i => PhaseOf(j)' = PhaseOf(j)
  BY <1>3 DEF PhaseOf
<1>7. t \in ReadTask => server = "running"
  BY <1>2 DEF ReadTask, RunTask, ExecTask, EndTask
<1>8. Up' = Up
  BY DEF Up
<1>9. QED
  BY <1>5, <1>6, <1>7, <1>8, PhaseMove DEF Up

\* Steps that change neither the tasks nor what the accept loop listens for.
LEMMA SamePhases ==
  ASSUME UNCHANGED task,
         \A j \in Slot : (acceptor' = [state |-> "listen", slot |-> j])
                           <=> (acceptor = [state |-> "listen", slot |-> j])
  PROVE  Phases' = Phases
<1>1. \A j \in Slot : PhaseOf(j)' = PhaseOf(j)
  BY DEF PhaseOf
<1>2. QED
  BY <1>1 DEF Phases

\* Every step of the server is a step of Connections.
LEMMA NextConnections ==
  ASSUME TypeOK, SlotInv, [Next]_vars
  PROVE  [Conn!Next]_(Conn!connVars)
<1>t. /\ task \in [Slot -> SUBSET Task]
      /\ acceptor \in [state: {"ready", "listen", "busy"}, slot: Slot]
      /\ m_free \in Seq(Slot)
      /\ m_sessions \in 0..MaxSessions
      /\ MaxSessions \in Nat
  BY Constants DEF TypeOK, SessionTypeOK, MgrTypeOK
<1>l. \A j \in Slot : acceptor = [state |-> "listen", slot |-> j] => "accept" \in task[j]
  BY DEF SlotInv
<1>o. OneTaskPerSession
  BY DEF SlotInv
<1>1. ASSUME UNCHANGED <<task, acceptor, server>> PROVE [Conn!Next]_(Conn!connVars)
  BY <1>1, SamePhases, MappedActions DEF Up
<1>2. CASE UNCHANGED vars
  BY <1>1, <1>2 DEF vars, sessionVars, netVars
<1>3. CASE StartAccept
  <2>1. AllocSlot \in Slot /\ task[AllocSlot] = {}
    BY <1>o, <1>3, AllocIdle
  <2>s. PICK s \in Slot : s = AllocSlot
    BY <2>1
  <2>2. /\ acceptor.state = "ready"
        /\ acceptor' = [state |-> "listen", slot |-> s]
        /\ task' = [task EXCEPT ![s] = @ \cup {"accept"}]
        /\ Up' = Up
    BY <1>3, <2>s DEF StartAccept, Up
  <2>3. \A j \in Slot : acceptor # [state |-> "listen", slot |-> j]
    BY <2>2
  <2>4. \A j \in Slot : PhaseOf(j) # "listening"
    BY <2>3 DEF PhaseOf
  <2>5. PhaseOf(s) = "free" /\ PhaseOf(s)' = "listening"
    <3>1. acceptor' = [state |-> "listen", slot |-> s] /\ task[s] = {}
      BY <2>s, <2>1, <2>2
    <3>2. QED
      BY <2>3, <3>1 DEF PhaseOf
  <2>6. ASSUME NEW j \in Slot, j # s PROVE PhaseOf(j)' = PhaseOf(j)
    <3>1. task'[j] = task[j] /\ acceptor' # [state |-> "listen", slot |-> j]
      BY <1>t, <2>2, <2>6
    <3>2. QED
      BY <2>3, <3>1 DEF PhaseOf
  <2>7. QED
    BY <2>2, <2>4, <2>5, <2>6, PhaseMove
<1>4. ASSUME NEW i \in Slot, server = "running", AcceptOk(i) \/ AcceptError(i)
      PROVE  [Conn!Next]_(Conn!connVars)
  <2>1. /\ acceptor = [state |-> "listen", slot |-> i]
        /\ acceptor'.state = "busy"
        /\ Up /\ Up' = Up
    BY <1>t, <1>4 DEF AcceptOk, AcceptError, Up
  <2>2. PICK u \in {"startBuffer", "endParse"} : Goto(i, "accept", u)
    BY <1>4 DEF AcceptOk, AcceptError, StartParse
  <2>3. task[i] = {"accept"}
    BY <1>l, <1>o, <2>1 DEF OneTaskPerSession
  <2>4. task'[i] = {u} /\ \A j \in Slot : j # i => task'[j] = task[j]
    BY <1>t, <2>2, <2>3 DEF Goto
  <2>5. \A j \in Slot : acceptor' # [state |-> "listen", slot |-> j]
    BY <2>1
  <2>6. PhaseOf(i) = "listening" /\ PhaseOf(i)' = "busy"
    BY <2>1, <2>4, <2>5 DEF PhaseOf, ReadTask
  <2>7. \A j \in Slot : j # i => PhaseOf(j)' = PhaseOf(j)
    BY <2>1, <2>4, <2>5 DEF PhaseOf
  <2>8. QED
    BY <2>1, <2>6, <2>7, PhaseMove
<1>5. ASSUME NEW i \in Slot, IoStep(i) PROVE [Conn!Next]_(Conn!connVars)
  <2>1. server = "running" /\ server' = server
    BY <1>5 DEF IoStep, netVars
  <2>2. QED
    BY <1>5, <2>1, IoStepMoves, MovesPhase
<1>6. ASSUME NEW i \in Slot, HandlerStep(i) PROVE [Conn!Next]_(Conn!connVars)
  <2>1. task[i] \cap RunTask # {} /\ UNCHANGED <<acceptor, server>>
    BY <1>6, HandlerStepRuns, HandlerStepMoves
  <2>2. QED
    BY <1>1, <1>6, <2>1, HandlerStepMoves, MovesPhase
<1>a. ASSUME NEW i \in Slot, AcceptorAfter(i)
      PROVE  \A j \in Slot : (acceptor' = [state |-> "listen", slot |-> j])
                               <=> (acceptor = [state |-> "listen", slot |-> j])
  <2>1. CASE acceptor = [state |-> "busy", slot |-> i]
    <3>1. acceptor'.state = "ready" /\ acceptor.state = "busy"
      BY <1>t, <1>a, <2>1 DEF AcceptorAfter
    <3>2. QED
      BY <3>1
  <2>2. CASE acceptor # [state |-> "busy", slot |-> i]
    BY <1>a, <2>2 DEF AcceptorAfter
  <2>3. QED
    BY <2>1, <2>2
<1>7. ASSUME NEW i \in Slot, StartReturns(i) PROVE [Conn!Next]_(Conn!connVars)
  <2>1. "startBuffer" \in task[i] /\ AcceptorAfter(i) /\ Up' = Up
    BY <1>7 DEF StartReturns, StartBuffer, Up
  <2>2. CASE UNCHANGED task
    BY <1>a, <2>1, <2>2, SamePhases, MappedActions
  <2>3. CASE Goto(i, "startBuffer", "readLen")
    <3>1. task[i] = {"startBuffer"}
      BY <1>o, <2>1 DEF OneTaskPerSession
    <3>2. task'[i] = {"readLen"} /\ \A j \in Slot : j # i => task'[j] = task[j]
      BY <1>t, <2>3, <3>1 DEF Goto
    <3>3. acceptor # [state |-> "listen", slot |-> i]
      BY <1>l, <3>1
    <3>4. PhaseOf(i) = "busy" /\ PhaseOf(i)' = "idle"
      BY <1>a, <2>1, <3>1, <3>2, <3>3 DEF PhaseOf, ReadTask
    <3>5. \A j \in Slot : j # i => PhaseOf(j)' = PhaseOf(j)
      BY <1>a, <2>1, <3>2 DEF PhaseOf
    <3>6. QED
      BY <2>1, <3>4, <3>5, PhaseMove
  <2>4. QED
    BY <1>7, <2>2, <2>3 DEF StartReturns, StartBuffer, Crash
<1>8. ASSUME NEW i \in Slot, EndReturns(i) PROVE [Conn!Next]_(Conn!connVars)
  <2>1. /\ "endSlot" \in task[i] /\ AcceptorAfter(i) /\ Up' = Up
        /\ task' = [task EXCEPT ![i] = @ \ {"endSlot"}]
    BY <1>8 DEF EndReturns, EndSlot, Up
  <2>2. task[i] = {"endSlot"}
    BY <1>o, <2>1 DEF OneTaskPerSession
  <2>3. task'[i] = {} /\ \A j \in Slot : j # i => task'[j] = task[j]
    BY <1>t, <2>1, <2>2
  <2>4. acceptor # [state |-> "listen", slot |-> i]
    BY <1>l, <2>2
  <2>5. PhaseOf(i) = "busy" /\ PhaseOf(i)' = "free"
    BY <1>a, <2>1, <2>2, <2>3, <2>4 DEF PhaseOf, ReadTask
  <2>6. \A j \in Slot : j # i => PhaseOf(j)' = PhaseOf(j)
    BY <1>a, <2>1, <2>3 DEF PhaseOf
  <2>7. QED
    BY <2>1, <2>5, <2>6, PhaseMove
<1>9. CASE Stop
  <2>1. Up /\ Up' = FALSE /\ Phases' = Phases
    BY <1>9, SamePhases DEF Stop, Up, sessionVars
  <2>2. QED
    BY <2>1, MappedActions DEF Conn!Next
<1>10. CASE CancelAll \/ Clear
  <2>1. Up' = Up /\ UNCHANGED <<task, acceptor>>
    BY <1>10 DEF CancelAll, Clear, Up, sessionVars
  <2>2. QED
    BY <2>1, SamePhases, MappedActions
<1>11. QED
  BY <1>2, <1>3, <1>4, <1>5, <1>6, <1>7, <1>8, <1>9, <1>10 DEF Next, Terminated

\* The accept loop, the sessions and the shutdown implement Connections, for
\* any number of sessions: a session is handed out only while it is free, one
\* at a time listens, it takes a message only when it has answered the one
\* before, and neither connections nor messages after the stop.
THEOREM ConnectionsTheorem == Spec => ServesConnections
<1>1. Init => Conn!Init
  <2> SUFFICES ASSUME Init PROVE Conn!Init
    OBVIOUS
  <2>1. \A i \in Slot : PhaseOf(i) = "free"
    BY DEF Init, SessionInit, PhaseOf
  <2>2. Phases = [i \in Slot |-> "free"] /\ Up
    BY <2>1 DEF Init, Phases, Up
  <2>3. QED
    BY <2>2, MappedActions
<1>2. TypeOK /\ SlotInv /\ [Next]_vars => [Conn!Next]_(Conn!connVars)
  BY NextConnections
<1>3. QED
  BY <1>1, <1>2, TypeCorrect, SlotTheorem, PTL DEF Spec, ServesConnections, Conn!Spec


-----------------------------------------------------------------------------
(* What a step of a session that is past start() does to its two pointers. *)

\* The tasks that use the arena and the network buffer.
Busy == ReadTask \cup WriteTask \cup ExecTask \cup {"dispatch"}

\* A busy session goes on to something else, with the same memory.
Works(i) ==
  /\ UNCHANGED <<m_pResult, m_pBuffer>>
  /\ \/ UNCHANGED task
     \/ \E t \in Busy, u \in Busy \cup {"endParse"} : t \in task[i] /\ Goto(i, t, u)

\* No completion of an asynchronous operation changes the pointers.
LEMMA IoStepWorks ==
  ASSUME NEW i \in Slot, IoStep(i)
  PROVE  Works(i)
<1> USE DEF Works, ioFrame, Busy, ReadTask, WriteTask, ExecTask
<1>2. ASSUME NEW c \in MsgTypes, ReadType(i, c) PROVE Works(i)
  BY <1>2 DEF ReadType
<1>3. CASE ReadLen(i)
  BY <1>3 DEF ReadLen
<1>4. CASE ReadData(i)
  BY <1>4 DEF ReadData
<1>5. ASSUME NEW t \in ReadTask \cup WriteTask, IoError(i, t) PROVE Works(i)
  BY <1>5 DEF IoError
<1>6. ASSUME NEW t \in WriteTask, WriteDone(i, t) PROVE Works(i)
  BY <1>6 DEF WriteDone, AfterWrite
<1>7. QED
  BY <1>2, <1>3, <1>4, <1>5, <1>6 DEF IoStep

\* Of the steps of the handlers, only those of end() do.
LEMMA HandlerStepWorks ==
  ASSUME NEW i \in Slot, HandlerStep(i)
  PROVE  EndParse(i) \/ EndBuffer(i) \/ Works(i)
<1>1. ASSUME NEW t \in Busy, NEW u \in Busy \cup {"endParse"}, t \in task[i],
             Goto(i, t, u), UNCHANGED <<m_pResult, m_pBuffer>>
      PROVE  Works(i)
  BY <1>1 DEF Works
<1>2. ASSUME UNCHANGED <<m_pResult, m_pBuffer, task>> PROVE Works(i)
  BY <1>2 DEF Works
<1>3. {"writeType", "writeLen", "writeBegin", "writeResult", "writeDone", "readType",
       "dispatch", "begin", "sorting", "first", "result", "done"} \subseteq Busy
  BY DEF Busy, ReadTask, WriteTask, ExecTask
<1>4. CASE UnknownMessage(i) \/ HandleStartup(i) \/ HandleSync(i) \/ HandleExecution(i)
  BY <1>1, <1>3, <1>4
  DEF UnknownMessage, HandleStartup, HandleSync, HandleExecution, Dispatch, ioFrame
<1>5. ASSUME NEW j \in Slot, HandleCancel(i, j) PROVE Works(i)
  BY <1>1, <1>3, <1>5 DEF HandleCancel, Dispatch
<1>6. CASE HandleQuery(i)
  BY <1>1, <1>3, <1>6 DEF HandleQuery, Dispatch, Throw
<1>7. CASE HandleParse(i) \/ HandleBind(i) \/ HandleDescription(i)
  BY <1>1, <1>3, <1>7 DEF HandleParse, HandleBind, HandleDescription, Dispatch, Throw
<1>8. CASE HandleExecutionBegin(i)
  BY <1>1, <1>2, <1>3, <1>8 DEF HandleExecutionBegin, Crash, Throw
<1>9. CASE Sorting(i) \/ FirstNext(i)
  BY <1>1, <1>2, <1>3, <1>9 DEF Sorting, FirstNext, Throw, execFrame
<1>10. CASE BufferFull(i) \/ HandleExecutionResult(i)
  BY <1>1, <1>2, <1>3, <1>10 DEF BufferFull, HandleExecutionResult, Crash, Throw, execFrame
<1>11. CASE HandleExecutionDone(i)
  BY <1>1, <1>3, <1>11 DEF HandleExecutionDone, Throw
<1>12. QED
  BY <1>4, <1>5, <1>6, <1>7, <1>8, <1>9, <1>10, <1>11 DEF HandlerStep

-----------------------------------------------------------------------------
(* Handlers have their memory.  The inductive invariant also says where    *)
(* the two pointers are null, which the ownership of blocks needs too.     *)

\* What the task of a session says about its pointers, from start() to end().
Pointers(i) ==
  /\ task[i] \cap Busy # {} => m_pResult[i] # NoBlock /\ m_pBuffer[i] # NoBlock
  /\ "startBuffer" \in task[i] => m_pResult[i] # NoBlock /\ m_pBuffer[i] = NoBlock
  /\ "endBuffer" \in task[i] => m_pResult[i] = NoBlock
  /\ "endSlot" \in task[i] \/ "accept" \in task[i] \/ task[i] = {} =>
       m_pResult[i] = NoBlock /\ m_pBuffer[i] = NoBlock

PointersInv == \A i \in Slot : Pointers(i)

\* Busy is none of the tasks of start() and end().
LEMMA BusyTasks ==
  /\ {"startBuffer", "endParse", "endBuffer", "endSlot", "accept"} \cap Busy = {}
  /\ "readLen" \in Busy
BY DEF Busy, ReadTask, WriteTask, ExecTask

\* A session whose task and pointers do not change keeps what they say.
LEMMA PointersUnchanged ==
  ASSUME NEW j \in Slot, Pointers(j), task'[j] = task[j],
         m_pResult'[j] = m_pResult[j], m_pBuffer'[j] = m_pBuffer[j]
  PROVE  Pointers(j)'
BY DEF Pointers

\* Every step keeps the invariant.
LEMMA NextPointersInv ==
  ASSUME TypeOK, SlotInv, PointersInv, [Next]_vars
  PROVE  PointersInv'
<1>t. /\ task \in [Slot -> SUBSET Task]
      /\ m_pResult \in [Slot -> BlockPtr]
      /\ m_pBuffer \in [Slot -> BlockPtr]
      /\ m_free \in Seq(Slot)
      /\ m_sessions \in 0..MaxSessions
      /\ MaxSessions \in Nat
      /\ acceptor \in [state: {"ready", "listen", "busy"}, slot: Slot]
  BY Constants DEF TypeOK, SessionTypeOK, MgrTypeOK
<1>o. OneTaskPerSession
  BY DEF SlotInv
<1>1. ASSUME UNCHANGED <<task, m_pResult, m_pBuffer>> PROVE PointersInv'
  BY <1>1 DEF PointersInv, Pointers
<1>2. ASSUME NEW i \in Slot, NEW t, NEW u, t \in task[i], Goto(i, t, u)
      PROVE  /\ task[i] = {t}
             /\ task'[i] = {u}
             /\ \A j \in Slot : j # i => task'[j] = task[j]
  <2>1. task[i] = {t}
    BY <1>o, <1>2 DEF OneTaskPerSession
  <2>2. QED
    BY <1>t, <1>2, <2>1 DEF Goto
<1>3. CASE StartAccept
  <2>1. AllocSlot \in Slot /\ task[AllocSlot] = {}
    BY <1>o, <1>3, AllocIdle
  <2>2. /\ task'[AllocSlot] = {"accept"}
        /\ \A j \in Slot : j # AllocSlot => task'[j] = task[j]
    BY <1>o, <1>3, AllocIdle
  <2>3. UNCHANGED <<m_pResult, m_pBuffer>>
    BY <1>3 DEF StartAccept
  <2>4. ASSUME NEW j \in Slot PROVE Pointers(j)'
    <3>1. CASE j = AllocSlot
      BY <2>1, <2>2, <2>3, <3>1, BusyTasks DEF PointersInv, Pointers
    <3>2. CASE j # AllocSlot
      BY <2>2, <2>3, <3>2, PointersUnchanged DEF PointersInv
    <3>3. QED
      BY <3>1, <3>2
  <2>5. QED
    BY <2>4 DEF PointersInv
<1>4. ASSUME NEW i \in Slot, AcceptOk(i) \/ AcceptError(i) PROVE PointersInv'
  <2>1. "accept" \in task[i]
    BY <1>t, <1>4 DEF AcceptOk, AcceptError, SlotInv
  <2>2. PICK u : Goto(i, "accept", u) /\ u \in {"endParse", "startBuffer"}
                 /\ (u = "startBuffer" => m_pResult'[i] # NoBlock)
    BY <1>t, <1>4 DEF AcceptOk, AcceptError, StartParse
  <2>3. /\ m_pBuffer' = m_pBuffer
        /\ \A j \in Slot : j # i => m_pResult'[j] = m_pResult[j]
    BY <1>t, <1>4 DEF AcceptOk, AcceptError, StartParse
  <2>4. /\ task[i] = {"accept"} /\ task'[i] = {u}
        /\ \A j \in Slot : j # i => task'[j] = task[j]
    BY <1>2, <2>1, <2>2
  <2>5. Pointers(i)'
    BY <2>2, <2>3, <2>4, BusyTasks DEF PointersInv, Pointers
  <2>6. QED
    BY <2>3, <2>4, <2>5, PointersUnchanged DEF PointersInv
<1>5. ASSUME NEW i \in Slot, Works(i) PROVE PointersInv'
  <2>1. CASE UNCHANGED task
    BY <1>1, <1>5, <2>1 DEF Works
  <2>2. ASSUME NEW t \in Busy, NEW u \in Busy \cup {"endParse"}, t \in task[i], Goto(i, t, u)
        PROVE  PointersInv'
    <3>1. /\ task[i] = {t} /\ task'[i] = {u}
          /\ \A j \in Slot : j # i => task'[j] = task[j]
      BY <1>2, <2>2
    <3>2. UNCHANGED <<m_pResult, m_pBuffer>>
      BY <1>5 DEF Works
    <3>3. Pointers(i)'
      BY <2>2, <3>1, <3>2, BusyTasks DEF PointersInv, Pointers
    <3>4. QED
      BY <3>1, <3>2, <3>3, PointersUnchanged DEF PointersInv
  <2>3. QED
    BY <1>5, <2>1, <2>2 DEF Works
<1>6. ASSUME NEW i \in Slot, EndParse(i) PROVE PointersInv'
  <2>1. /\ task'[i] = {"endBuffer"}
        /\ \A j \in Slot : j # i => task'[j] = task[j]
    BY <1>2, <1>6 DEF EndParse
  <2>2. /\ m_pBuffer' = m_pBuffer /\ m_pResult'[i] = NoBlock
        /\ \A j \in Slot : j # i => m_pResult'[j] = m_pResult[j]
    BY <1>t, <1>6 DEF EndParse
  <2>3. Pointers(i)'
    BY <2>1, <2>2, BusyTasks DEF Pointers
  <2>4. QED
    BY <2>1, <2>2, <2>3, PointersUnchanged DEF PointersInv
<1>7. ASSUME NEW i \in Slot, EndBuffer(i) PROVE PointersInv'
  <2>1. /\ task[i] = {"endBuffer"} /\ task'[i] = {"endSlot"}
        /\ \A j \in Slot : j # i => task'[j] = task[j]
    BY <1>2, <1>7 DEF EndBuffer
  <2>2. /\ m_pResult' = m_pResult /\ m_pBuffer'[i] = NoBlock
        /\ \A j \in Slot : j # i => m_pBuffer'[j] = m_pBuffer[j]
    BY <1>t, <1>7 DEF EndBuffer
  <2>3. Pointers(i)'
    BY <2>1, <2>2, BusyTasks DEF PointersInv, Pointers
  <2>4. QED
    BY <2>1, <2>2, <2>3, PointersUnchanged DEF PointersInv
<1>8. ASSUME NEW i \in Slot, StartReturns(i) PROVE PointersInv'
  <2>1. CASE AllocResult = NoBlock
    BY <1>1, <1>8, <2>1 DEF StartReturns, StartBuffer, Crash
  <2>2. CASE AllocResult # NoBlock
    <3>1. /\ "startBuffer" \in task[i] /\ Goto(i, "startBuffer", "readLen")
          /\ m_pBuffer' = [m_pBuffer EXCEPT ![i] = AllocResult]
          /\ m_pResult' = m_pResult
      BY <1>8, <2>2 DEF StartReturns, StartBuffer
    <3>2. /\ task[i] = {"startBuffer"} /\ task'[i] = {"readLen"}
          /\ \A j \in Slot : j # i => task'[j] = task[j]
      BY <1>2, <3>1
    <3>3. Pointers(i)'
      BY <1>t, <2>2, <3>1, <3>2, BusyTasks DEF PointersInv, Pointers
    <3>4. QED
      BY <1>t, <3>1, <3>2, <3>3, PointersUnchanged DEF PointersInv
  <2>3. QED
    BY <2>1, <2>2
<1>9. ASSUME NEW i \in Slot, EndReturns(i) PROVE PointersInv'
  <2>1. /\ "endSlot" \in task[i]
        /\ task' = [task EXCEPT ![i] = @ \ {"endSlot"}]
        /\ UNCHANGED <<m_pResult, m_pBuffer>>
    BY <1>9 DEF EndReturns, EndSlot
  <2>2. task[i] = {"endSlot"}
    BY <1>o, <2>1 DEF OneTaskPerSession
  <2>3. task'[i] = {} /\ \A j \in Slot : j # i => task'[j] = task[j]
    BY <1>t, <2>1, <2>2
  <2>4. Pointers(i)'
    BY <2>1, <2>2, <2>3 DEF PointersInv, Pointers
  <2>5. QED
    BY <2>1, <2>3, <2>4, PointersUnchanged DEF PointersInv
<1>10. CASE UNCHANGED vars \/ Stop \/ CancelAll \/ Clear
  BY <1>1, <1>10 DEF Stop, CancelAll, Clear, vars, sessionVars
<1>11. QED
  BY <1>3, <1>4, <1>5, <1>6, <1>7, <1>8, <1>9, <1>10, IoStepWorks, HandlerStepWorks
  DEF Next, Terminated

\* The inductive invariant holds in every reachable state.
THEOREM PointersTheorem == Spec => []PointersInv
<1>1. Init => PointersInv
  BY DEF Init, SessionInit, PointersInv, Pointers
<1>2. TypeOK /\ SlotInv /\ PointersInv /\ [Next]_vars => PointersInv'
  BY NextPointersInv
<1>3. QED
  BY <1>1, <1>2, SlotTheorem, TypeCorrect, PTL DEF Spec

\* Whatever fails during start() and in whichever order the connections come
\* and go, a session that reads, writes or executes has its ParseResult and its
\* network buffer.
THEOREM MemoryTheorem == Spec => []HandlersHaveMemory
<1>1. PointersInv => HandlersHaveMemory
  BY DEF PointersInv, Pointers, HandlersHaveMemory, Busy
<1>2. QED
  BY <1>1, PointersTheorem, PTL

-----------------------------------------------------------------------------
(* The plan is in place while it is executed.                              *)

\* The tasks that dereference m_pPlan without looking at it.
PlanTask == {"sorting", "first", "result", "done", "writeBegin", "writeResult", "writeDone"}

\* Session i replaces its task, and if the new one needs a plan there is one.
Executes(i) ==
  /\ \A j \in Slot : j # i => m_pPlan'[j].kind = m_pPlan[j].kind
  /\ \/ task' = task /\ m_pPlan'[i].kind = m_pPlan[i].kind
     \/ \E t, u \in Task :
          /\ t \in task[i] /\ Goto(i, t, u)
          /\ u \in PlanTask => \/ t \in PlanTask /\ m_pPlan'[i].kind = m_pPlan[i].kind
                               \/ m_pPlan'[i].kind # "none"

\* Completing a write leaves the plan alone and goes on with it.
LEMMA IoStepExecutes ==
  ASSUME TypeOK, NEW i \in Slot, IoStep(i)
  PROVE  Executes(i)
<1> USE DEF Executes, PlanTask, ioFrame, Task, RunTask, IoTask, ReadTask, WriteTask, EndTask, ExecTask
<1>1. ASSUME NEW c \in MsgTypes, ReadType(i, c) PROVE Executes(i)
  BY <1>1 DEF ReadType
<1>2. CASE ReadLen(i)
  BY <1>2 DEF ReadLen
<1>3. CASE ReadData(i)
  BY <1>3 DEF ReadData
<1>4. ASSUME NEW t \in ReadTask \cup WriteTask, IoError(i, t) PROVE Executes(i)
  BY <1>4 DEF IoError
<1>5. ASSUME NEW t \in WriteTask, WriteDone(i, t) PROVE Executes(i)
  BY <1>5 DEF WriteDone, AfterWrite
<1>6. QED
  BY <1>1, <1>2, <1>3, <1>4, <1>5 DEF IoStep

\* A handler enters a task that needs a plan only with one, and destroys it
\* only when it leaves these tasks.
LEMMA HandlerStepExecutes ==
  ASSUME TypeOK, NEW i \in Slot, HandlerStep(i)
  PROVE  Executes(i)
<1>p. m_pPlan \in [Slot -> Plan]
  BY DEF TypeOK, SessionTypeOK
<1>n. {"writeType", "writeLen", "writeBegin", "writeResult", "writeDone", "readType",
       "dispatch", "begin", "sorting", "first", "result", "done", "endParse",
       "endBuffer", "endSlot"} \subseteq Task
  BY DEF Task, RunTask, IoTask, ReadTask, WriteTask, EndTask, ExecTask
<1>1. ASSUME NEW t \in Task, NEW u \in Task \ PlanTask, t \in task[i], Goto(i, t, u),
             \A j \in Slot : j # i => m_pPlan'[j].kind = m_pPlan[j].kind
      PROVE  Executes(i)
  BY <1>1 DEF Executes
<1>2. ASSUME NEW t \in PlanTask \cap Task, NEW u \in Task, t \in task[i], Goto(i, t, u),
             UNCHANGED m_pPlan
      PROVE  Executes(i)
  BY <1>2 DEF Executes
<1>3. ASSUME NEW t \in Task, NEW u \in Task, t \in task[i], Goto(i, t, u),
             \A j \in Slot : j # i => m_pPlan'[j].kind = m_pPlan[j].kind,
             m_pPlan'[i].kind # "none"
      PROVE  Executes(i)
  BY <1>3 DEF Executes
<1>4. ASSUME UNCHANGED task, \A j \in Slot : m_pPlan'[j].kind = m_pPlan[j].kind PROVE Executes(i)
  BY <1>4 DEF Executes
<1>s. ASSUME NEW f, m_pPlan' = [m_pPlan EXCEPT ![i] = f]
      PROVE  /\ m_pPlan'[i] = f
             /\ \A j \in Slot : j # i => m_pPlan'[j].kind = m_pPlan[j].kind
  BY <1>p, <1>s
<1>5. CASE EndParse(i) \/ EndBuffer(i)
  BY <1>1, <1>n, <1>5 DEF EndParse, EndBuffer, PlanTask
<1>6. CASE UnknownMessage(i) \/ HandleStartup(i) \/ HandleSync(i) \/ HandleExecution(i)
  BY <1>1, <1>n, <1>6
  DEF UnknownMessage, HandleStartup, HandleSync, HandleExecution, Dispatch, ioFrame, PlanTask
<1>7. ASSUME NEW j \in Slot, HandleCancel(i, j) PROVE Executes(i)
  BY <1>1, <1>n, <1>7 DEF HandleCancel, Dispatch, PlanTask
<1>r. ASSUME NEW k \in TreeKind \cup {"none"}, Resolve(i, k)
      PROVE  /\ m_pPlan'[i].kind # "none"
             /\ \A j \in Slot : j # i => m_pPlan'[j].kind = m_pPlan[j].kind
  <2>1. m_pPlan' = [m_pPlan EXCEPT ![i] = NewPlan(IF k = "none" THEN "empty" ELSE k)]
    BY <1>r DEF Resolve
  <2>2. NewPlan(IF k = "none" THEN "empty" ELSE k).kind # "none"
    BY <1>r DEF NewPlan
  <2>3. QED
    BY <1>s, <2>1, <2>2
<1>8. CASE HandleQuery(i)
  <2>1. PICK p \in ParseOutcome(i) :
          \/ Throw(i, "dispatch") /\ UNCHANGED m_pPlan
          \/ Resolve(i, p.tree) /\ \E u \in {"writeBegin", "writeType", "begin"} :
                                     Goto(i, "dispatch", u)
    BY <1>8 DEF HandleQuery, ResolveThrows, Throw
  <2>2. p.tree \in TreeKind \cup {"none"}
    BY Constants DEF ParseOutcome, TypeOK, SessionTypeOK
  <2>3. "dispatch" \in task[i]
    BY <1>8 DEF HandleQuery, Dispatch
  <2>4. CASE Throw(i, "dispatch") /\ UNCHANGED m_pPlan
    BY <1>1, <1>n, <2>3, <2>4 DEF Throw, PlanTask
  <2>5. ASSUME NEW u \in {"writeBegin", "writeType", "begin"}, Goto(i, "dispatch", u),
               Resolve(i, p.tree)
        PROVE  Executes(i)
    BY <1>3, <1>n, <1>r, <2>2, <2>3, <2>5
  <2>6. QED
    BY <2>1, <2>4, <2>5
<1>9. CASE HandleParse(i)
  BY <1>1, <1>n, <1>9 DEF HandleParse, Dispatch, Throw, PlanTask
<1>10. CASE HandleBind(i)
  <2>1. \A j \in Slot : j # i => m_pPlan'[j].kind = m_pPlan[j].kind
    BY <1>s, <1>10 DEF HandleBind, ResolveThrows, Resolve
  <2>2. QED
    BY <1>1, <1>n, <1>10, <2>1 DEF HandleBind, Dispatch, Throw, PlanTask
<1>11. CASE HandleDescription(i)
  BY <1>1, <1>n, <1>11 DEF HandleDescription, Dispatch, Throw, PlanTask
<1>12. CASE HandleExecutionBegin(i)
  <2>1. CASE m_pPlan[i].kind = "none"
    BY <1>4, <1>12, <2>1 DEF HandleExecutionBegin, Crash
  <2>2. CASE m_pPlan[i].kind # "none"
    <3>1. m_pPlan' = [m_pPlan EXCEPT ![i] = NewPlan(m_pPlan[i].kind)]
      BY <1>12, <2>2 DEF HandleExecutionBegin
    <3>2. m_pPlan'[i].kind # "none" /\ \A j \in Slot : j # i => m_pPlan'[j].kind = m_pPlan[j].kind
      BY <1>s, <2>2, <3>1 DEF NewPlan
    <3>3. "begin" \in task[i] /\ \E u \in {"sorting", "first", "writeType"} : Goto(i, "begin", u)
      BY <1>12, <2>2 DEF HandleExecutionBegin, Throw
    <3>4. QED
      BY <1>3, <1>n, <3>2, <3>3
  <2>3. QED
    BY <2>1, <2>2
<1>k. ASSUME \/ m_pPlan' = [m_pPlan EXCEPT ![i].row = @ + 1]
             \/ m_pPlan' = [m_pPlan EXCEPT ![i].blocks = Append(@, AllocResult)]
             \/ UNCHANGED m_pPlan
      PROVE  \A j \in Slot : m_pPlan'[j].kind = m_pPlan[j].kind
  <2>1. CASE m_pPlan' = [m_pPlan EXCEPT ![i].row = @ + 1]
    BY <1>p, <2>1 DEF Plan
  <2>2. CASE m_pPlan' = [m_pPlan EXCEPT ![i].blocks = Append(@, AllocResult)]
    BY <1>p, <2>2 DEF Plan
  <2>3. QED
    BY <1>k, <2>1, <2>2
<1>a. ASSUME NEW t \in PlanTask \cap Task, NEW u \in Task, t \in task[i], Goto(i, t, u),
             \A j \in Slot : m_pPlan'[j].kind = m_pPlan[j].kind
      PROVE  Executes(i)
  BY <1>a DEF Executes
<1>13. CASE Sorting(i)
  <2>1. \A j \in Slot : m_pPlan'[j].kind = m_pPlan[j].kind
    BY <1>k, <1>13 DEF Sorting
  <2>2. QED
    BY <1>4, <1>a, <1>n, <1>13, <2>1 DEF Sorting, Throw, PlanTask
<1>14. CASE FirstNext(i)
  <2>1. \A j \in Slot : m_pPlan'[j].kind = m_pPlan[j].kind
    BY <1>k, <1>14 DEF FirstNext
  <2>2. QED
    BY <1>4, <1>a, <1>n, <1>14, <2>1 DEF FirstNext, Throw, PlanTask
<1>15. CASE BufferFull(i)
  BY <1>2, <1>4, <1>n, <1>15 DEF BufferFull, Crash, PlanTask
<1>16. CASE HandleExecutionResult(i)
  <2>1. \A j \in Slot : m_pPlan'[j].kind = m_pPlan[j].kind
    BY <1>k, <1>16 DEF HandleExecutionResult
  <2>2. QED
    BY <1>4, <1>a, <1>n, <1>16, <2>1 DEF HandleExecutionResult, Throw, PlanTask
<1>17. CASE HandleExecutionDone(i)
  <2>1. \A j \in Slot : j # i => m_pPlan'[j].kind = m_pPlan[j].kind
    BY <1>s, <1>17 DEF HandleExecutionDone
  <2>2. QED
    BY <1>1, <1>n, <1>17, <2>1 DEF HandleExecutionDone, Throw, PlanTask
<1>18. QED
  BY <1>5, <1>6, <1>7, <1>8, <1>9, <1>10, <1>11, <1>12, <1>13, <1>14, <1>15, <1>16, <1>17
  DEF HandlerStep

\* From the row description to the end of an execution, over any number of
\* suspensions, failures and cancellations, m_pPlan points to a plan.
THEOREM PlanTheorem == Spec => []PlanInPlace
<1>1. Init => PlanInPlace
  BY DEF Init, SessionInit, PlanInPlace
<1>2. ASSUME TypeOK, SlotInv, PlanInPlace, [Next]_vars PROVE PlanInPlace'
  <2>t. task \in [Slot -> SUBSET Task] /\ m_pPlan \in [Slot -> Plan]
    BY <1>2 DEF TypeOK, SessionTypeOK
  <2>1. ASSUME NEW i \in Slot, Executes(i) PROVE PlanInPlace'
    <3>1. CASE task' = task /\ m_pPlan'[i].kind = m_pPlan[i].kind
      BY <1>2, <2>1, <3>1 DEF Executes, PlanInPlace
    <3>2. ASSUME NEW t \in Task, NEW u \in Task, t \in task[i], Goto(i, t, u),
                 u \in PlanTask => \/ t \in PlanTask /\ m_pPlan'[i].kind = m_pPlan[i].kind
                                  \/ m_pPlan'[i].kind # "none"
          PROVE  PlanInPlace'
      <4>1. task[i] = {t}
        BY <1>2, <3>2 DEF SlotInv, OneTaskPerSession
      <4>2. task'[i] = {u} /\ \A j \in Slot : j # i => task'[j] = task[j]
        BY <2>t, <3>2, <4>1 DEF Goto
      <4>3. ASSUME NEW j \in Slot, task'[j] \cap PlanTask # {} PROVE m_pPlan'[j].kind # "none"
        <5>1. CASE j = i
          BY <1>2, <3>2, <4>1, <4>2, <4>3, <5>1 DEF PlanInPlace, PlanTask
        <5>2. CASE j # i
          BY <1>2, <2>1, <4>2, <4>3, <5>2 DEF PlanInPlace, PlanTask, Executes
        <5>3. QED
          BY <5>1, <5>2
      <4>4. QED
        BY <4>3 DEF PlanInPlace, PlanTask
    <3>3. QED
      BY <2>1, <3>1, <3>2 DEF Executes
  <2>2. ASSUME UNCHANGED m_pPlan, \A j \in Slot : task'[j] \cap PlanTask = task[j] \cap PlanTask
        PROVE  PlanInPlace'
    BY <1>2, <2>2 DEF PlanInPlace, PlanTask
  <2>3. CASE StartAccept
    BY <2>2, <2>3, <2>t DEF StartAccept, PlanTask
  <2>4. ASSUME NEW i \in Slot, AcceptOk(i) \/ AcceptError(i) PROVE PlanInPlace'
    BY <2>2, <2>4, <2>t DEF AcceptOk, AcceptError, StartParse, Goto, PlanTask
  <2>5. ASSUME NEW i \in Slot, StartReturns(i) \/ EndReturns(i) PROVE PlanInPlace'
    BY <2>2, <2>5, <2>t DEF StartReturns, EndReturns, StartBuffer, EndSlot, Crash, Goto, PlanTask
  <2>6. CASE UNCHANGED vars \/ Stop \/ CancelAll \/ Clear
    BY <2>2, <2>6 DEF Stop, CancelAll, Clear, vars, sessionVars
  <2>7. QED
    BY <1>2, <2>1, <2>3, <2>4, <2>5, <2>6, IoStepExecutes, HandlerStepExecutes DEF Next, Terminated
<1>3. QED
  BY <1>1, <1>2, SlotTheorem, TypeCorrect, PTL DEF Spec

-----------------------------------------------------------------------------
(* The ownership of memory blocks: every block that was ever created has    *)
(* one place, on the free list or with one session, whatever fails and      *)
(* whoever runs when.                                                       *)

-----------------------------------------------------------------------------
(* Sequences of block pointers: null pointers do not count.                *)

\* The blocks in a sequence of pointers.
Elems(s) == {s[k] : k \in 1..Len(s)} \ {NoBlock}

\* No block is there twice.
Distinct(s) == \A k, l \in 1..Len(s) : s[k] = s[l] /\ s[k] # NoBlock => k = l

\* Popping the head of the free list takes one block, or a null pointer, off it.
LEMMA TailBlocks ==
  ASSUME NEW s \in Seq(BlockPtr), s # <<>>, Distinct(s)
  PROVE  /\ Distinct(Tail(s))
         /\ Elems(s) = Elems(Tail(s)) \cup ({Head(s)} \ {NoBlock})
         /\ Head(s) \notin Elems(Tail(s))
<1> DEFINE n == Len(s)
           r == Tail(s)
<1>1. /\ n \in Nat /\ n > 0
      /\ Head(s) = s[1]
      /\ Len(r) = n - 1
      /\ \A k \in 1..(n - 1) : r[k] = s[k + 1]
  BY HeadTailProperties, EmptySeq, LenProperties
<1>2. \A k, l \in 1..n : s[k] = s[l] /\ s[k] # NoBlock => k = l
  BY DEF Distinct
<1> HIDE DEF n, r
<1>3. Distinct(r)
  BY <1>1, <1>2 DEF Distinct
<1>4. {s[k] : k \in 1..n} = {r[k] : k \in 1..(n - 1)} \cup {s[1]}
  <2>1. \A k \in 1..n : k = 1 \/ (k - 1 \in 1..(n - 1) /\ s[k] = r[k - 1])
    BY <1>1
  <2>2. \A k \in 1..(n - 1) : k + 1 \in 1..n /\ r[k] = s[k + 1]
    BY <1>1
  <2>3. 1 \in 1..n
    BY <1>1
  <2>4. QED
    BY <2>1, <2>2, <2>3
<1>5. \A k \in 1..(n - 1) : r[k] # NoBlock => r[k] # s[1]
  BY <1>1, <1>2
<1>6. QED
  BY <1>1, <1>3, <1>4, <1>5 DEF Elems, n, r

\* Appending a pointer to a block that is not there yet, or a null pointer.
LEMMA AppendBlocks ==
  ASSUME NEW s \in Seq(BlockPtr), NEW b \in BlockPtr, Distinct(s),
         b \notin Elems(s)
  PROVE  /\ Distinct(Append(s, b))
         /\ Elems(Append(s, b)) = Elems(s) \cup ({b} \ {NoBlock})
<1> DEFINE n == Len(s)
           r == Append(s, b)
<1>1. /\ n \in Nat
      /\ Len(r) = n + 1
      /\ \A k \in 1..n : r[k] = s[k]
      /\ r[n + 1] = b
  BY AppendProperties, LenProperties
<1>2. \A k, l \in 1..n : s[k] = s[l] /\ s[k] # NoBlock => k = l
  BY DEF Distinct
<1>3. \A k \in 1..n : s[k] # NoBlock => s[k] # b
  BY DEF Elems
<1> HIDE DEF n, r
<1>4. \A k \in 1..(n + 1) : k \in 1..n \/ k = n + 1
  BY <1>1
<1>5. Distinct(r)
  BY <1>1, <1>2, <1>3, <1>4 DEF Distinct
<1>6. {r[k] : k \in 1..(n + 1)} = {s[k] : k \in 1..n} \cup {b}
  <2>1. 1..n \subseteq 1..(n + 1) /\ n + 1 \in 1..(n + 1)
    BY <1>1
  <2>2. QED
    BY <1>1, <1>4, <2>1
<1>7. QED
  BY <1>1, <1>5, <1>6 DEF Elems, n, r

\* Appending the blocks of a sort buffer to the free list.
LEMMA ConcatBlocks ==
  ASSUME NEW s \in Seq(BlockPtr), NEW t \in Seq(BlockPtr),
         Distinct(s), Distinct(t), Elems(s) \cap Elems(t) = {}
  PROVE  /\ Distinct(s \o t)
         /\ Elems(s \o t) = Elems(s) \cup Elems(t)
<1> DEFINE n == Len(s)
           m == Len(t)
           r == s \o t
<1>1. /\ n \in Nat /\ m \in Nat
      /\ Len(r) = n + m
      /\ \A k \in 1..(n + m) : r[k] = IF k <= n THEN s[k] ELSE t[k - n]
  BY ConcatProperties, LenProperties
<1>2. /\ \A k, l \in 1..n : s[k] = s[l] /\ s[k] # NoBlock => k = l
      /\ \A k, l \in 1..m : t[k] = t[l] /\ t[k] # NoBlock => k = l
  BY DEF Distinct
<1>3. \A k \in 1..n, l \in 1..m : s[k] # NoBlock => s[k] # t[l]
  BY DEF Elems
<1> HIDE DEF n, m, r
<1>4. \A k \in 1..(n + m) : \/ k \in 1..n /\ r[k] = s[k]
                            \/ k - n \in 1..m /\ r[k] = t[k - n] /\ k \notin 1..n
  BY <1>1
<1>5. Distinct(r)
  <2>1. SUFFICES ASSUME NEW k \in 1..(n + m), NEW l \in 1..(n + m),
                        r[k] = r[l], r[k] # NoBlock
                 PROVE  k = l
    BY <1>1 DEF Distinct
  <2>2. CASE k \in 1..n /\ l \in 1..n
    BY <1>1, <1>2, <2>1, <2>2
  <2>3. CASE k \notin 1..n /\ l \notin 1..n
    <3>1. k - n \in 1..m /\ l - n \in 1..m /\ t[k - n] = t[l - n] /\ t[k - n] # NoBlock
      BY <1>4, <2>1, <2>3
    <3>2. k - n = l - n
      BY <1>2, <3>1
    <3>3. QED
      BY <1>1, <3>2
  <2>4. CASE k \in 1..n /\ l \notin 1..n
    BY <1>3, <1>4, <2>1, <2>4
  <2>5. CASE k \notin 1..n /\ l \in 1..n
    BY <1>3, <1>4, <2>1, <2>5
  <2>6. QED
    BY <2>2, <2>3, <2>4, <2>5
<1>6. {r[k] : k \in 1..(n + m)} = {s[k] : k \in 1..n} \cup {t[k] : k \in 1..m}
  <2>1. \A k \in 1..n : k \in 1..(n + m) /\ r[k] = s[k]
    BY <1>1
  <2>2. \A k \in 1..m : k + n \in 1..(n + m) /\ r[k + n] = t[k]
    BY <1>1
  <2>3. QED
    BY <1>4, <2>1, <2>2
<1>7. QED
  BY <1>1, <1>5, <1>6 DEF Elems, n, m, r

-----------------------------------------------------------------------------
(* The inductive invariant: the places are disjoint, and together they     *)
(* hold the blocks that were created, no more and no less.  That they hold *)
(* no others is what keeps a new block from having an owner already.       *)

\* The blocks that alloc() has created.
Created == {b \in Block : b <= m_iTotalMem}

\* The places of one session are disjoint.
Separate(i) ==
  /\ m_pResult[i] = m_pBuffer[i] => m_pResult[i] = NoBlock
  /\ m_pResult[i] \notin PlanBlocks(i) /\ m_pBuffer[i] \notin PlanBlocks(i)
  /\ Distinct(m_pPlan[i].blocks)

OwnInv ==
  /\ Distinct(freeBlocks)
  /\ \A i \in Slot : Separate(i) /\ Elems(freeBlocks) \cap Held(i) = {}
  /\ \A i, j \in Slot : i # j => Held(i) \cap Held(j) = {}
  /\ Elems(freeBlocks) \cup UNION {Held(i) : i \in Slot} = Created

\* The types that the proofs below use.
LEMMA BlockTypes ==
  ASSUME TypeOK, NEW i \in Slot
  PROVE  /\ freeBlocks \in Seq(BlockPtr)
         /\ m_iTotalMem \in Nat
         /\ m_pResult[i] \in BlockPtr /\ m_pBuffer[i] \in BlockPtr
         /\ m_pPlan[i].blocks \in Seq(Block)
         /\ m_pPlan[i].blocks \in Seq(BlockPtr)
         /\ \A k \in 1..Len(m_pPlan[i].blocks) : m_pPlan[i].blocks[k] \in Block
         /\ PlanBlocks(i) = Elems(m_pPlan[i].blocks)
<1>1. SessionTypeOK /\ PoolTypeOK
  BY DEF TypeOK
<1>2. m_pPlan[i].blocks \in Seq(Block)
  BY <1>1, PlanType
<1>3. \A k \in 1..Len(m_pPlan[i].blocks) : m_pPlan[i].blocks[k] \in Block
  BY <1>2
<1>4. NoBlock \notin Block
  BY Constants DEF Block, NoBlock
<1>5. QED
  BY <1>1, <1>2, <1>3, <1>4, Constants
  DEF SessionTypeOK, PoolTypeOK, BlockPtr, PlanBlocks, Elems

\* Whatever a step does to the free list and to session i, if they hold
\* together what they held, and a block that is created in the step, then no
\* other session is concerned.
LEMMA Exchange ==
  ASSUME OwnInv, NEW i \in Slot,
         \A j \in Slot : j # i => /\ m_pResult'[j] = m_pResult[j]
                                  /\ m_pBuffer'[j] = m_pBuffer[j]
                                  /\ m_pPlan'[j].blocks = m_pPlan[j].blocks,
         Distinct(freeBlocks)',
         Separate(i)',
         (Elems(freeBlocks) \cap Held(i))' = {},
         Created \subseteq Created',
         (Elems(freeBlocks) \cup Held(i))'
           = Elems(freeBlocks) \cup Held(i) \cup (Created' \ Created)
  PROVE  OwnInv'
<1>1. \A j \in Slot : j # i => Held(j)' = Held(j) /\ (Separate(j) => Separate(j)')
  BY DEF Held, Separate, PlanBlocks
<1>2. \A j \in Slot : Held(j) \subseteq Created
  BY DEF OwnInv
<1>3. ASSUME NEW j \in Slot, j # i
      PROVE  Elems(freeBlocks)' \cap Held(j)' = {} /\ Held(i)' \cap Held(j)' = {}
  BY <1>1, <1>2, <1>3 DEF OwnInv
<1>4. ASSUME NEW j \in Slot PROVE (Separate(j) /\ Elems(freeBlocks) \cap Held(j) = {})'
  BY <1>1, <1>3 DEF OwnInv
<1>5. ASSUME NEW j \in Slot, NEW k \in Slot, j # k PROVE Held(j)' \cap Held(k)' = {}
  BY <1>1, <1>3, <1>5 DEF OwnInv
<1>6. Elems(freeBlocks)' \cup UNION {Held(j)' : j \in Slot} = Created'
  <2>1. UNION {Held(j)' : j \in Slot} = Held(i)' \cup UNION {Held(j) : j \in Slot \ {i}}
    BY <1>1
  <2>2. UNION {Held(j) : j \in Slot} = Held(i) \cup UNION {Held(j) : j \in Slot \ {i}}
    OBVIOUS
  <2>3. Elems(freeBlocks) \cup Held(i) \cup UNION {Held(j) : j \in Slot \ {i}} = Created
    BY <2>2 DEF OwnInv
  <2> DEFINE F == Elems(freeBlocks)'
             H == Held(i)'
             O == UNION {Held(j) : j \in Slot \ {i}}
  <2>4. F \cup H \cup O = Elems(freeBlocks) \cup Held(i) \cup (Created' \ Created) \cup O
    OBVIOUS
  <2>5. F \cup H \cup O = Created \cup (Created' \ Created)
    BY <2>3, <2>4
  <2> QED
    BY <2>1, <2>5
<1>7. QED
  BY <1>4, <1>5, <1>6, Zenon DEF OwnInv

\* alloc(): the block it returns has left the free list or is new, and no
\* session holds it.
LEMMA AllocBlocks ==
  ASSUME TypeOK, OwnInv, AllocStep
  PROVE  LET b == AllocResult
             N == {b} \ {NoBlock}
         IN  /\ b \in BlockPtr
             /\ Distinct(freeBlocks)'
             /\ Elems(freeBlocks)' \cap N = {}
             /\ Elems(freeBlocks)' \subseteq Elems(freeBlocks)
             /\ \A i \in Slot : Held(i) \cap N = {}
             /\ Created \subseteq Created'
             /\ Elems(freeBlocks)' \cup N = Elems(freeBlocks) \cup (Created' \ Created)
<1> DEFINE b == AllocResult
           N == {b} \ {NoBlock}
<1>1. freeBlocks \in Seq(BlockPtr) /\ m_iTotalMem \in Nat /\ MaxBlocks \in Nat
  BY Constants DEF TypeOK, PoolTypeOK
<1>b. b \in BlockPtr
  BY AllocType DEF TypeOK
<1>2. CASE freeBlocks # <<>>
  <2>1. /\ b = Head(freeBlocks)
        /\ freeBlocks' = Tail(freeBlocks)
        /\ Created' = Created
    BY <1>2 DEF AllocResult, AllocStep, Created
  <2>2. /\ Distinct(Tail(freeBlocks))
        /\ Elems(freeBlocks) = Elems(Tail(freeBlocks)) \cup N
        /\ b \notin Elems(Tail(freeBlocks))
    BY <1>1, <1>2, <2>1, TailBlocks DEF OwnInv
  <2>3. /\ Distinct(freeBlocks)' = Distinct(Tail(freeBlocks))
        /\ Elems(freeBlocks)' = Elems(Tail(freeBlocks))
    BY <2>1 DEF Distinct, Elems
  <2>4. \A i \in Slot : Held(i) \cap N = {}
    BY <2>2 DEF OwnInv
  <2>5. QED
    BY <1>b, <2>1, <2>2, <2>3, <2>4
<1>3. CASE freeBlocks = <<>>
  <2>1. /\ freeBlocks' = freeBlocks
        /\ m_iTotalMem' = IF m_iTotalMem <= MaxBlocks THEN m_iTotalMem + 1 ELSE m_iTotalMem
        /\ b = IF m_iTotalMem < MaxBlocks THEN m_iTotalMem + 1 ELSE NoBlock
    BY <1>3 DEF AllocStep, AllocResult
  <2>2. Distinct(freeBlocks)' /\ Elems(freeBlocks)' = Elems(freeBlocks) /\ Elems(freeBlocks) = {}
    BY <1>3, <2>1 DEF Distinct, Elems, OwnInv
  <2>3. Created \subseteq Created' /\ Created' \ Created = N /\ Created \cap N = {}
    BY <1>1, <2>1 DEF Created, Block, NoBlock
  <2>4. \A i \in Slot : Held(i) \subseteq Created
    BY DEF OwnInv
  <2>5. QED
    BY <1>b, <2>2, <2>3, <2>4
<1>4. QED
  BY <1>2, <1>3

-----------------------------------------------------------------------------
(* What a step does to the memory of session i.                            *)

\* The memory of the other sessions is left alone.
OthersKeep(i) ==
  \A j \in Slot : j # i => /\ m_pResult'[j] = m_pResult[j]
                           /\ m_pBuffer'[j] = m_pBuffer[j]
                           /\ m_pPlan'[j].blocks = m_pPlan[j].blocks

\* No block moves.
Keeps ==
  /\ UNCHANGED poolVars
  /\ \A j \in Slot : /\ m_pResult'[j] = m_pResult[j]
                     /\ m_pBuffer'[j] = m_pBuffer[j]
                     /\ m_pPlan'[j].blocks = m_pPlan[j].blocks

\* The blocks of the plan go back to the pool.
Returns(i) ==
  /\ FreeAll(m_pPlan[i].blocks)
  /\ m_pPlan'[i].blocks = <<>>
  /\ m_pResult'[i] = m_pResult[i] /\ m_pBuffer'[i] = m_pBuffer[i]
  /\ OthersKeep(i)

\* The plan gets one more block; a refused one is not kept.
Grows(i) ==
  /\ AllocStep
  /\ m_pPlan'[i].blocks = IF AllocResult = NoBlock THEN m_pPlan[i].blocks
                          ELSE Append(m_pPlan[i].blocks, AllocResult)
  /\ m_pResult'[i] = m_pResult[i] /\ m_pBuffer'[i] = m_pBuffer[i]
  /\ OthersKeep(i)

\* A step that moves no block keeps the invariant.
LEMMA KeepsOwn ==
  ASSUME OwnInv, Keeps
  PROVE  OwnInv'
<1>1. \A j \in Slot : Held(j)' = Held(j) /\ Separate(j)' = Separate(j)
  BY DEF Keeps, Held, Separate, PlanBlocks
<1>2. UNION {Held(j)' : j \in Slot} = UNION {Held(j) : j \in Slot}
  BY <1>1
<1>3. /\ Elems(freeBlocks)' = Elems(freeBlocks)
      /\ Distinct(freeBlocks)' = Distinct(freeBlocks)
      /\ Created' = Created
  BY DEF Keeps, Elems, Distinct, Created, poolVars
<1>4. QED
  BY <1>1, <1>2, <1>3 DEF OwnInv

\* So does giving the blocks of a plan back: Resolve, SortPlan::begin, the end of an
\* execution.
LEMMA ReturnsOwn ==
  ASSUME TypeOK, OwnInv, NEW i \in Slot, Returns(i)
  PROVE  OwnInv'
<1> DEFINE bs == m_pPlan[i].blocks
<1>1. freeBlocks \in Seq(BlockPtr) /\ bs \in Seq(BlockPtr) /\ PlanBlocks(i) = Elems(bs)
  BY BlockTypes
<1>2. Distinct(freeBlocks) /\ Distinct(bs) /\ Elems(freeBlocks) \cap Elems(bs) = {}
  BY <1>1 DEF OwnInv, Separate, Held
<1>3. /\ Distinct(freeBlocks \o bs)
      /\ Elems(freeBlocks \o bs) = Elems(freeBlocks) \cup Elems(bs)
  BY <1>1, <1>2, ConcatBlocks
<1>4. freeBlocks' = freeBlocks \o bs /\ Created' = Created
  BY DEF Returns, FreeAll, Created
<1>5. /\ Distinct(freeBlocks)'
      /\ Elems(freeBlocks)' = Elems(freeBlocks) \cup Elems(bs)
  <2>1. Distinct(freeBlocks)' = Distinct(freeBlocks') /\ Elems(freeBlocks)' = Elems(freeBlocks')
    BY DEF Distinct, Elems
  <2>2. QED
    BY <1>3, <1>4, <2>1
<1>6. PlanBlocks(i)' = {} /\ Distinct(m_pPlan[i].blocks)'
  BY DEF Returns, PlanBlocks, Distinct
<1>7. Held(i)' = {m_pResult[i], m_pBuffer[i]} \ {NoBlock}
  BY <1>6 DEF Returns, Held
<1>8. Separate(i)'
  BY <1>6 DEF Separate, Returns, OwnInv
<1>9. (Elems(freeBlocks) \cap Held(i))' = {}
  BY <1>1, <1>5, <1>7 DEF OwnInv, Separate, Held
<1>10. (Elems(freeBlocks) \cup Held(i))' = Elems(freeBlocks) \cup Held(i) \cup (Created' \ Created)
  BY <1>1, <1>4, <1>5, <1>7 DEF Held
<1>11. QED
  BY <1>4, <1>5, <1>8, <1>9, <1>10, Exchange DEF Returns, OthersKeep

\* So does a sort that asks for one more block, granted or not.
LEMMA GrowsOwn ==
  ASSUME TypeOK, OwnInv, NEW i \in Slot, Grows(i)
  PROVE  OwnInv'
<1> DEFINE b == AllocResult
           N == {b} \ {NoBlock}
           bs == m_pPlan[i].blocks
<1>1. /\ b \in BlockPtr
      /\ Distinct(freeBlocks)'
      /\ Elems(freeBlocks)' \cap N = {}
      /\ Elems(freeBlocks)' \subseteq Elems(freeBlocks)
      /\ Held(i) \cap N = {}
      /\ Created \subseteq Created'
      /\ Elems(freeBlocks)' \cup N = Elems(freeBlocks) \cup (Created' \ Created)
  BY AllocBlocks DEF Grows
<1>2. bs \in Seq(BlockPtr) /\ PlanBlocks(i) = Elems(bs) /\ Distinct(bs)
  BY BlockTypes DEF OwnInv, Separate
<1>3. PlanBlocks(i)' = PlanBlocks(i) \cup N /\ Distinct(m_pPlan[i].blocks)'
  <2>1. CASE b = NoBlock
    BY <1>2, <2>1 DEF Grows, PlanBlocks, Distinct
  <2>2. CASE b # NoBlock
    <3>1. b \notin Elems(bs)
      BY <1>1, <1>2, <2>2 DEF Held
    <3>2. Distinct(Append(bs, b)) /\ Elems(Append(bs, b)) = Elems(bs) \cup N
      BY <1>1, <1>2, <3>1, AppendBlocks
    <3>3. m_pPlan'[i].blocks = Append(bs, b)
      BY <2>2 DEF Grows
    <3>4. Len(Append(bs, b)) = Len(bs) + 1 /\ \A k \in 1..(Len(bs) + 1) : Append(bs, b)[k] # NoBlock
      <4>1. \A k \in 1..Len(bs) : bs[k] # NoBlock
        BY BlockTypes, Constants DEF Block, NoBlock
      <4>2. QED
        BY <1>1, <1>2, <2>2, <4>1, AppendProperties
    <3>5. PlanBlocks(i)' = Elems(Append(bs, b))
      BY <3>3, <3>4 DEF PlanBlocks, Elems
    <3>6. Distinct(m_pPlan[i].blocks)' = Distinct(Append(bs, b))
      BY <3>3 DEF Distinct
    <3>7. QED
      BY <1>2, <3>2, <3>5, <3>6
  <2>3. QED
    BY <2>1, <2>2
<1>4. Held(i)' = Held(i) \cup N
  BY <1>3 DEF Held, Grows
<1>5. Separate(i)'
  BY <1>1, <1>3 DEF Separate, Grows, OwnInv, Held
<1>6. (Elems(freeBlocks) \cap Held(i))' = {}
  BY <1>1, <1>4 DEF OwnInv
<1>7. (Elems(freeBlocks) \cup Held(i))' = Elems(freeBlocks) \cup Held(i) \cup (Created' \ Created)
  BY <1>1, <1>4
<1>8. QED
  BY <1>1, <1>5, <1>6, <1>7, Exchange DEF Grows, OthersKeep

\* start() takes a block for a pointer that is null: m_pResult first, then
\* m_pBuffer.  A null pointer in the free list is taken, too.
LEMMA TakesOwn ==
  ASSUME TypeOK, OwnInv, NEW i \in Slot, AllocStep, OthersKeep(i),
         m_pPlan'[i].blocks = m_pPlan[i].blocks,
         \/ /\ m_pResult[i] = NoBlock /\ m_pResult'[i] = AllocResult
            /\ m_pBuffer'[i] = m_pBuffer[i]
         \/ /\ m_pBuffer[i] = NoBlock /\ m_pBuffer'[i] = AllocResult
            /\ m_pResult'[i] = m_pResult[i]
  PROVE  OwnInv'
<1> DEFINE b == AllocResult
           N == {b} \ {NoBlock}
<1>1. /\ b \in BlockPtr
      /\ Distinct(freeBlocks)'
      /\ Elems(freeBlocks)' \cap N = {}
      /\ Elems(freeBlocks)' \subseteq Elems(freeBlocks)
      /\ Held(i) \cap N = {}
      /\ Created \subseteq Created'
      /\ Elems(freeBlocks)' \cup N = Elems(freeBlocks) \cup (Created' \ Created)
  BY AllocBlocks
<1>2. PlanBlocks(i)' = PlanBlocks(i) /\ Distinct(m_pPlan[i].blocks)' = Distinct(m_pPlan[i].blocks)
  BY DEF PlanBlocks, Distinct
<1>3. NoBlock \notin PlanBlocks(i)
  BY BlockTypes DEF Elems
<1>4. Held(i)' = Held(i) \cup N
  BY <1>2 DEF Held
<1>5. Separate(i)'
  BY <1>1, <1>2, <1>3 DEF Separate, OwnInv, Held
<1>6. (Elems(freeBlocks) \cap Held(i))' = {}
  BY <1>1, <1>4 DEF OwnInv
<1>7. (Elems(freeBlocks) \cup Held(i))' = Elems(freeBlocks) \cup Held(i) \cup (Created' \ Created)
  BY <1>1, <1>4
<1>8. QED
  BY <1>1, <1>5, <1>6, <1>7, Exchange DEF OthersKeep

\* end() gives back the block of one pointer, which is null afterwards;
\* p is that pointer, the buffer's being given back even when it is null.
LEMMA GivesOwn ==
  ASSUME TypeOK, OwnInv, NEW i \in Slot, NEW p \in BlockPtr, Free(p), OthersKeep(i),
         m_pPlan'[i].blocks = m_pPlan[i].blocks,
         \/ /\ p = m_pResult[i] /\ m_pResult'[i] = NoBlock
            /\ m_pBuffer'[i] = m_pBuffer[i]
         \/ /\ p = m_pBuffer[i] /\ m_pBuffer'[i] = NoBlock
            /\ m_pResult'[i] = m_pResult[i]
  PROVE  OwnInv'
<1> DEFINE N == {p} \ {NoBlock}
<1>1. freeBlocks \in Seq(BlockPtr) /\ NoBlock \notin PlanBlocks(i)
  BY BlockTypes DEF Elems
<1>2. N \subseteq Held(i) /\ p \notin Elems(freeBlocks)
  BY DEF Held, OwnInv, Elems
<1>3. /\ Distinct(Append(freeBlocks, p))
      /\ Elems(Append(freeBlocks, p)) = Elems(freeBlocks) \cup N
  BY <1>1, <1>2, AppendBlocks DEF OwnInv
<1>4. freeBlocks' = Append(freeBlocks, p) /\ Created' = Created
  BY DEF Free, Created
<1>5. Distinct(freeBlocks)' /\ Elems(freeBlocks)' = Elems(freeBlocks) \cup N
  <2>1. Distinct(freeBlocks)' = Distinct(freeBlocks') /\ Elems(freeBlocks)' = Elems(freeBlocks')
    BY DEF Distinct, Elems
  <2>2. QED
    BY <1>3, <1>4, <2>1
<1>6. PlanBlocks(i)' = PlanBlocks(i) /\ Distinct(m_pPlan[i].blocks)' = Distinct(m_pPlan[i].blocks)
  BY DEF PlanBlocks, Distinct
<1>7. Separate(i) /\ Elems(freeBlocks) \cap Held(i) = {}
  BY DEF OwnInv
<1>8. Held(i)' = Held(i) \ N
  BY <1>1, <1>6, <1>7 DEF Held, Separate
<1>9. Separate(i)'
  BY <1>1, <1>6, <1>7 DEF Separate
<1>10. (Elems(freeBlocks) \cap Held(i))' = {}
  BY <1>5, <1>7, <1>8
<1>11. (Elems(freeBlocks) \cup Held(i))' = Elems(freeBlocks) \cup Held(i) \cup (Created' \ Created)
  BY <1>2, <1>4, <1>5, <1>8
<1>12. QED
  BY <1>4, <1>5, <1>9, <1>10, <1>11, Exchange DEF OthersKeep

-----------------------------------------------------------------------------
(* Which step does what.                                                   *)

\* Of the steps of the handlers, those of end() free a pointer, those that
\* replace or destroy a plan return its blocks, and a sort takes blocks.
LEMMA HandlerStepBlocks ==
  ASSUME TypeOK, NEW i \in Slot, HandlerStep(i)
  PROVE  EndParse(i) \/ EndBuffer(i) \/ Keeps \/ Returns(i) \/ Grows(i)
<1>p. m_pPlan \in [Slot -> Plan]
  BY DEF TypeOK, SessionTypeOK
<1>1. ASSUME UNCHANGED <<m_pResult, m_pBuffer, m_pPlan, freeBlocks, m_iTotalMem>> PROVE Keeps
  BY <1>1 DEF Keeps, poolVars
<1>2. ASSUME NEW q, q.blocks = <<>>, m_pPlan' = [m_pPlan EXCEPT ![i] = q],
             FreeAll(m_pPlan[i].blocks), UNCHANGED <<m_pResult, m_pBuffer>>
      PROVE  Returns(i)
  BY <1>p, <1>2 DEF Returns, OthersKeep
<1>3. ASSUME m_pPlan' = [m_pPlan EXCEPT ![i].row = @ + 1],
             UNCHANGED <<m_pResult, m_pBuffer, freeBlocks, m_iTotalMem>>
      PROVE  Keeps
  BY <1>p, <1>3 DEF Keeps, poolVars, Plan
<1>4. \A k : NewPlan(k).blocks = <<>>
  BY DEF NewPlan
<1>5. ASSUME NEW k, Resolve(i, k), UNCHANGED <<m_pResult, m_pBuffer>> PROVE Returns(i)
  <2> DEFINE q == NewPlan(IF k = "none" THEN "empty" ELSE k)
  <2>1. m_pPlan' = [m_pPlan EXCEPT ![i] = q] /\ FreeAll(m_pPlan[i].blocks)
    BY <1>5 DEF Resolve
  <2>2. q.blocks = <<>>
    BY <1>4
  <2> HIDE DEF q
  <2>3. QED
    BY <1>2, <1>5, <2>1, <2>2
<1>6. CASE UnknownMessage(i) \/ HandleStartup(i) \/ HandleSync(i) \/ HandleExecution(i)
  BY <1>1, <1>6 DEF UnknownMessage, HandleStartup, HandleSync, HandleExecution, ioFrame
<1>7. ASSUME NEW j \in Slot, HandleCancel(i, j) PROVE Keeps
  BY <1>1, <1>7 DEF HandleCancel, poolVars
<1>8. CASE HandleParse(i) \/ HandleDescription(i)
  BY <1>1, <1>8 DEF HandleParse, HandleDescription, poolVars
<1>9. CASE HandleQuery(i)
  BY <1>1, <1>5, <1>9 DEF HandleQuery, ResolveThrows, poolVars
<1>10. CASE HandleBind(i)
  BY <1>1, <1>5, <1>10 DEF HandleBind, ResolveThrows, poolVars
<1>11. CASE HandleExecutionBegin(i)
  BY <1>1, <1>2, <1>4, <1>11 DEF HandleExecutionBegin, Crash, poolVars
<1>12. CASE Sorting(i)
  <2>1. UNCHANGED <<m_pResult, m_pBuffer>>
    BY <1>12 DEF Sorting, execFrame
  <2>2. CASE UNCHANGED m_pPlan /\ UNCHANGED poolVars
    BY <1>1, <2>1, <2>2 DEF poolVars
  <2>3. CASE AllocStep /\ AllocResult = NoBlock /\ UNCHANGED m_pPlan
    BY <2>1, <2>3 DEF Grows, OthersKeep
  <2>4. CASE /\ AllocStep /\ AllocResult # NoBlock
             /\ m_pPlan' = [m_pPlan EXCEPT ![i].blocks = Append(@, AllocResult)]
    <3>1. /\ m_pPlan'[i].blocks = Append(m_pPlan[i].blocks, AllocResult)
          /\ \A j \in Slot : j # i => m_pPlan'[j] = m_pPlan[j]
      BY <1>p, <2>4 DEF Plan
    <3>2. QED
      BY <2>1, <2>4, <3>1 DEF Grows, OthersKeep
  <2>5. QED
    BY <1>12, <2>2, <2>3, <2>4 DEF Sorting
<1>13. CASE FirstNext(i) \/ HandleExecutionResult(i)
  BY <1>1, <1>3, <1>13 DEF FirstNext, HandleExecutionResult, execFrame, poolVars
<1>14. CASE BufferFull(i)
  BY <1>1, <1>14 DEF BufferFull, Crash, poolVars
<1>15. CASE HandleExecutionDone(i)
  BY <1>1, <1>2, <1>4, <1>15 DEF HandleExecutionDone, NoPlan, poolVars
<1>16. QED
  BY <1>6, <1>7, <1>8, <1>9, <1>10, <1>11, <1>12, <1>13, <1>14, <1>15 DEF HandlerStep

\* Every step keeps the invariant.
LEMMA NextOwnInv ==
  ASSUME TypeOK, SlotInv, PointersInv, OwnInv, [Next]_vars
  PROVE  OwnInv'
<1>t. /\ task \in [Slot -> SUBSET Task]
      /\ m_pResult \in [Slot -> BlockPtr]
      /\ m_pBuffer \in [Slot -> BlockPtr]
      /\ acceptor \in [state: {"ready", "listen", "busy"}, slot: Slot]
  BY DEF TypeOK, SessionTypeOK
<1>1. ASSUME UNCHANGED <<m_pResult, m_pBuffer, m_pPlan, freeBlocks, m_iTotalMem>> PROVE OwnInv'
  BY <1>1, KeepsOwn DEF Keeps, poolVars
<1>2. CASE UNCHANGED vars \/ Stop \/ CancelAll \/ Clear
  BY <1>1, <1>2 DEF Stop, CancelAll, Clear, vars, poolVars, sessionVars
<1>3. CASE StartAccept
  BY <1>1, <1>3 DEF StartAccept, poolVars
<1>4. ASSUME NEW i \in Slot, AcceptOk(i) PROVE OwnInv'
  <2>1. m_pResult[i] = NoBlock
    BY <1>t, <1>4 DEF AcceptOk, SlotInv, PointersInv, Pointers
  <2>2. AllocStep /\ m_pResult' = [m_pResult EXCEPT ![i] = AllocResult]
        /\ UNCHANGED <<m_pBuffer, m_pPlan>>
    BY <1>4 DEF AcceptOk, StartParse
  <2>3. m_pResult'[i] = AllocResult /\ OthersKeep(i)
    BY <1>t, <2>2 DEF OthersKeep
  <2>4. QED
    BY <2>1, <2>2, <2>3, TakesOwn
<1>5. ASSUME NEW i \in Slot, AcceptError(i) PROVE OwnInv'
  BY <1>1, <1>5 DEF AcceptError, poolVars
<1>6. ASSUME NEW i \in Slot, IoStep(i) PROVE OwnInv'
  BY <1>1, <1>6 DEF IoStep, ReadType, ReadLen, ReadData, IoError, WriteDone, ioFrame
<1>7. ASSUME NEW i \in Slot, EndParse(i) PROVE OwnInv'
  <2>1. /\ m_pResult' = [m_pResult EXCEPT ![i] = NoBlock]
        /\ UNCHANGED <<m_pBuffer, m_pPlan>>
    BY <1>7 DEF EndParse
  <2>2. m_pResult'[i] = NoBlock /\ OthersKeep(i) /\ m_pResult[i] \in BlockPtr
    BY <1>t, <2>1 DEF OthersKeep
  <2>3. CASE m_pResult[i] = NoBlock
    <3>1. UNCHANGED poolVars
      BY <1>7, <2>3 DEF EndParse
    <3>2. Keeps
      BY <2>1, <2>2, <2>3, <3>1 DEF Keeps, OthersKeep
    <3>3. QED
      BY <3>2, KeepsOwn
  <2>4. CASE m_pResult[i] # NoBlock
    <3>1. Free(m_pResult[i])
      BY <1>7, <2>4 DEF EndParse
    <3>2. QED
      BY <2>1, <2>2, <3>1, GivesOwn
  <2>5. QED
    BY <2>3, <2>4
<1>8. ASSUME NEW i \in Slot, EndBuffer(i) PROVE OwnInv'
  <2>1. /\ m_pBuffer' = [m_pBuffer EXCEPT ![i] = NoBlock]
        /\ UNCHANGED <<m_pResult, m_pPlan>>
        /\ Free(m_pBuffer[i])
    BY <1>8 DEF EndBuffer
  <2>2. m_pBuffer'[i] = NoBlock /\ OthersKeep(i) /\ m_pBuffer[i] \in BlockPtr
    BY <1>t, <2>1 DEF OthersKeep
  <2>3. QED
    BY <2>1, <2>2, GivesOwn
<1>9. ASSUME NEW i \in Slot, HandlerStep(i) PROVE OwnInv'
  BY <1>7, <1>8, <1>9, HandlerStepBlocks, KeepsOwn, ReturnsOwn, GrowsOwn
<1>10. ASSUME NEW i \in Slot, StartReturns(i) PROVE OwnInv'
  <2>1. CASE AllocResult = NoBlock
    BY <1>1, <1>10, <2>1 DEF StartReturns, StartBuffer, Crash, poolVars
  <2>2. CASE AllocResult # NoBlock
    <3>1. /\ "startBuffer" \in task[i] /\ AllocStep
          /\ m_pBuffer' = [m_pBuffer EXCEPT ![i] = AllocResult]
          /\ UNCHANGED <<m_pResult, m_pPlan>>
      BY <1>10, <2>2 DEF StartReturns, StartBuffer
    <3>2. m_pBuffer[i] = NoBlock
      BY <3>1 DEF PointersInv, Pointers
    <3>3. m_pBuffer'[i] = AllocResult /\ OthersKeep(i)
      BY <1>t, <3>1 DEF OthersKeep
    <3>4. QED
      BY <3>1, <3>2, <3>3, TakesOwn
  <2>3. QED
    BY <2>1, <2>2
<1>11. ASSUME NEW i \in Slot, EndReturns(i) PROVE OwnInv'
  BY <1>1, <1>11 DEF EndReturns, EndSlot, poolVars
<1>12. QED
  BY <1>2, <1>3, <1>4, <1>5, <1>6, <1>9, <1>10, <1>11 DEF Next, Terminated

\* The invariant holds in every reachable state.
THEOREM OwnTheorem == Spec => []OwnInv
<1>1. Init => OwnInv
  <2> SUFFICES ASSUME Init PROVE OwnInv
    OBVIOUS
  <2>1. Elems(freeBlocks) = {} /\ Distinct(freeBlocks) /\ Created = {}
    BY Constants DEF Init, PoolInit, Elems, Distinct, Created, Block
  <2>2. \A i \in Slot : PlanBlocks(i) = {} /\ Held(i) = {} /\ Separate(i)
    BY DEF Init, SessionInit, NoPlan, NewPlan, PlanBlocks, Held, Separate, Distinct
  <2>3. QED
    BY <2>1, <2>2 DEF OwnInv
<1>2. TypeOK /\ SlotInv /\ PointersInv /\ OwnInv /\ [Next]_vars => OwnInv'
  BY NextOwnInv
<1>3. QED
  BY <1>1, <1>2, TypeCorrect, SlotTheorem, PointersTheorem, PTL DEF Spec

\* No block has two owners, and none that is free has one: over any number of
\* sessions, failed allocations and plans that are replaced.
THEOREM BlocksTheorem == Spec => []BlocksOwnedOnce
<1>1. ASSUME TypeOK, OwnInv PROVE BlocksOwnedOnce
  <2>1. \A k \in 1..Len(freeBlocks), i \in Slot :
          freeBlocks[k] # NoBlock => freeBlocks[k] \notin Held(i)
    BY <1>1 DEF OwnInv, Elems
  <2>2. ASSUME NEW i \in Slot
        PROVE  \A k, l \in 1..Len(m_pPlan[i].blocks) :
                 m_pPlan[i].blocks[k] = m_pPlan[i].blocks[l] => k = l
    <3>1. \A k \in 1..Len(m_pPlan[i].blocks) : m_pPlan[i].blocks[k] # NoBlock
      BY <1>1, BlockTypes, Constants DEF Block, NoBlock
    <3>2. QED
      BY <1>1, <3>1 DEF OwnInv, Separate, Distinct
  <2>3. QED
    BY <1>1, <2>1, <2>2 DEF OwnInv, Separate, Distinct, BlocksOwnedOnce
<1>2. QED
  BY <1>1, TypeCorrect, OwnTheorem, PTL

\* No failure and no cancellation loses a block: what alloc() has created is on
\* the free list or held by a session.
THEOREM NoBlockLostTheorem == Spec => []NoBlockLost
<1>1. ASSUME OwnInv PROVE NoBlockLost
  <2>1. ASSUME NEW b \in Block, b <= m_iTotalMem
        PROVE  b \in Elems(freeBlocks) \/ \E i \in Slot : b \in Held(i)
    BY <1>1, <2>1 DEF OwnInv, Created
  <2>2. QED
    BY <2>1 DEF NoBlockLost, Elems
<1>2. QED
  BY <1>1, OwnTheorem, PTL

-----------------------------------------------------------------------------
(* Rows as sequences of messages.                                          *)

\* The rows behind the m-th, up to the n-th.
Run(m, n) == [k \in 1..(n - m) |-> m + k]

\* The first n rows, encoded.
LEMMA NumberedRows ==
  ASSUME NEW n \in Nat
  PROVE  /\ Numbered(n) \in Seq(Msg) /\ Len(Numbered(n)) = n
         /\ \A k \in 1..n : Numbered(n)[k] = <<"D", k>>
<1>1. \A k \in 1..n : k \in Nat /\ "D" \in {"K", "T", "D", "1", "2", "C", "E", "Z"}
  OBVIOUS
<1>2. \A k \in 1..n : <<"D", k>> \in Msg
  BY <1>1, Zenon DEF Msg
<1>3. Numbered(n) \in [1..n -> Msg]
  BY <1>2, Zenon DEF Numbered
<1>4. QED
  BY <1>3 DEF Numbered

\* The rows that wait in the writer, and their messages.
LEMMA RunRows ==
  ASSUME NEW m \in Nat, NEW n \in Nat, m <= n
  PROVE  /\ Run(m, n) \in Seq(Nat) /\ Len(Run(m, n)) = n - m
         /\ \A k \in 1..(n - m) : Run(m, n)[k] = m + k
         /\ Rows(Run(m, n)) \in Seq(Msg) /\ Len(Rows(Run(m, n))) = n - m
         /\ \A k \in 1..(n - m) : Rows(Run(m, n))[k] = <<"D", m + k>>
<1>4. n - m \in Nat /\ Run(m, n) \in [1..(n - m) -> Nat]
  BY DEF Run
<1>5. Run(m, n) \in Seq(Nat) /\ Len(Run(m, n)) = n - m
  BY <1>4
<1>6. \A k \in 1..(n - m) : Run(m, n)[k] = m + k
  BY DEF Run
<1>7. Rows(Run(m, n)) \in Seq(Msg)
  BY <1>5, RowsType
<1>8. Rows(Run(m, n)) = [k \in 1..(n - m) |-> <<"D", Run(m, n)[k]>>]
  BY <1>5 DEF Rows
<1>9. DOMAIN Rows(Run(m, n)) = 1..(n - m)
  BY <1>8, Zenon
<1>10. Len(Rows(Run(m, n))) = n - m
  BY <1>4, <1>7, <1>9, LenProperties
<1>11. \A k \in 1..(n - m) : Rows(Run(m, n))[k] = <<"D", m + k>>
  BY <1>6, <1>8
<1>12. QED
  BY <1>5, <1>6, <1>7, <1>10, <1>11

\* Writing the rows that wait continues the sequence of rows.
LEMMA RowsGoOn ==
  ASSUME NEW m \in Nat, NEW n \in Nat, m <= n
  PROVE  Numbered(m) \o Rows(Run(m, n)) = Numbered(n)
<1>1. /\ Numbered(m) \in Seq(Msg) /\ Len(Numbered(m)) = m
      /\ \A k \in 1..m : Numbered(m)[k] = <<"D", k>>
      /\ Numbered(n) \in Seq(Msg) /\ Len(Numbered(n)) = n
      /\ \A k \in 1..n : Numbered(n)[k] = <<"D", k>>
      /\ Rows(Run(m, n)) \in Seq(Msg) /\ Len(Rows(Run(m, n))) = n - m
      /\ \A k \in 1..(n - m) : Rows(Run(m, n))[k] = <<"D", m + k>>
  BY NumberedRows, RunRows
<1> DEFINE a == Numbered(m)
           b == Rows(Run(m, n))
           c == Numbered(n)
<1> HIDE DEF a, b, c
<1>2. a \in Seq(Msg) /\ b \in Seq(Msg) /\ c \in Seq(Msg) /\ Len(a) = m /\ Len(b) = n - m /\ Len(c) = n
  BY <1>1 DEF a, b, c
<1>3. /\ \A k \in 1..m : a[k] = <<"D", k>>
      /\ \A k \in 1..(n - m) : b[k] = <<"D", m + k>>
      /\ \A k \in 1..n : c[k] = <<"D", k>>
  BY <1>1 DEF a, b, c
<1> DEFINE d == a \o b
<1>4. /\ d \in Seq(Msg)
      /\ Len(d) = m + (n - m)
      /\ \A k \in 1..(m + (n - m)) : d[k] = IF k <= m THEN a[k] ELSE b[k - m]
  BY <1>2, ConcatProperties
<1> HIDE DEF d
<1>5. Len(d) = n /\ \A k \in 1..n : d[k] = IF k <= m THEN a[k] ELSE b[k - m]
  BY <1>4
<1>6. ASSUME NEW k \in 1..n PROVE d[k] = c[k]
  <2>1. CASE k <= m
    <3>1. k \in 1..m
      BY <2>1
    <3>2. QED
      BY <1>3, <1>5, <2>1, <3>1
  <2>2. CASE k > m
    <3>1. k - m \in 1..(n - m) /\ m + (k - m) = k
      BY <2>2
    <3>2. b[k - m] = <<"D", k>>
      BY <1>3, <3>1
    <3>3. ~(k <= m)
      BY <2>2
    <3>4. QED
      BY <1>3, <1>5, <3>2, <3>3
  <2>3. QED
    BY <2>1, <2>2
<1>7. d = c
  BY <1>2, <1>4, <1>5, <1>6, SeqEqual
<1>8. QED
  BY <1>7 DEF a, b, c, d

\* One more row is encoded.
LEMMA RunAppend ==
  ASSUME NEW m \in Nat, NEW n \in Nat, m <= n
  PROVE  Append(Run(m, n), n + 1) = Run(m, n + 1)
<1> DEFINE l == n + 1
           a == Run(m, n)
           c == Run(m, l)
<1>1. l \in Nat /\ m <= l /\ l - m = (n - m) + 1
  OBVIOUS
<1> HIDE DEF l
<1>2. a \in Seq(Nat) /\ Len(a) = n - m /\ \A k \in 1..(n - m) : a[k] = m + k
  BY RunRows
<1>3. c \in Seq(Nat) /\ Len(c) = l - m /\ \A k \in 1..(l - m) : c[k] = m + k
  BY <1>1, RunRows
<1> HIDE DEF a, c
<1> DEFINE e == Append(a, l)
<1>4. /\ e \in Seq(Nat)
      /\ Len(e) = (n - m) + 1
      /\ \A k \in 1..(n - m) : e[k] = a[k]
      /\ e[(n - m) + 1] = l
  BY <1>1, <1>2, AppendProperties
<1> HIDE DEF e
<1>5. \A k \in 1..((n - m) + 1) : e[k] = c[k]
  <2>1. ASSUME NEW k \in 1..((n - m) + 1) PROVE e[k] = c[k]
    <3>1. CASE k = (n - m) + 1
      <4>1. k \in 1..(l - m) /\ m + k = l
        BY <1>1, <3>1
      <4>2. c[k] = l
        BY <1>3, <4>1
      <4>3. QED
        BY <1>4, <3>1, <4>2
    <3>2. CASE k \in 1..(n - m)
      BY <1>1, <1>2, <1>3, <1>4, <3>2
    <3>3. QED
      BY <3>1, <3>2
  <2>2. QED
    BY <2>1
<1>6. e = c
  BY <1>1, <1>3, <1>4, <1>5, SeqEqual
<1>7. QED
  BY <1>6 DEF a, c, e, l

\* Nothing waits exactly when everything is written.
LEMMA RunEmpty ==
  ASSUME NEW m \in Nat, NEW n \in Nat, m <= n
  PROVE  /\ Run(m, n) = <<>> <=> m = n
         /\ Numbered(0) = <<>> /\ Rows(<<>>) = <<>>
<1>1. Run(m, n) \in Seq(Nat) /\ Len(Run(m, n)) = n - m
  BY RunRows
<1>2. Numbered(0) \in Seq(Msg) /\ Len(Numbered(0)) = 0
  BY NumberedRows
<1>3. Rows(<<>>) \in Seq(Msg) /\ Len(Rows(<<>>)) = 0
  <2>1. <<>> \in Seq(Nat) /\ Len(<<>>) = 0
    OBVIOUS
  <2>2. Rows(<<>>) \in Seq(Msg)
    BY <2>1, RowsType
  <2>3. Rows(<<>>) = [k \in 1..0 |-> <<"D", <<>>[k]>>]
    BY <2>1 DEF Rows
  <2>4. DOMAIN Rows(<<>>) = 1..0
    BY <2>3, Zenon
  <2>5. QED
    BY <2>2, <2>4, LenProperties
<1>4. \A S, s : s \in Seq(S) => (s = <<>> <=> Len(s) = 0)
  BY EmptySeq
<1>5. QED
  BY <1>1, <1>2, <1>3, <1>4

-----------------------------------------------------------------------------
(* Complete answers.                                                       *)

\* The parts of an answer are sequences of messages.
LEMMA AnswerParts ==
  /\ Error \in Seq(Msg) /\ Ready \in Seq(Msg) /\ RowDescription \in Seq(Msg)
  /\ <<<<"C", 0>>>> \in Seq(Msg) /\ <<<<"1", 0>>>> \in Seq(Msg) /\ <<<<"2", 0>>>> \in Seq(Msg)
  /\ <<>> \in Seq(Msg)
<1>1. \A x \in Msg : <<x>> \in Seq(Msg)
  OBVIOUS
<1>2. /\ <<"E", 0>> \in Msg /\ <<"Z", 0>> \in Msg /\ <<"T", 0>> \in Msg
      /\ <<"C", 0>> \in Msg /\ <<"1", 0>> \in Msg /\ <<"2", 0>> \in Msg
  BY MsgTypes2
<1>3. <<>> \in Seq(Msg)
  OBVIOUS
<1>4. QED
  BY <1>1, <1>2, <1>3 DEF Error, Ready, RowDescription

\* The complete answers to a query and to Execute that have n rows.
LEMMA ExpectedQuery ==
  ASSUME NEW i \in Slot, NEW n \in 0..MaxRows
  PROVE  /\ Error \o Ready \in Expected(i, "Q")
         /\ <<<<"C", 0>>>> \o Ready \in Expected(i, "Q")
         /\ RowDescription \o Numbered(n) \o <<<<"C", 0>>>> \o Ready \in Expected(i, "Q")
         /\ RowDescription \o Numbered(n) \o Error \o Ready \in Expected(i, "Q")
<1> DEFINE S(k) == {Error \o Ready, <<<<"C", 0>>>> \o Ready,
                    RowDescription \o Numbered(k) \o <<<<"C", 0>>>> \o Ready,
                    RowDescription \o Numbered(k) \o Error \o Ready}
<1>1. Expected(i, "Q") = UNION {S(k) : k \in 0..MaxRows}
  BY DEF Expected
<1>2. S(n) \in {S(k) : k \in 0..MaxRows}
  BY Zenon
<1>3. S(n) \subseteq Expected(i, "Q")
  BY <1>1, <1>2, Zenon
<1>4. QED
  BY <1>3, Zenon

\* The answers to Execute, after any number of rows
LEMMA ExpectedExecute ==
  ASSUME NEW i \in Slot, NEW n \in 0..MaxRows, NEW a \in Acks
  PROVE  /\ a \o <<<<"C", 0>>>> \in Expected(i, "E")
         /\ Numbered(n) \o a \o <<<<"C", 0>>>> \in Expected(i, "E")
         /\ Numbered(n) \o Error \in Expected(i, "E")
<1> DEFINE S(k, b) == {b \o <<<<"C", 0>>>>, Numbered(k) \o b \o <<<<"C", 0>>>>,
                       Numbered(k) \o Error}
<1>1. Expected(i, "E") = UNION {S(k, b) : k \in 0..MaxRows, b \in Acks}
  BY DEF Expected
<1>2. /\ a \o <<<<"C", 0>>>> \in S(n, a)
      /\ Numbered(n) \o a \o <<<<"C", 0>>>> \in S(n, a)
      /\ Numbered(n) \o Error \in S(n, a)
  BY Zenon
<1> HIDE DEF S
<1>3. S(n, a) \subseteq Expected(i, "E")
  BY <1>1
<1>4. QED
  BY <1>2, <1>3, Zenon

\* Messages may be sent one by one or together.
LEMMA SentTogether ==
  ASSUME NEW r \in Seq(Msg), NEW s \in Seq(Msg), NEW t \in Seq(Msg)
  PROVE  r \o (s \o t) = (r \o s) \o t
<1>1. (r \o s) \o t = r \o (s \o t)
  BY ConcatAssociative
<1>2. QED
  BY <1>1, Zenon

\* Both acknowledgements in one answer.
LEMMA TwoAcks == <<<<"1", 0>>>> \o <<<<"2", 0>>>> = <<<<"1", 0>>, <<"2", 0>>>>
<1> DEFINE x == <<"1", 0>>
           y == <<"2", 0>>
           a == <<x>>
           b == <<y>>
           c == <<x, y>>
<1>1. x \in Msg /\ y \in Msg
  BY MsgTypes2
<1> HIDE DEF x, y
<1>2. /\ a \in Seq(Msg) /\ Len(a) = 1 /\ a[1] = x
      /\ b \in Seq(Msg) /\ Len(b) = 1 /\ b[1] = y
      /\ c \in Seq(Msg) /\ Len(c) = 2 /\ c[1] = x /\ c[2] = y
  BY <1>1
<1> HIDE DEF a, b, c
<1> DEFINE d == a \o b
<1>3. /\ d \in Seq(Msg) /\ Len(d) = Len(a) + Len(b)
      /\ \A k \in 1..(Len(a) + Len(b)) : d[k] = IF k <= Len(a) THEN a[k] ELSE b[k - Len(a)]
  BY <1>2, ConcatProperties
<1> HIDE DEF d
<1>4. Len(d) = 2 /\ d[1] = x /\ d[2] = y
  BY <1>2, <1>3
<1>5. d = c
  <2>1. \A k \in 1..2 : d[k] = c[k]
    BY <1>2, <1>4
  <2>2. QED
    BY <1>2, <1>3, <1>4, <2>1, SeqEqual
<1>6. QED
  BY <1>5 DEF a, b, c, d, x, y

\* What the answer to a message begins with before an error or the end of an
\* execution: nothing, or m rows, after a row description for a query.
Begun(q, m, r) ==
  \/ r = <<>>
  \/ q = "Q" /\ r = RowDescription \o Numbered(m)
  \/ q = "E" /\ r = Numbered(m)

\* The end of the answer: ReadyForQuery for a query.
Ending(q) == IF q = "Q" THEN Ready ELSE <<>>

\* An answer that an error ends is complete.
LEMMA ErrorExpected ==
  ASSUME NEW i \in Slot, NEW q \in {"Q", "P", "B", "D", "E"}, NEW m \in 0..MaxRows, NEW r,
         Begun(q, m, r), q \in {"P", "B", "D"} => r = <<>>
  PROVE  r \o (Error \o Ending(q)) \in Expected(i, q)
<1>n. m \in Nat /\ Numbered(m) \in Seq(Msg)
  BY Constants, NumberedRows
<1>e. Error \o <<>> = Error /\ <<>> \o Error = Error /\ Error \o Ready \in Seq(Msg)
  BY AnswerParts, ConcatEmptySeq, ConcatProperties
<1>1. CASE q \in {"P", "B", "D"}
  <2>1. r \o (Error \o Ending(q)) = Error
    BY <1>1, <1>e DEF Ending
  <2>2. Error \in Expected(i, q)
    BY <1>1 DEF Expected
  <2>3. QED
    BY <2>1, <2>2
<1>2. CASE q = "Q" /\ r = <<>>
  <2>1. r \o (Error \o Ending(q)) = Error \o Ready
    BY <1>2, <1>e, ConcatEmptySeq DEF Ending
  <2>2. Error \o Ready \in Expected(i, "Q")
    BY ExpectedQuery
  <2>3. QED
    BY <1>2, <2>1, <2>2
<1>3. CASE q = "Q" /\ r = RowDescription \o Numbered(m)
  <2>1. r \in Seq(Msg)
    BY <1>n, <1>3, AnswerParts, ConcatProperties
  <2>2. r \o (Error \o Ready) = (r \o Error) \o Ready
    <3>1. Error \in Seq(Msg) /\ Ready \in Seq(Msg)
      BY AnswerParts
    <3>2. QED
      BY <2>1, <3>1, SentTogether, Zenon
  <2>3. RowDescription \o Numbered(m) \o Error \o Ready \in Expected(i, "Q")
    BY ExpectedQuery
  <2>4. QED
    BY <1>3, <2>2, <2>3 DEF Ending
<1>4. CASE q = "E" /\ (r = <<>> \/ r = Numbered(m))
  <2>1. PICK l \in 0..MaxRows : r = Numbered(l)
    <3>1. Numbered(0) = <<>> /\ 0 \in 0..MaxRows
      BY RunEmpty, Constants
    <3>2. QED
      BY <1>4, <3>1
  <2>2. r \o (Error \o Ending(q)) = Numbered(l) \o Error
    BY <1>4, <1>e, <2>1 DEF Ending
  <2>3. <<>> \in Acks
    BY DEF Acks
  <2>4. Numbered(l) \o Error \in Expected(i, "E")
    BY <2>3, ExpectedExecute
  <2>5. QED
    BY <1>4, <2>2, <2>4
<1>5. QED
  BY <1>1, <1>2, <1>3, <1>4 DEF Begun

\* An answer that the end of an execution ends is complete; what is owed for
\* Parse and Bind comes before the CommandComplete, and only for Execute.
LEMMA DoneExpected ==
  ASSUME NEW i \in Slot, NEW q \in {"Q", "E"}, NEW m \in 0..MaxRows, NEW r,
         Begun(q, m, r),
         NEW a \in {<<>>, <<<<"1", 0>>>>}, NEW b \in {<<>>, <<<<"2", 0>>>>},
         q = "Q" => a = <<>> /\ b = <<>>
  PROVE  r \o (((a \o b) \o <<<<"C", 0>>>>) \o Ending(q)) \in Expected(i, q)
<1> DEFINE c == <<<<"C", 0>>>>
           ab == a \o b
<1>c. c \in Seq(Msg) /\ a \in Seq(Msg) /\ b \in Seq(Msg)
  BY AnswerParts
<1>n. m \in Nat /\ Numbered(m) \in Seq(Msg)
  BY Constants, NumberedRows
<1>a. ab \in Acks /\ (a = <<>> /\ b = <<>> => ab = <<>>)
  <2>1. CASE a = <<>>
    BY <1>c, <2>1, ConcatEmptySeq, Zenon DEF Acks
  <2>2. CASE b = <<>>
    BY <1>c, <2>2, ConcatEmptySeq, Zenon DEF Acks
  <2>3. CASE a = <<<<"1", 0>>>> /\ b = <<<<"2", 0>>>>
    <3>1. ab = <<<<"1", 0>>, <<"2", 0>>>>
      BY <2>3, TwoAcks, Zenon
    <3>2. a # <<>>
      BY <2>3
    <3>3. QED
      BY <3>1, <3>2, Zenon DEF Acks
  <2>4. QED
    BY <2>1, <2>2, <2>3
<1>s. ab \in Seq(Msg)
  BY <1>c, ConcatProperties
<1>r. r \in Seq(Msg)
  BY <1>n, AnswerParts, ConcatProperties DEF Begun
<1>q. (c \o Ready) \in Seq(Msg) /\ ab \o c \in Seq(Msg)
  BY <1>c, <1>s, AnswerParts, ConcatProperties
<1>1. CASE q = "Q"
  <2>1. (ab \o c) \o Ending(q) = c \o Ready
    <3>1. ab \o c = c
      BY <1>a, <1>c, <1>1, ConcatEmptySeq
    <3>2. QED
      BY <1>1, <3>1 DEF Ending
  <2>2. CASE r = <<>>
    <3>1. r \o (c \o Ready) = c \o Ready
      BY <1>q, <2>2, ConcatEmptySeq
    <3>2. <<<<"C", 0>>>> \o Ready \in Expected(i, "Q")
      BY ExpectedQuery
    <3>3. QED
      BY <1>1, <2>1, <3>1, <3>2
  <2>3. CASE r = RowDescription \o Numbered(m)
    <3>1. r \o (c \o Ready) = (r \o c) \o Ready
      <4>1. Ready \in Seq(Msg)
        BY AnswerParts
      <4> HIDE DEF c
      <4>2. QED
        BY <1>c, <1>r, <4>1, SentTogether, Zenon
    <3>2. RowDescription \o Numbered(m) \o <<<<"C", 0>>>> \o Ready \in Expected(i, "Q")
      BY ExpectedQuery
    <3>3. QED
      BY <1>1, <2>1, <2>3, <3>1, <3>2
  <2>4. QED
    BY <1>1, <2>2, <2>3 DEF Begun
<1>2. CASE q = "E"
  <2>1. (ab \o c) \o Ending(q) = ab \o c
    BY <1>q, <1>2, ConcatEmptySeq DEF Ending
  <2>2. CASE r = <<>>
    <3>1. r \o (ab \o c) = ab \o c
      BY <1>q, <2>2, ConcatEmptySeq
    <3>2. ab \o <<<<"C", 0>>>> \in Expected(i, "E")
      BY <1>a, ExpectedExecute
    <3>3. QED
      BY <1>2, <2>1, <3>1, <3>2
  <2>3. CASE r = Numbered(m)
    <3>1. r \o (ab \o c) = (r \o ab) \o c
      BY <1>c, <1>s, <1>r, SentTogether, Zenon
    <3>2. Numbered(m) \o ab \o <<<<"C", 0>>>> \in Expected(i, "E")
      BY <1>a, ExpectedExecute
    <3>3. QED
      BY <1>2, <2>1, <2>3, <3>1, <3>2
  <2>4. QED
    BY <1>2, <2>2, <2>3 DEF Begun
<1>3. QED
  BY <1>1, <1>2

\* The answers to the messages that execute nothing.
LEMMA OthersExpected ==
  ASSUME NEW i \in Slot
  PROVE  /\ <<>> \o <<<<"K", i>>, <<"Z", 0>>>> \in Expected(i, "0")
         /\ <<>> \o Ready \in Expected(i, "S")
         /\ <<>> \in Expected(i, "P") /\ <<>> \in Expected(i, "B") /\ <<>> \in Expected(i, "D")
         /\ <<>> \o RowDescription \in Expected(i, "D")
<1>1. <<>> \o Ready = Ready /\ <<>> \o RowDescription = RowDescription
  BY AnswerParts, ConcatEmptySeq
<1>2. <<>> \o <<<<"K", i>>, <<"Z", 0>>>> = <<<<"K", i>>>> \o Ready
  BY DEF Ready
<1>3. QED
  BY <1>1, <1>2 DEF Expected

-----------------------------------------------------------------------------
(* What is written and what waits while a plan of kind k is executed for a *)
(* message of type q.                                                      *)

Columned == {"scan", "sort", "explain"}

\* What n rows look like, and the row description that a query begins with.
Header(q) == IF q = "Q" THEN RowDescription ELSE <<>>
Written(q, k, n) == IF k \in Columned THEN Header(q) \o Numbered(n) ELSE <<>>
Waiting(k, m, n) == IF k \in Columned THEN Run(m, n) ELSE <<>>

\* Before the first row there is the row description of a query, and rows that
\* are written one after the other begin an answer.
LEMMA WrittenBegins ==
  ASSUME NEW q \in {"Q", "E"}, NEW k, NEW n \in Nat
  PROVE  /\ Written(q, k, n) \in Seq(Msg)
         /\ Written(q, k, 0) = IF q = "Q" /\ k \in Columned THEN RowDescription ELSE <<>>
         /\ Begun(q, n, Written(q, k, n))
<1>1. /\ Numbered(n) \in Seq(Msg) /\ Numbered(0) = <<>>
      /\ Header(q) \in Seq(Msg) /\ <<>> \in Seq(Msg)
  BY NumberedRows, RunEmpty, AnswerParts DEF Header
<1>2. Header(q) \o Numbered(n) \in Seq(Msg)
  BY <1>1, ConcatProperties
<1>3. Header(q) \o <<>> = Header(q) /\ <<>> \o Numbered(n) = Numbered(n)
  BY <1>1, ConcatEmptySeq
<1>4. Written(q, k, n) \in Seq(Msg)
  BY <1>1, <1>2, Zenon DEF Written
<1>5. Written(q, k, 0) = IF q = "Q" /\ k \in Columned THEN RowDescription ELSE <<>>
  BY <1>1, <1>3, Zenon DEF Written, Header
<1>6. Begun(q, n, Written(q, k, n))
  <2>1. CASE k \notin Columned
    BY <2>1, Zenon DEF Begun, Written
  <2>2. CASE q = "Q"
    BY <2>2, Zenon DEF Begun, Written, Header
  <2>3. CASE q = "E" /\ k \in Columned
    <3>1. Header(q) = <<>>
      BY <2>3 DEF Header
    <3>2. Written(q, k, n) = Numbered(n)
      BY <1>3, <2>3, <3>1, Zenon DEF Written
    <3>3. QED
      BY <2>3, <3>2, Zenon DEF Begun
  <2>4. QED
    BY <2>1, <2>2, <2>3
<1>7. QED
  BY <1>4, <1>5, <1>6, Zenon

\* Writing the rows that wait continues the answer.
LEMMA WritesOn ==
  ASSUME NEW q \in {"Q", "E"}, NEW k, NEW m \in Nat, NEW n \in Nat, m <= n
  PROVE  Written(q, k, m) \o Rows(Waiting(k, m, n)) = Written(q, k, n)
<1>1. Header(q) \in Seq(Msg) /\ <<>> \in Seq(Msg)
  BY AnswerParts DEF Header
<1>2. CASE k \in Columned
  <2>1. Numbered(m) \in Seq(Msg)
    BY NumberedRows
  <2>2. Rows(Run(m, n)) \in Seq(Msg)
    BY RunRows
  <2>3. Header(q) \o (Numbered(m) \o Rows(Run(m, n)))
          = (Header(q) \o Numbered(m)) \o Rows(Run(m, n))
    BY <1>1, <2>1, <2>2, SentTogether, Zenon
  <2>4. Numbered(m) \o Rows(Run(m, n)) = Numbered(n)
    BY RowsGoOn, Zenon
  <2>5. QED
    BY <1>2, <2>3, <2>4, Zenon DEF Written, Waiting
<1>3. CASE k \notin Columned
  <2>1. <<>> \o <<>> = <<>>
    BY <1>1, ConcatEmptySeq
  <2>2. Rows(<<>>) = <<>>
    BY RunEmpty
  <2>3. QED
    BY <1>3, <2>1, <2>2, Zenon DEF Written, Waiting
<1>4. QED
  BY <1>2, <1>3

\* One more row is encoded, or none waits.
LEMMA WaitsOn ==
  ASSUME NEW k, NEW m \in Nat, NEW n \in Nat, m <= n
  PROVE  /\ k \in Columned => Append(Waiting(k, m, n), n + 1) = Waiting(k, m, n + 1)
         /\ Waiting(k, m, n) = <<>> <=> (k \notin Columned \/ m = n)
<1>1. Append(Run(m, n), n + 1) = Run(m, n + 1)
  BY RunAppend, Zenon
<1>2. Run(m, n) = <<>> <=> m = n
  BY RunEmpty, Zenon
<1>3. QED
  BY <1>1, <1>2, Zenon DEF Waiting

-----------------------------------------------------------------------------
(* The inductive invariant: what task t of session i says about its answer *)
(* to a message of type q, about the cursor of its plan, of kind k, and    *)
(* about the rows ns that wait in the writer; r is what has been sent.     *)

Quiet == {"free", "accept", "startBuffer", "readLen", "readData", "dispatch",
          "writeLen", "endBuffer", "endSlot"}
Executing == {"writeBegin", "begin", "sorting", "first", "result", "writeResult",
              "writeDone", "done"}

Answered(i, t, q, k, row, ns, r) ==
  /\ row <= MaxRows
  /\ t # "result" => ns = <<>>
  /\ t \in Quiet => r = <<>>
  /\ t \in {"writeType", "readType"} => r \in Expected(i, q)
  /\ t \in Executing => q \in {"Q", "E"}
  /\ t \in {"writeBegin", "begin", "sorting", "first"} => r = Written(q, k, 0)
  /\ t \in {"sorting", "first"} => row = 0
  /\ t \in {"result", "writeResult"} =>
       \E m \in 0..(row - 1) : r = Written(q, k, m) /\ ns = Waiting(k, m, row - 1)
  /\ t = "writeResult" => k \in Columned /\ row >= 2
  /\ t \in {"writeDone", "done"} => r = Written(q, k, row)

At(i, t) == Answered(i, t, m_qtype[i], m_pPlan[i].kind, m_pPlan[i].row, prepared[i], reply[i])

\* ParseComplete and BindComplete are never owed while a query is executed.
Owes(i) ==
  m_qtype[i] = "Q" /\ task[i] \cap Executing # {} => ~m_bParsed[i] /\ ~m_bBinded[i]

Answering(i) ==
  /\ task[i] = {} => At(i, "free")
  /\ \A t \in task[i] : At(i, t)
  /\ Owes(i)

AnswersInv == \A i \in Slot : Answering(i)

-----------------------------------------------------------------------------
(* The steps of a session, one by one.                                     *)

\* A session that goes on to u satisfies the invariant if u does.
LEMMA GoesOn ==
  ASSUME TypeOK, OneTaskPerSession, NEW i \in Slot, NEW t, NEW u, t \in task[i], Goto(i, t, u)
  PROVE  /\ task[i] = {t} /\ task'[i] = {u}
         /\ At(i, u)' /\ Owes(i)' => Answering(i)'
<1>1. task[i] = {t}
  BY DEF OneTaskPerSession
<1>2. task'[i] = {u}
  BY <1>1 DEF Goto, TypeOK, SessionTypeOK
<1>3. ASSUME At(i, u)', Owes(i)' PROVE Answering(i)'
  BY <1>2, <1>3 DEF Answering
<1>4. QED
  BY <1>1, <1>2, <1>3

\* What is owed when the handlers leave the two flags alone: an execution that
\* goes on was allowed to, and otherwise nothing is said.
LEMMA OwesGoesOn ==
  ASSUME TypeOK, OneTaskPerSession, NEW i \in Slot, Owes(i),
         NEW t, NEW u, t \in task[i], Goto(i, t, u),
         u \in Executing => t \in Executing /\ UNCHANGED <<m_qtype, m_bParsed, m_bBinded>>
  PROVE  Owes(i)'
<1>1. task[i] = {t} /\ task'[i] = {u}
  BY GoesOn
<1>2. QED
  BY <1>1 DEF Owes

\* The tasks that execute nothing.
LEMMA TaskKinds ==
  /\ {"writeType", "readType", "endParse"} \cap (Quiet \cup Executing) = {}
  /\ Quiet \cap Executing = {}
  /\ "result" \notin Quiet
BY DEF Quiet, Executing

\* An error is answered completely, wherever the handler was.
LEMMA ThrowAnswers ==
  ASSUME TypeOK, OneTaskPerSession, NEW i \in Slot, NEW t \in Executing \cup {"dispatch"},
         t \in task[i], Throw(i, t), At(i, t), Owes(i), UNCHANGED m_qtype,
         m_pPlan'[i].row <= MaxRows,
         t = "dispatch" => m_qtype[i] \in {"Q", "P", "B", "D"},
         t \in {"begin", "sorting", "first", "result", "done", "dispatch"}
  PROVE  Answering(i)'
<1> DEFINE q == m_qtype[i]
           r == reply[i]
           k == m_pPlan[i].kind
           row == m_pPlan[i].row
<1>t. row \in Nat /\ r \in Seq(Msg) /\ reply \in [Slot -> Seq(Msg)] /\ prepared \in [Slot -> Seq(Nat)]
  BY PlanType DEF TypeOK, SessionTypeOK
<1>a. Answered(i, t, q, k, row, prepared[i], r)
  BY DEF At
<1>q. q \in {"Q", "P", "B", "D", "E"} /\ (q \in {"P", "B", "D"} => t = "dispatch")
  BY <1>a DEF Answered
<1>1. PICK m \in 0..MaxRows : Begun(q, m, r) /\ (t = "dispatch" => r = <<>>)
  <2>1. CASE t = "dispatch"
    <3>1. r = <<>>
      BY <1>a, <2>1 DEF Answered, Quiet
    <3>2. 0 \in 0..MaxRows
      BY Constants
    <3>3. QED
      BY <3>1, <3>2 DEF Begun
  <2>2. CASE t # "dispatch"
    <3>q. q \in {"Q", "E"}
      BY <1>a, <2>2 DEF Answered
    <3>1. CASE t \in {"begin", "sorting", "first"}
      <4>1. r = Written(q, k, 0)
        BY <1>a, <3>1 DEF Answered
      <4>2. 0 \in 0..MaxRows /\ 0 \in Nat
        BY Constants
      <4>3. QED
        BY <2>2, <3>q, <4>1, <4>2, WrittenBegins
    <3>2. CASE t = "result"
      <4>1. PICK l \in 0..(row - 1) : r = Written(q, k, l)
        BY <1>a, <3>2 DEF Answered
      <4>2. l \in 0..MaxRows /\ l \in Nat
        BY <1>a, <1>t, <4>1, Constants DEF Answered
      <4>3. QED
        BY <2>2, <3>q, <4>1, <4>2, WrittenBegins
    <3>3. CASE t = "done"
      <4>1. r = Written(q, k, row)
        BY <1>a, <3>3 DEF Answered
      <4>2. row \in 0..MaxRows /\ row \in Nat
        BY <1>a, <1>t, Constants DEF Answered
      <4>3. QED
        BY <2>2, <3>q, <4>1, <4>2, WrittenBegins
    <3>4. QED
      BY <2>2, <3>1, <3>2, <3>3
  <2>3. QED
    BY <2>1, <2>2
<1>2. r \o (Error \o Ending(q)) \in Expected(i, q)
  BY <1>1, <1>q, ErrorExpected
<1>3. reply'[i] = r \o (<<<<"E", 0>>>> \o Sync(i))
  BY <1>t, Zenon DEF Throw, Send
<1>4. <<<<"E", 0>>>> \o Sync(i) = Error \o Ending(q)
  BY Zenon DEF Error, Sync, Ending, Ready
<1>5. reply'[i] \in Expected(i, q)
  BY <1>2, <1>3, <1>4, Zenon
<1>6. prepared'[i] = <<>>
  BY <1>t, Zenon DEF Throw
<1>7. At(i, "writeType")'
  BY <1>5, <1>6, TaskKinds DEF At, Answered
<1>8. Owes(i)'
  BY OwesGoesOn, TaskKinds DEF Throw
<1>9. QED
  BY <1>7, <1>8, GoesOn DEF Throw

\* Completing a read or a write continues the answer where it stopped.
LEMMA IoAnswers ==
  ASSUME TypeOK, OneTaskPerSession, NEW i \in Slot, Answering(i), IoStep(i)
  PROVE  Answering(i)'
<1>f. UNCHANGED <<m_pPlan, prepared, m_bParsed, m_bBinded>>
  BY DEF IoStep, ReadType, ReadLen, ReadData, IoError, WriteDone, ioFrame
<1>t. reply \in [Slot -> Seq(Msg)] /\ m_qtype \in [Slot -> MsgType \cup {"0"}]
  BY DEF TypeOK, SessionTypeOK
<1>1. ASSUME NEW c \in MsgTypes, ReadType(i, c) PROVE Answering(i)'
  <2>1. "readType" \in task[i] /\ Goto(i, "readType", IF c = "X" THEN "endParse" ELSE "readLen")
    BY <1>1 DEF ReadType
  <2>2. At(i, "readType")
    BY <2>1 DEF Answering
  <2>3. reply'[i] = <<>>
    BY <1>t, <1>1 DEF ReadType
  <2>4. At(i, IF c = "X" THEN "endParse" ELSE "readLen")'
    BY <1>f, <2>2, <2>3 DEF At, Answered, Quiet, Executing
  <2>5. Owes(i)'
    BY <2>1, TaskKinds, OwesGoesOn DEF Answering, Quiet
  <2>6. QED
    BY <2>1, <2>4, <2>5, GoesOn
<1>2. ASSUME NEW t \in ReadTask \cup WriteTask, NEW u, t \in task[i], Goto(i, t, u),
             UNCHANGED <<m_qtype, reply>>,
             \/ u = "endParse"
             \/ t \in {"readLen", "readData"} /\ u \in {"readData", "dispatch"}
             \/ t \in WriteTask /\ u = AfterWrite[t]
      PROVE  Answering(i)'
  <2>1. At(i, t)
    BY <1>2 DEF Answering
  <2>2. \/ u = "endParse"
        \/ t \in {"readLen", "readData", "writeLen"} /\ u \in {"readData", "dispatch", "readLen"}
        \/ t = "writeType" /\ u = "readType"
        \/ t = "writeBegin" /\ u = "begin"
        \/ t = "writeResult" /\ u = "result"
        \/ t = "writeDone" /\ u = "done"
    BY <1>2 DEF WriteTask, AfterWrite
  <2>3. At(i, u)'
    <3>1. CASE u = "endParse"
      BY <1>f, <1>2, <2>1, <3>1 DEF At, Answered, Quiet, Executing, ReadTask, WriteTask
    <3>2. CASE t \in {"readLen", "readData", "writeLen"} /\ u \in {"readData", "dispatch", "readLen"}
      BY <1>f, <1>2, <2>1, <3>2 DEF At, Answered, Quiet, Executing
    <3>3. CASE t = "writeType" /\ u = "readType"
      BY <1>f, <1>2, <2>1, <3>3 DEF At, Answered, Quiet, Executing
    <3>4. CASE t = "writeBegin" /\ u = "begin"
      BY <1>f, <1>2, <2>1, <3>4 DEF At, Answered, Quiet, Executing
    <3>5. CASE t = "writeResult" /\ u = "result"
      BY <1>f, <1>2, <2>1, <3>5 DEF At, Answered, Quiet, Executing
    <3>6. CASE t = "writeDone" /\ u = "done"
      BY <1>f, <1>2, <2>1, <3>6 DEF At, Answered, Quiet, Executing
    <3>7. QED
      BY <2>2, <3>1, <3>2, <3>3, <3>4, <3>5, <3>6
  <2>4. u \in Executing => t \in Executing
    BY <2>2, TaskKinds DEF Executing
  <2>5. Owes(i)'
    BY <1>f, <1>2, <2>4, OwesGoesOn DEF Answering
  <2>6. QED
    BY <1>2, <2>3, <2>5, GoesOn
<1>3. CASE ReadLen(i)
  BY <1>2, <1>3 DEF ReadLen, ReadTask
<1>4. CASE ReadData(i)
  BY <1>2, <1>4 DEF ReadData, ReadTask
<1>5. ASSUME NEW t \in ReadTask \cup WriteTask, IoError(i, t) PROVE Answering(i)'
  BY <1>2, <1>5 DEF IoError
<1>6. ASSUME NEW t \in WriteTask, WriteDone(i, t) PROVE Answering(i)'
  BY <1>2, <1>6 DEF WriteDone
<1>7. QED
  BY <1>1, <1>3, <1>4, <1>5, <1>6 DEF IoStep

\* A message that executes nothing is answered at once; a query and Execute
\* begin an execution with nothing but a row description.
LEMMA MessageAnswers ==
  ASSUME TypeOK, OneTaskPerSession, NEW i \in Slot, Answering(i),
         \/ UnknownMessage(i) \/ HandleStartup(i) \/ HandleSync(i) \/ HandleQuery(i)
         \/ HandleParse(i) \/ HandleBind(i) \/ HandleDescription(i) \/ HandleExecution(i)
         \/ \E j \in Slot : HandleCancel(i, j)
  PROVE  Answering(i)'
<1>t. /\ reply \in [Slot -> Seq(Msg)] /\ prepared \in [Slot -> Seq(Nat)]
      /\ m_pPlan \in [Slot -> Plan] /\ m_pPlan[i].row \in Nat
      /\ m_bParsed \in [Slot -> BOOLEAN] /\ m_bBinded \in [Slot -> BOOLEAN]
  BY PlanType DEF TypeOK, SessionTypeOK
<1>d. "dispatch" \in task[i] /\ UNCHANGED m_qtype
  BY DEF UnknownMessage, HandleStartup, HandleSync, HandleQuery, HandleParse, HandleBind,
         HandleDescription, HandleExecution, HandleCancel, Dispatch
<1>a. At(i, "dispatch") /\ reply[i] = <<>> /\ prepared[i] = <<>> /\ m_pPlan[i].row <= MaxRows
  BY <1>d DEF Answering, At, Answered, Quiet
<1>s. ASSUME NEW ms, Send(i, ms) PROVE reply'[i] = <<>> \o ms
  BY <1>t, <1>a, <1>s, Zenon DEF Send
\* a step to a task that executes nothing
<1>g. ASSUME NEW u \in Quiet \cup {"writeType", "readType", "endParse"}, Goto(i, "dispatch", u),
             prepared'[i] = <<>>, m_pPlan'[i].row <= MaxRows,
             u \in Quiet => reply'[i] = <<>>,
             u \in {"writeType", "readType"} => reply'[i] \in Expected(i, m_qtype[i])
      PROVE  Answering(i)'
  <2>0. u \notin Executing
    BY <1>g, TaskKinds
  <2>1. At(i, u)'
    BY <1>d, <1>g, <2>0 DEF At, Answered, Executing
  <2>2. Owes(i)'
    BY <1>d, <1>g, TaskKinds, OwesGoesOn DEF Answering
  <2>3. QED
    BY <1>d, <1>g, <2>1, <2>2, GoesOn
<1>n. {"writeLen"} \subseteq Quiet
  BY DEF Quiet
<1>p. ASSUME NEW f, m_pPlan' = [m_pPlan EXCEPT ![i] = NewPlan(f)]
      PROVE  m_pPlan'[i].kind = f /\ m_pPlan'[i].row = 0 /\ m_pPlan'[i].row <= MaxRows
  BY <1>t, <1>p, Constants DEF NewPlan
<1>r. ASSUME NEW f, Resolve(i, f)
      PROVE  m_pPlan'[i].row = 0 /\ m_pPlan'[i].row <= MaxRows
  BY <1>p, <1>r DEF Resolve
\* a step that throws
<1>e. ASSUME Throw(i, "dispatch"), m_qtype[i] \in {"Q", "P", "B", "D"}, m_pPlan'[i].row <= MaxRows
      PROVE  Answering(i)'
  BY <1>a, <1>d, <1>e, ThrowAnswers DEF Answering
<1>1. CASE UnknownMessage(i)
  BY <1>a, <1>g, <1>1 DEF UnknownMessage, ioFrame, Quiet
<1>2. CASE HandleStartup(i)
  <2>1. m_qtype[i] = "0" /\ UNCHANGED <<m_pPlan, prepared>>
    BY <1>2 DEF HandleStartup, Dispatch, ioFrame
  <2>2. CASE \E u \in {"writeLen", "endParse"} : Goto(i, "dispatch", u) /\ UNCHANGED reply
    BY <1>a, <1>g, <1>n, <2>1, <2>2, TaskKinds
  <2>3. CASE Goto(i, "dispatch", "writeType") /\ Send(i, <<<<"K", i>>, <<"Z", 0>>>>)
    <3>1. reply'[i] \in Expected(i, "0")
      BY <1>s, <2>3, OthersExpected, Zenon
    <3>2. QED
      BY <1>a, <1>g, <2>1, <2>3, <3>1, TaskKinds
  <2>4. QED
    BY <1>2, <2>2, <2>3 DEF HandleStartup
<1>3. CASE \E j \in Slot : HandleCancel(i, j)
  BY <1>a, <1>g, <1>3, TaskKinds DEF HandleCancel
<1>4. CASE HandleSync(i)
  <2>1. reply'[i] \in Expected(i, "S")
    <3>1. Send(i, Ready)
      BY <1>4, Zenon DEF HandleSync, Ready
    <3>2. QED
      BY <1>s, <3>1, OthersExpected, Zenon
  <2>2. QED
    BY <1>a, <1>g, <1>4, <2>1, TaskKinds DEF HandleSync, Dispatch, ioFrame
<1>5. CASE HandleParse(i)
  <2>1. CASE Throw(i, "dispatch")
    BY <1>a, <1>e, <1>5, <2>1 DEF HandleParse, Dispatch
  <2>2. CASE Goto(i, "dispatch", "readType") /\ UNCHANGED <<reply, prepared>>
    BY <1>a, <1>g, <1>5, <2>2, TaskKinds, OthersExpected DEF HandleParse, Dispatch
  <2>3. QED
    BY <1>5, <2>1, <2>2 DEF HandleParse
<1>6. CASE HandleBind(i)
  <2>0. m_qtype[i] = "B" /\ m_pPlan'[i].row <= MaxRows
    BY <1>a, <1>r, <1>6 DEF HandleBind, Dispatch, ResolveThrows
  <2>1. CASE Throw(i, "dispatch")
    BY <1>e, <2>0, <2>1
  <2>2. CASE Goto(i, "dispatch", "readType") /\ UNCHANGED <<reply, prepared>>
    BY <1>a, <1>g, <2>0, <2>2, TaskKinds, OthersExpected
  <2>3. QED
    BY <1>6, <2>1, <2>2 DEF HandleBind
<1>7. CASE HandleDescription(i)
  <2>0. m_qtype[i] = "D" /\ UNCHANGED m_pPlan
    BY <1>7 DEF HandleDescription, Dispatch
  <2>1. CASE Throw(i, "dispatch")
    BY <1>a, <1>e, <2>0, <2>1
  <2>2. CASE Goto(i, "dispatch", "readType") /\ UNCHANGED <<reply, prepared>>
    BY <1>a, <1>g, <2>0, <2>2, TaskKinds, OthersExpected
  <2>3. CASE Goto(i, "dispatch", "writeType") /\ Send(i, RowDescription) /\ UNCHANGED prepared
    <3>1. reply'[i] \in Expected(i, "D")
      BY <1>s, <2>3, OthersExpected, Zenon
    <3>2. QED
      BY <1>a, <1>g, <2>0, <2>3, <3>1, TaskKinds
  <2>4. QED
    BY <1>7, <2>1, <2>2, <2>3, Zenon DEF HandleDescription, RowDescription
<1>8. CASE HandleExecution(i)
  <2>1. m_qtype[i] = "E" /\ Goto(i, "dispatch", "begin")
        /\ UNCHANGED <<m_qtype, reply, m_pPlan, prepared>>
    BY <1>8 DEF HandleExecution, Dispatch, ioFrame
  <2>2. Written("E", m_pPlan[i].kind, 0) = <<>>
    BY WrittenBegins
  <2>3. At(i, "begin")'
    BY <1>a, <2>1, <2>2, TaskKinds DEF At, Answered, Quiet
  <2>4. Owes(i)'
    BY <2>1 DEF Owes
  <2>5. QED
    BY <1>d, <2>1, <2>3, <2>4, GoesOn
<1>9. CASE HandleQuery(i)
  <2>0. m_qtype[i] = "Q"
    BY <1>9 DEF HandleQuery, Dispatch
  <2>1. CASE Throw(i, "dispatch")
    <3>1. m_pPlan'[i].row <= MaxRows
      BY <1>a, <1>r, <1>9 DEF HandleQuery, ResolveThrows
    <3>2. QED
      BY <1>e, <2>0, <2>1, <3>1
  <2>2. CASE ~Throw(i, "dispatch")
    <3>1. /\ m_pPlan'[i].row = 0
          /\ m_bParsed' = [m_bParsed EXCEPT ![i] = FALSE]
          /\ m_bBinded' = [m_bBinded EXCEPT ![i] = FALSE]
          /\ \/ /\ m_pPlan'[i].kind \in Columned
                /\ Goto(i, "dispatch", "writeBegin")
                /\ Send(i, RowDescription)
             \/ /\ m_pPlan'[i].kind \notin Columned
                /\ Goto(i, "dispatch", "begin")
                /\ UNCHANGED reply
          /\ UNCHANGED prepared
      BY <1>r, <1>9, <2>2 DEF HandleQuery, HasColumns, RowDescription, Columned
    <3>2. Written("Q", m_pPlan'[i].kind, 0)
            = IF m_pPlan'[i].kind \in Columned THEN RowDescription ELSE <<>>
      BY WrittenBegins
    <3>3. Owes(i)'
      BY <1>t, <3>1 DEF Owes
    <3>4. CASE m_pPlan'[i].kind \in Columned
      <4>1. reply'[i] = RowDescription /\ Goto(i, "dispatch", "writeBegin")
        BY <1>s, <3>1, <3>4, AnswerParts, ConcatEmptySeq
      <4>2. At(i, "writeBegin")'
        BY <1>a, <1>d, <2>0, <3>1, <3>2, <3>4, <4>1, Constants, TaskKinds DEF At, Answered, Quiet
      <4>3. QED
        BY <1>d, <3>3, <4>1, <4>2, GoesOn
    <3>5. CASE m_pPlan'[i].kind \notin Columned
      <4>1. At(i, "begin")'
        BY <1>a, <1>d, <2>0, <3>1, <3>2, <3>5, Constants, TaskKinds DEF At, Answered, Quiet
      <4>2. QED
        BY <1>d, <3>1, <3>3, <3>5, <4>1, GoesOn
    <3>6. QED
      BY <3>4, <3>5
  <2>3. QED
    BY <2>1, <2>2
<1>10. QED
  BY <1>1, <1>2, <1>3, <1>4, <1>5, <1>6, <1>7, <1>8, <1>9

\* Every row is sent once and in order, over any number of suspensions, and
\* the end of the execution completes the answer.
LEMMA ExecutionAnswers ==
  ASSUME TypeOK, OneTaskPerSession, NEW i \in Slot, Answering(i),
         \/ HandleExecutionBegin(i) \/ Sorting(i) \/ FirstNext(i) \/ BufferFull(i)
         \/ HandleExecutionResult(i) \/ HandleExecutionDone(i)
  PROVE  Answering(i)'
<1> DEFINE q == m_qtype[i]
           r == reply[i]
           k == m_pPlan[i].kind
           row == m_pPlan[i].row
           ns == prepared[i]
<1>t. /\ reply \in [Slot -> Seq(Msg)] /\ prepared \in [Slot -> Seq(Nat)]
      /\ m_pPlan \in [Slot -> Plan] /\ row \in Nat
      /\ m_bParsed \in [Slot -> BOOLEAN] /\ m_bBinded \in [Slot -> BOOLEAN]
  BY PlanType DEF TypeOK, SessionTypeOK
<1>x. UNCHANGED m_qtype
  BY DEF HandleExecutionBegin, Sorting, FirstNext, BufferFull, HandleExecutionResult,
         HandleExecutionDone, execFrame, Crash
<1>h. HasColumns(m_pPlan[i]) <=> k \in Columned
  BY DEF HasColumns, Columned
\* what the current task says
<1>a. ASSUME NEW t \in Executing, t \in task[i]
      PROVE  At(i, t) /\ Answered(i, t, q, k, row, ns, r) /\ q \in {"Q", "E"} /\ row <= MaxRows
  BY <1>a DEF Answering, At, Answered
<1>b. ASSUME NEW t \in {"begin", "sorting", "first"}, t \in task[i]
      PROVE  r = Written(q, k, 0) /\ ns = <<>> /\ (t # "begin" => row = 0)
  <2>1. t \in Executing
    BY DEF Executing
  <2>2. QED
    BY <1>a, <1>b, <2>1 DEF Answered
<1>c. ASSUME "result" \in task[i]
      PROVE  \E m \in 0..(row - 1) : r = Written(q, k, m) /\ ns = Waiting(k, m, row - 1)
  BY <1>a, <1>c DEF Answered, Executing
\* a step within the execution, and one that throws
<1>g. ASSUME NEW t \in Executing, NEW u \in Executing, t \in task[i], Goto(i, t, u),
             UNCHANGED <<m_bParsed, m_bBinded>>, At(i, u)'
      PROVE  Answering(i)'
  <2>1. Owes(i)'
    BY <1>x, <1>g, OwesGoesOn DEF Answering
  <2>2. QED
    BY <1>g, <2>1, GoesOn
<1>s. ASSUME UNCHANGED <<task, reply, prepared, m_bParsed, m_bBinded>>,
             m_pPlan'[i].kind = k, m_pPlan'[i].row = row
      PROVE  Answering(i)'
  BY <1>x, <1>s DEF Answering, At, Owes
<1>e. ASSUME NEW t \in {"begin", "sorting", "first", "result", "done"}, t \in task[i],
             Throw(i, t), m_pPlan'[i].row <= MaxRows
      PROVE  Answering(i)'
  <2>1. t \in Executing /\ t # "dispatch"
    BY DEF Executing
  <2>2. QED
    BY <1>x, <1>e, <2>1, ThrowAnswers DEF Answering
<1>1. CASE HandleExecutionBegin(i)
  <2>0. "begin" \in task[i]
    BY <1>1 DEF HandleExecutionBegin
  <2>1. CASE k = "none"
    BY <1>s, <1>1, <2>1 DEF HandleExecutionBegin, Crash
  <2>2. CASE k # "none"
    <3>1. m_pPlan'[i].kind = k /\ m_pPlan'[i].row = 0 /\ UNCHANGED <<m_bParsed, m_bBinded>>
      BY <1>t, <1>1, <2>2 DEF HandleExecutionBegin, NewPlan
    <3>2. CASE Throw(i, "begin")
      BY <1>e, <2>0, <3>1, <3>2, Constants
    <3>3. ASSUME NEW u \in {"sorting", "first"}, Goto(i, "begin", u), UNCHANGED <<reply, prepared>>
          PROVE  Answering(i)'
      <4>1. r = Written(q, k, 0) /\ ns = <<>> /\ q \in {"Q", "E"}
        BY <1>a, <1>b, <2>0 DEF Executing
      <4>2. At(i, u)'
        BY <1>x, <3>1, <3>3, <4>1, Constants DEF At, Answered, Quiet
      <4>3. QED
        BY <1>g, <2>0, <3>1, <3>3, <4>2 DEF Executing
    <3>4. QED
      BY <1>1, <2>2, <3>2, <3>3 DEF HandleExecutionBegin
  <2>3. QED
    BY <2>1, <2>2
<1>2. CASE Sorting(i)
  <2>0. "sorting" \in task[i] /\ UNCHANGED <<m_bParsed, m_bBinded>>
    BY <1>2 DEF Sorting, execFrame
  <2>1. m_pPlan'[i].kind = k /\ m_pPlan'[i].row = row
    BY <1>t, <1>2 DEF Sorting, Plan
  <2>2. row <= MaxRows /\ r = Written(q, k, 0) /\ ns = <<>> /\ q \in {"Q", "E"} /\ row = 0
    BY <1>a, <1>b, <2>0 DEF Executing
  <2>3. CASE Throw(i, "sorting")
    BY <1>e, <2>0, <2>1, <2>2, <2>3
  <2>4. CASE UNCHANGED <<task, reply, prepared>>
    BY <1>s, <2>0, <2>1, <2>4
  <2>5. CASE Goto(i, "sorting", "first") /\ UNCHANGED <<reply, prepared>>
    <3>1. At(i, "first")'
      BY <1>x, <2>1, <2>2, <2>5 DEF At, Answered, Quiet
    <3>2. QED
      BY <1>g, <2>0, <2>5, <3>1 DEF Executing
  <2>6. QED
    BY <1>2, <2>3, <2>4, <2>5 DEF Sorting
<1>3. CASE FirstNext(i)
  <2>0. "first" \in task[i] /\ UNCHANGED <<m_bParsed, m_bBinded>>
    BY <1>3 DEF FirstNext, execFrame
  <2>1. row <= MaxRows /\ r = Written(q, k, 0) /\ ns = <<>> /\ q \in {"Q", "E"} /\ row = 0
    BY <1>a, <1>b, <2>0 DEF Executing
  <2>2. CASE Throw(i, "first") /\ UNCHANGED m_pPlan
    BY <1>e, <2>0, <2>1, <2>2
  <2>3. CASE /\ "row" \in NextOutcome(i) /\ m_pPlan' = [m_pPlan EXCEPT ![i].row = @ + 1]
             /\ Goto(i, "first", "result") /\ UNCHANGED <<reply, prepared>>
    <3>1. m_pPlan'[i].kind = k /\ m_pPlan'[i].row = 1 /\ 1 <= MaxRows
      BY <1>t, <2>1, <2>3, Constants DEF NextOutcome, Plan
    <3>2. Waiting(k, 0, 0) = <<>>
      <4>1. 0 \in Nat /\ 0 <= 0
        OBVIOUS
      <4>2. QED
        BY <4>1, WaitsOn, Zenon
    <3>3. \E m \in 0..(1 - 1) : r = Written(q, k, m) /\ ns = Waiting(k, m, 1 - 1)
      BY <2>1, <3>2
    <3>4. At(i, "result")'
      BY <1>x, <2>1, <2>3, <3>1, <3>3 DEF At, Answered, Quiet
    <3>5. QED
      BY <1>g, <2>0, <2>3, <3>4 DEF Executing
  <2>4. CASE Goto(i, "first", "done") /\ UNCHANGED <<m_pPlan, reply, prepared>>
    <3>1. At(i, "done")'
      BY <1>x, <2>1, <2>4 DEF At, Answered, Quiet
    <3>2. QED
      BY <1>g, <2>0, <2>4, <3>1 DEF Executing
  <2>5. QED
    BY <1>3, <2>2, <2>3, <2>4 DEF FirstNext
<1>4. CASE BufferFull(i)
  <2>0. "result" \in task[i] /\ k \in Columned
    BY <1>h, <1>4 DEF BufferFull
  <2>1. PICK m \in 0..(row - 1) : r = Written(q, k, m) /\ ns = Waiting(k, m, row - 1)
    BY <1>c, <2>0
  <2>2. /\ row <= MaxRows /\ q \in {"Q", "E"}
        /\ m \in Nat /\ row - 1 \in Nat /\ m <= row - 1
    BY <1>a, <1>t, <2>0, <2>1 DEF Executing
  <2>3. CASE ns = <<>>
    BY <1>s, <1>4, <2>3 DEF BufferFull, Crash
  <2>4. CASE ns # <<>>
    <3>1. /\ Goto(i, "result", "writeResult") /\ reply'[i] = r \o Rows(ns) /\ prepared'[i] = <<>>
          /\ UNCHANGED <<m_pPlan, m_bParsed, m_bBinded>>
      BY <1>t, <1>4, <2>4, Zenon DEF BufferFull, Send
    <3>2. m # row - 1
      BY <2>1, <2>2, <2>4, WaitsOn
    <3>3. row >= 2 /\ row - 1 \in 0..(row - 1)
      BY <1>t, <2>2, <3>2
    <3> DEFINE l == row - 1
    <3>l. l \in Nat /\ m <= l /\ l <= l /\ ns = Waiting(k, m, l)
      BY <2>1, <2>2
    <3> HIDE DEF l, q, k, r, ns
    <3>4. reply'[i] = Written(q, k, l)
      <4>1. Written(q, k, m) \o Rows(Waiting(k, m, l)) = Written(q, k, l)
        BY <2>2, <3>l, WritesOn
      <4>2. QED
        BY <2>1, <3>1, <3>l, <4>1, Zenon
    <3>5. Waiting(k, l, l) = <<>>
      BY <2>2, <3>l, WaitsOn
    <3> USE DEF l, q, k, r, ns
    <3>6. At(i, "writeResult")'
      BY <1>x, <2>0, <2>2, <3>1, <3>3, <3>4, <3>5 DEF At, Answered, Quiet
    <3>7. QED
      BY <1>g, <2>0, <3>1, <3>6 DEF Executing
  <2>5. QED
    BY <2>3, <2>4
<1>5. CASE HandleExecutionResult(i)
  <2>0. "result" \in task[i] /\ UNCHANGED <<m_bParsed, m_bBinded>>
    BY <1>5 DEF HandleExecutionResult, execFrame
  <2>1. PICK m \in 0..(row - 1) : r = Written(q, k, m) /\ ns = Waiting(k, m, row - 1)
    BY <1>c, <2>0
  <2>2. /\ row <= MaxRows /\ q \in {"Q", "E"}
        /\ m \in Nat /\ row - 1 \in Nat /\ m <= row - 1 /\ (row - 1) + 1 = row /\ m <= row
    BY <1>a, <1>t, <2>0, <2>1 DEF Executing
  <2>3. Encoded(i) = Waiting(k, m, row)
    <3>1. CASE k \in Columned
      <4>1. Append(Waiting(k, m, row - 1), row) = Waiting(k, m, row)
        <5> DEFINE l == row - 1
        <5>1. l \in Nat /\ m \in Nat /\ m <= l /\ l + 1 = row
          BY <2>2
        <5> HIDE DEF l, q, k, r, ns
        <5>2. Append(Waiting(k, m, l), l + 1) = Waiting(k, m, l + 1)
          BY <3>1, <5>1, WaitsOn
        <5>3. QED
          BY <5>1, <5>2 DEF l, row
      <4>2. QED
        BY <1>h, <2>1, <3>1, <4>1, Zenon DEF Encoded
    <3>2. CASE k \notin Columned
      <4>1. Waiting(k, m, row - 1) = <<>> /\ Waiting(k, m, row) = <<>>
        BY <3>2, Zenon DEF Waiting
      <4>2. QED
        BY <1>h, <2>1, <3>2, <4>1, Zenon DEF Encoded
    <3>3. QED
      BY <3>1, <3>2
  <2>4. CASE Throw(i, "result") /\ UNCHANGED m_pPlan
    BY <1>e, <2>0, <2>2, <2>4
  <2>5. CASE /\ "row" \in NextOutcome(i) /\ m_pPlan' = [m_pPlan EXCEPT ![i].row = @ + 1]
             /\ prepared' = [prepared EXCEPT ![i] = Encoded(i)] /\ UNCHANGED <<task, reply>>
    <3>1. m_pPlan'[i].kind = k /\ m_pPlan'[i].row = row + 1 /\ row + 1 <= MaxRows
      BY <1>t, <2>2, <2>5, Constants DEF NextOutcome, Plan
    <3>2. prepared'[i] = Waiting(k, m, row)
      BY <1>t, <2>3, <2>5
    <3>3. (row + 1) - 1 = row /\ m \in 0..row
      BY <1>t, <2>2
    <3>4. \E l \in 0..((row + 1) - 1) :
             reply'[i] = Written(q, k, l) /\ prepared'[i] = Waiting(k, l, (row + 1) - 1)
      BY <2>1, <2>5, <3>2, <3>3
    <3>5. At(i, "result")'
      BY <1>x, <2>2, <3>1, <3>4 DEF At, Answered, Quiet
    <3>6. task'[i] = {"result"}
      BY <2>0, <2>5 DEF OneTaskPerSession
    <3>7. Owes(i)'
      BY <1>x, <2>0, <2>5 DEF Owes, Answering
    <3>8. QED
      BY <3>5, <3>6, <3>7 DEF Answering
  <2>6. CASE /\ Goto(i, "result", IF Encoded(i) = <<>> THEN "done" ELSE "writeDone")
             /\ Send(i, Rows(Encoded(i))) /\ prepared' = [prepared EXCEPT ![i] = <<>>]
             /\ UNCHANGED m_pPlan
    <3>1. reply'[i] = r \o Rows(Waiting(k, m, row)) /\ prepared'[i] = <<>>
      BY <1>t, <2>3, <2>6, Zenon DEF Send
    <3>2. reply'[i] = Written(q, k, row)
      <4> HIDE DEF q, k, r, ns, row
      <4>1. Written(q, k, m) \o Rows(Waiting(k, m, row)) = Written(q, k, row)
        BY <1>t, <2>2, WritesOn
      <4>2. QED
        BY <2>1, <3>1, <4>1, Zenon
    <3>3. ASSUME NEW u \in {"done", "writeDone"}, Goto(i, "result", u) PROVE Answering(i)'
      <4>1. At(i, u)'
        BY <1>x, <2>2, <2>6, <3>1, <3>2, <3>3 DEF At, Answered, Quiet
      <4>2. QED
        BY <1>g, <2>0, <3>3, <4>1 DEF Executing
    <3>4. QED
      BY <2>6, <3>3
  <2>7. QED
    BY <1>5, <2>4, <2>5, <2>6 DEF HandleExecutionResult
<1>6. CASE HandleExecutionDone(i)
  <2>0. "done" \in task[i]
    BY <1>6 DEF HandleExecutionDone
  <2>1. /\ row <= MaxRows /\ q \in {"Q", "E"} /\ r = Written(q, k, row) /\ ns = <<>>
        /\ row \in 0..MaxRows
    <3>1. Answered(i, "done", q, k, row, ns, r) /\ row <= MaxRows /\ q \in {"Q", "E"}
      BY <1>a, <2>0 DEF Executing
    <3>2. QED
      BY <1>t, <3>1, Constants DEF Answered
  <2>2. CASE Throw(i, "done") /\ UNCHANGED m_pPlan
    BY <1>e, <2>0, <2>1, <2>2
  <2>3. CASE ~(Throw(i, "done") /\ UNCHANGED m_pPlan)
    <3> DEFINE a == IF m_bParsed[i] THEN <<<<"1", 0>>>> ELSE <<>>
               b == IF m_bBinded[i] THEN <<<<"2", 0>>>> ELSE <<>>
    <3>1. /\ m_pPlan' = [m_pPlan EXCEPT ![i] = NoPlan]
          /\ Send(i, a \o b \o <<<<"C", 0>>>> \o Sync(i))
          /\ Goto(i, "done", "writeType") /\ UNCHANGED prepared
      BY <1>6, <2>3, Zenon DEF HandleExecutionDone
    <3>2. reply'[i] = r \o (((a \o b) \o <<<<"C", 0>>>>) \o Ending(q))
      BY <1>t, <3>1, Zenon DEF Send, Sync, Ending, Ready
    <3>3. q = "Q" => ~m_bParsed[i] /\ ~m_bBinded[i]
      BY <2>0 DEF Answering, Owes, Executing
    <3>4. q = "Q" => a = <<>> /\ b = <<>>
      BY <3>3
    <3>5. a \in {<<>>, <<<<"1", 0>>>>} /\ b \in {<<>>, <<<<"2", 0>>>>}
      BY Zenon
    <3>6. Begun(q, row, r)
      BY <1>t, <2>1, WrittenBegins
    <3> HIDE DEF a, b
    <3>7. reply'[i] \in Expected(i, q)
      <4> HIDE DEF q, r, row
      <4>1. r \o (((a \o b) \o <<<<"C", 0>>>>) \o Ending(q)) \in Expected(i, q)
        BY <2>1, <3>4, <3>5, <3>6, DoneExpected
      <4>2. QED
        BY <3>2, <4>1
    <3>8. m_pPlan'[i].row = 0 /\ prepared'[i] = <<>>
      BY <1>t, <2>1, <3>1 DEF NoPlan, NewPlan
    <3>9. At(i, "writeType")'
      BY <1>x, <3>7, <3>8, Constants, TaskKinds DEF At, Answered
    <3>10. Owes(i)'
      BY <2>0, <3>1, TaskKinds, OwesGoesOn DEF Answering
    <3>11. QED
      BY <2>0, <3>1, <3>9, <3>10, GoesOn
  <2>4. QED
    BY <2>2, <2>3
<1>7. QED
  BY <1>1, <1>2, <1>3, <1>4, <1>5, <1>6

-----------------------------------------------------------------------------
(* Every step of the server.                                               *)

\* What answering session j depends on does not change.
Alone(j) ==
  /\ task'[j] = task[j]
  /\ m_qtype'[j] = m_qtype[j]
  /\ m_pPlan'[j].kind = m_pPlan[j].kind /\ m_pPlan'[j].row = m_pPlan[j].row
  /\ m_bParsed'[j] = m_bParsed[j] /\ m_bBinded'[j] = m_bBinded[j]
  /\ prepared'[j] = prepared[j] /\ reply'[j] = reply[j]

\* A session that is left alone goes on with its answer.
LEMMA AloneAnswers ==
  ASSUME NEW j \in Slot, Answering(j), Alone(j)
  PROVE  Answering(j)'
BY DEF Answering, At, Owes, Alone

\* A step of session i leaves every other session alone.
LEMMA StepAlone ==
  ASSUME TypeOK, NEW i \in Slot, NEW j \in Slot, j # i, IoStep(i) \/ HandlerStep(i)
  PROVE  Alone(j)
<1>t. /\ task \in [Slot -> SUBSET Task] /\ m_qtype \in [Slot -> MsgType \cup {"0"}]
      /\ m_pPlan \in [Slot -> Plan]
      /\ m_bParsed \in [Slot -> BOOLEAN] /\ m_bBinded \in [Slot -> BOOLEAN]
      /\ prepared \in [Slot -> Seq(Nat)] /\ reply \in [Slot -> Seq(Msg)]
  BY DEF TypeOK, SessionTypeOK
<1>1. CASE IoStep(i)
  <2>1. UNCHANGED <<m_pPlan, m_bParsed, m_bBinded, prepared>>
    BY <1>1 DEF IoStep, ReadType, ReadLen, ReadData, IoError, WriteDone, ioFrame
  <2>2. m_qtype'[j] = m_qtype[j] /\ reply'[j] = reply[j]
    BY <1>t, <1>1 DEF IoStep, ReadType, ReadLen, ReadData, IoError, WriteDone
  <2>3. task'[j] = task[j]
    BY <1>t, <1>1 DEF IoStep, ReadType, ReadLen, ReadData, IoError, WriteDone, Goto
  <2>4. QED
    BY <2>1, <2>2, <2>3 DEF Alone
<1>r. ASSUME NEW k, Resolve(i, k) PROVE m_pPlan'[j] = m_pPlan[j]
  BY <1>t, <1>r DEF Resolve
<1>2. CASE EndParse(i) \/ EndBuffer(i) \/ UnknownMessage(i) \/ HandleStartup(i)
           \/ HandleSync(i) \/ HandleExecution(i)
  BY <1>t, <1>2 DEF EndParse, EndBuffer, UnknownMessage, HandleStartup, HandleSync,
                    HandleExecution, ioFrame, Goto, Send, Alone
<1>3. ASSUME NEW l \in Slot, HandleCancel(i, l) PROVE Alone(j)
  BY <1>t, <1>3 DEF HandleCancel, Goto, Alone
<1>4. CASE HandleQuery(i)
  <2>1. m_pPlan'[j] = m_pPlan[j]
    BY <1>r, <1>4 DEF HandleQuery, ResolveThrows
  <2>2. m_bParsed'[j] = m_bParsed[j] /\ m_bBinded'[j] = m_bBinded[j] /\ UNCHANGED m_qtype
    BY <1>t, <1>4 DEF HandleQuery
  <2>3. task'[j] = task[j] /\ prepared'[j] = prepared[j] /\ reply'[j] = reply[j]
    BY <1>t, <1>4 DEF HandleQuery, Throw, Goto, Send
  <2>4. QED
    BY <2>1, <2>2, <2>3 DEF Alone
<1>5. CASE HandleParse(i)
  BY <1>t, <1>5 DEF HandleParse, Throw, Goto, Send, Alone
<1>6. CASE HandleBind(i)
  <2>1. m_pPlan'[j] = m_pPlan[j]
    BY <1>r, <1>6 DEF HandleBind, ResolveThrows
  <2>2. QED
    BY <1>t, <1>6, <2>1 DEF HandleBind, Throw, Goto, Send, Alone
<1>7. CASE HandleDescription(i)
  BY <1>t, <1>7 DEF HandleDescription, Throw, Goto, Send, Alone
<1>8. CASE HandleExecutionBegin(i) \/ Sorting(i)
  BY <1>t, <1>8 DEF HandleExecutionBegin, Sorting, execFrame, Crash, Throw, Goto, Send, Alone
<1>9. CASE FirstNext(i) \/ HandleExecutionResult(i)
  BY <1>t, <1>9 DEF FirstNext, HandleExecutionResult, execFrame, Throw, Goto, Send, Alone
<1>10. CASE BufferFull(i)
  BY <1>t, <1>10 DEF BufferFull, Crash, Goto, Send, Alone
<1>11. CASE HandleExecutionDone(i)
  BY <1>t, <1>11 DEF HandleExecutionDone, Throw, Goto, Send, Alone
<1>12. QED
  BY <1>1, <1>2, <1>3, <1>4, <1>5, <1>6, <1>7, <1>8, <1>9, <1>10, <1>11 DEF HandlerStep

\* Every step keeps the invariant.
LEMMA NextAnswersInv ==
  ASSUME TypeOK, SlotInv, AnswersInv, [Next]_vars
  PROVE  AnswersInv'
<1>t. /\ task \in [Slot -> SUBSET Task] /\ m_qtype \in [Slot -> MsgType \cup {"0"}]
      /\ reply \in [Slot -> Seq(Msg)]
      /\ acceptor \in [state: {"ready", "listen", "busy"}, slot: Slot]
  BY DEF TypeOK, SessionTypeOK
<1>o. OneTaskPerSession
  BY DEF SlotInv
<1>i. \A j \in Slot : Answering(j)
  BY DEF AnswersInv
<1>g. ASSUME NEW i \in Slot, Answering(i)', \A j \in Slot : j # i => Alone(j)
      PROVE  AnswersInv'
  BY <1>i, <1>g, AloneAnswers DEF AnswersInv
<1>1. ASSUME UNCHANGED <<task, m_qtype, m_pPlan, m_bParsed, m_bBinded, prepared, reply>>
      PROVE  AnswersInv'
  BY <1>i, <1>1, AloneAnswers DEF Alone, AnswersInv
<1>2. CASE StartAccept
  <2>s. PICK s \in Slot : s = AllocSlot
    BY <1>o, <1>2, AllocIdle
  <2>1. /\ task[s] = {} /\ task'[s] = {"accept"}
        /\ \A j \in Slot : j # s => task'[j] = task[j]
    BY <1>o, <1>2, <2>s, AllocIdle
  <2>2. UNCHANGED <<m_qtype, m_pPlan, m_bParsed, m_bBinded, prepared, reply>>
    BY <1>2 DEF StartAccept
  <2>3. At(s, "free")
    BY <1>i, <2>1 DEF Answering
  <2>4. At(s, "accept")' /\ Owes(s)'
    BY <2>1, <2>2, <2>3 DEF At, Answered, Owes, Quiet, Executing
  <2>5. Answering(s)'
    BY <2>1, <2>4 DEF Answering
  <2>6. QED
    BY <1>g, <2>1, <2>2, <2>5 DEF Alone
\* a session goes on with nothing sent
<1>q. ASSUME NEW i \in Slot, NEW t, NEW u, t \in task[i], Goto(i, t, u),
             t \in {"accept", "startBuffer", "endParse", "endBuffer"},
             u \in {"endParse", "startBuffer", "readLen", "endBuffer", "endSlot"},
             \A j \in Slot : j # i => m_qtype'[j] = m_qtype[j] /\ reply'[j] = reply[j],
             UNCHANGED <<m_pPlan, m_bParsed, m_bBinded, prepared>>,
             u # "endParse" => reply'[i] = <<>>
      PROVE  AnswersInv'
  <2>1. /\ task[i] = {t} /\ task'[i] = {u}
        /\ \A j \in Slot : j # i => task'[j] = task[j]
    BY <1>t, <1>o, <1>q, GoesOn DEF Goto
  <2>2. At(i, t)
    BY <1>i, <2>1 DEF Answering
  <2>3. At(i, u)'
    BY <1>q, <2>2 DEF At, Answered, Quiet, Executing
  <2>4. Owes(i)'
    BY <1>q, <2>1 DEF Owes, Executing
  <2>5. Answering(i)'
    BY <2>1, <2>3, <2>4 DEF Answering
  <2>6. QED
    BY <1>g, <1>q, <2>1, <2>5 DEF Alone
<1>e. ASSUME NEW i \in Slot, NEW t \in Quiet, t \in task[i] PROVE reply[i] = <<>>
  BY <1>i, <1>e DEF Answering, At, Answered
<1>3. ASSUME NEW i \in Slot, AcceptOk(i) \/ AcceptError(i) PROVE AnswersInv'
  <2>1. "accept" \in task[i]
    BY <1>3 DEF AcceptOk, AcceptError, SlotInv
  <2>2. reply[i] = <<>>
    BY <1>e, <2>1 DEF Quiet
  <2>3. /\ \E u \in {"endParse", "startBuffer"} : Goto(i, "accept", u)
        /\ \A j \in Slot : j # i => m_qtype'[j] = m_qtype[j]
        /\ UNCHANGED <<m_pPlan, m_bParsed, m_bBinded, prepared, reply>>
    BY <1>t, <1>3 DEF AcceptOk, AcceptError, StartParse
  <2>4. QED
    BY <1>q, <2>1, <2>2, <2>3
<1>4. ASSUME NEW i \in Slot, StartReturns(i) PROVE AnswersInv'
  <2>1. CASE AllocResult = NoBlock
    BY <1>1, <1>4, <2>1 DEF StartReturns, StartBuffer, Crash
  <2>2. CASE AllocResult # NoBlock
    <3>1. "startBuffer" \in task[i] /\ Goto(i, "startBuffer", "readLen")
          /\ UNCHANGED <<m_qtype, m_pPlan, m_bParsed, m_bBinded, prepared, reply>>
      BY <1>4, <2>2 DEF StartReturns, StartBuffer
    <3>2. reply[i] = <<>>
      BY <1>e, <3>1 DEF Quiet
    <3>3. QED
      BY <1>q, <3>1, <3>2
  <2>3. QED
    BY <2>1, <2>2
<1>5. ASSUME NEW i \in Slot, EndReturns(i) PROVE AnswersInv'
  <2>1. "endSlot" \in task[i] /\ task' = [task EXCEPT ![i] = @ \ {"endSlot"}]
        /\ UNCHANGED <<m_qtype, m_pPlan, m_bParsed, m_bBinded, prepared, reply>>
    BY <1>5 DEF EndReturns, EndSlot
  <2>2. task[i] = {"endSlot"}
    BY <1>o, <2>1 DEF OneTaskPerSession
  <2>3. task'[i] = {} /\ \A j \in Slot : j # i => task'[j] = task[j]
    BY <1>t, <2>1, <2>2
  <2>4. At(i, "endSlot")
    BY <1>i, <2>1 DEF Answering
  <2>5. At(i, "free")' /\ Owes(i)'
    BY <2>1, <2>3, <2>4 DEF At, Answered, Owes, Quiet, Executing
  <2>6. Answering(i)'
    BY <2>3, <2>5 DEF Answering
  <2>7. QED
    BY <1>g, <2>1, <2>3, <2>6 DEF Alone
<1>6. ASSUME NEW i \in Slot, EndParse(i) PROVE AnswersInv'
  <2>1. /\ "endParse" \in task[i] /\ Goto(i, "endParse", "endBuffer") /\ reply'[i] = <<>>
        /\ \A j \in Slot : j # i => reply'[j] = reply[j]
        /\ UNCHANGED <<m_qtype, m_pPlan, m_bParsed, m_bBinded, prepared>>
    BY <1>t, <1>6 DEF EndParse
  <2>2. QED
    BY <1>q, <2>1
<1>7. ASSUME NEW i \in Slot, EndBuffer(i) PROVE AnswersInv'
  <2>1. /\ "endBuffer" \in task[i] /\ Goto(i, "endBuffer", "endSlot")
        /\ UNCHANGED <<m_qtype, m_pPlan, m_bParsed, m_bBinded, prepared, reply>>
    BY <1>7 DEF EndBuffer
  <2>2. reply[i] = <<>>
    BY <1>e, <2>1 DEF Quiet
  <2>3. QED
    BY <1>q, <2>1, <2>2
<1>8. ASSUME NEW i \in Slot, IoStep(i) PROVE AnswersInv'
  BY <1>g, <1>i, <1>o, <1>8, IoAnswers, StepAlone
<1>9. ASSUME NEW i \in Slot, HandlerStep(i) PROVE AnswersInv'
  <2>1. EndParse(i) \/ EndBuffer(i) \/ Answering(i)'
    BY <1>i, <1>o, <1>9, MessageAnswers, ExecutionAnswers DEF HandlerStep
  <2>2. QED
    BY <1>6, <1>7, <1>g, <1>9, <2>1, StepAlone
<1>10. CASE UNCHANGED vars \/ Stop \/ CancelAll \/ Clear
  BY <1>1, <1>10 DEF Stop, CancelAll, Clear, vars, sessionVars
<1>11. QED
  BY <1>2, <1>3, <1>4, <1>5, <1>8, <1>9, <1>10 DEF Next, Terminated

\* The inductive invariant holds in every reachable state.
THEOREM AnsweringTheorem == Spec => []AnswersInv
<1>1. Init => AnswersInv
  BY Constants
  DEF Init, SessionInit, AnswersInv, Answering, At, Owes, Answered, Quiet, Executing, NoPlan, NewPlan
<1>2. TypeOK /\ SlotInv /\ AnswersInv /\ [Next]_vars => AnswersInv'
  BY NextAnswersInv
<1>3. QED
  BY <1>1, <1>2, SlotTheorem, TypeCorrect, PTL DEF Spec

\* Whatever the plan, the suspensions at a full buffer and the failures, when a
\* session reads the next message the last one has been answered completely
\* and in the order of this server: no row is lost, repeated or out of order.
THEOREM AnswersTheorem == Spec => []AnswersComplete
<1>1. AnswersInv => AnswersComplete
  BY DEF AnswersInv, Answering, At, Answered, AnswersComplete
<1>2. QED
  BY <1>1, AnsweringTheorem, PTL

-----------------------------------------------------------------------------
(* Cancellation.                                                           *)

\* Clients send statements of the kinds Kinds only.
KindsInv ==
  \A i \in Slot : tree[i] \in Kinds \cup {"none"} /\ m_pPlan[i].kind \in Kinds \cup {"none", "empty"}

\* A step parses a statement, or builds a plan from a parse tree.
LEMMA NextKindsInv ==
  ASSUME TypeOK, KindsInv, [Next]_vars
  PROVE  KindsInv'
<1>t. tree \in [Slot -> TreeKind \cup {"none"}] /\ m_pPlan \in [Slot -> Plan]
  BY DEF TypeOK, SessionTypeOK
<1>1. ASSUME \A j \in Slot : tree'[j] = tree[j] \/ tree'[j] = "none",
             \A j \in Slot : m_pPlan'[j].kind = m_pPlan[j].kind \/ m_pPlan'[j].kind = "none"
      PROVE  KindsInv'
  BY <1>1 DEF KindsInv
<1>2. CASE StartAccept \/ UNCHANGED vars \/ Stop \/ CancelAll \/ Clear
  BY <1>1, <1>2 DEF StartAccept, Stop, CancelAll, Clear, vars, sessionVars
<1>3. ASSUME NEW i \in Slot,
             AcceptOk(i) \/ AcceptError(i) \/ IoStep(i) \/ StartReturns(i) \/ EndReturns(i)
      PROVE  KindsInv'
  <2>1. UNCHANGED <<tree, m_pPlan>>
    BY <1>3 DEF AcceptOk, AcceptError, StartParse, StartReturns, StartBuffer, EndReturns,
                EndSlot, Crash, IoStep, ReadType, ReadLen, ReadData, IoError, WriteDone, ioFrame
  <2>2. QED
    BY <1>1, <2>1
<1>4. ASSUME NEW i \in Slot, HandlerStep(i) PROVE KindsInv'
  <2>r. ASSUME NEW k \in Kinds \cup {"none"}, Resolve(i, k)
        PROVE  /\ m_pPlan'[i].kind \in Kinds \cup {"none", "empty"}
               /\ \A j \in Slot : j # i => m_pPlan'[j].kind = m_pPlan[j].kind
    BY <1>t, <2>r DEF Resolve, NewPlan
  <2>1. CASE HandleQuery(i)
    <3>1. PICK p \in ParseOutcome(i) :
             /\ tree' = [tree EXCEPT ![i] = p.tree]
             /\ UNCHANGED m_pPlan \/ Resolve(i, p.tree)
      BY <2>1 DEF HandleQuery, ResolveThrows
    <3>2. p.tree \in Kinds \cup {"none"}
      BY DEF ParseOutcome, KindsInv
    <3>3. QED
      BY <1>t, <2>r, <3>1, <3>2 DEF KindsInv
  <2>2. CASE HandleParse(i)
    <3>1. PICK p \in ParseOutcome(i) : tree' = [tree EXCEPT ![i] = p.tree] /\ UNCHANGED m_pPlan
      BY <2>2 DEF HandleParse
    <3>2. p.tree \in Kinds \cup {"none"}
      BY DEF ParseOutcome, KindsInv
    <3>3. QED
      BY <1>t, <3>1, <3>2 DEF KindsInv
  <2>3. CASE HandleBind(i)
    <3>1. UNCHANGED tree /\ (UNCHANGED m_pPlan \/ Resolve(i, tree[i]))
      BY <2>3 DEF HandleBind, ResolveThrows
    <3>2. QED
      BY <2>r, <3>1 DEF KindsInv
  <2>4. CASE EndParse(i) \/ EndBuffer(i) \/ UnknownMessage(i) \/ HandleStartup(i)
             \/ HandleSync(i) \/ HandleExecution(i) \/ HandleDescription(i)
             \/ \E j \in Slot : HandleCancel(i, j)
    <3>1. UNCHANGED m_pPlan /\ \A j \in Slot : tree'[j] = tree[j] \/ tree'[j] = "none"
      BY <1>t, <2>4 DEF EndParse, EndBuffer, UnknownMessage, HandleStartup, HandleSync,
                        HandleExecution, HandleDescription, HandleCancel, ioFrame
    <3>2. QED
      BY <1>1, <3>1
  <2>5. CASE HandleExecutionBegin(i) \/ Sorting(i) \/ FirstNext(i) \/ BufferFull(i)
             \/ HandleExecutionResult(i) \/ HandleExecutionDone(i)
    <3>1. UNCHANGED tree
      BY <2>5 DEF HandleExecutionBegin, Sorting, FirstNext, BufferFull, HandleExecutionResult,
                  HandleExecutionDone, Crash, execFrame
    <3>2. \/ UNCHANGED m_pPlan
          \/ m_pPlan' = [m_pPlan EXCEPT ![i] = NewPlan(m_pPlan[i].kind)]
          \/ m_pPlan' = [m_pPlan EXCEPT ![i].row = @ + 1]
          \/ m_pPlan' = [m_pPlan EXCEPT ![i].blocks = Append(@, AllocResult)]
          \/ m_pPlan' = [m_pPlan EXCEPT ![i] = NoPlan]
      BY <2>5 DEF HandleExecutionBegin, Sorting, FirstNext, BufferFull, HandleExecutionResult,
                  HandleExecutionDone, Crash, execFrame
    <3>3. \A j \in Slot : m_pPlan'[j].kind = m_pPlan[j].kind \/ m_pPlan'[j].kind = "none"
      <4>1. CASE \/ UNCHANGED m_pPlan
                 \/ m_pPlan' = [m_pPlan EXCEPT ![i] = NewPlan(m_pPlan[i].kind)]
                 \/ m_pPlan' = [m_pPlan EXCEPT ![i] = NoPlan]
        BY <1>t, <4>1 DEF NewPlan, NoPlan
      <4>2. CASE m_pPlan' = [m_pPlan EXCEPT ![i].row = @ + 1]
        BY <1>t, <4>2 DEF Plan
      <4>3. CASE m_pPlan' = [m_pPlan EXCEPT ![i].blocks = Append(@, AllocResult)]
        BY <1>t, <4>3 DEF Plan
      <4>4. QED
        BY <3>2, <4>1, <4>2, <4>3
    <3>4. QED
      BY <1>1, <3>1, <3>3
  <2>6. QED
    BY <1>4, <2>1, <2>2, <2>3, <2>4, <2>5 DEF HandlerStep
<1>5. QED
  BY <1>2, <1>3, <1>4 DEF Next, Terminated

\* No plan is of a kind that no client sends.
THEOREM KindsTheorem == Spec => []KindsInv
<1>1. Init => KindsInv
  BY DEF Init, SessionInit, KindsInv, NoPlan, NewPlan
<1>2. TypeOK /\ KindsInv /\ [Next]_vars => KindsInv'
  BY NextKindsInv
<1>3. QED
  BY <1>1, <1>2, TypeCorrect, PTL DEF Spec

\* No message of ms is a row.
NoRows(ms) == \A n \in 1..Len(ms) : ms[n][1] # "D"

\* Sending no row after no row.
LEMMA NoRowsConcat ==
  ASSUME NEW r \in Seq(Msg), NEW s \in Seq(Msg), NoRows(r), NoRows(s)
  PROVE  NoRows(r \o s) /\ r \o s \in Seq(Msg)
<1> DEFINE d == r \o s
<1>1. /\ d \in Seq(Msg) /\ Len(d) = Len(r) + Len(s)
      /\ \A n \in 1..(Len(r) + Len(s)) : d[n] = IF n <= Len(r) THEN r[n] ELSE s[n - Len(r)]
  BY ConcatProperties
<1>2. Len(r) \in Nat /\ Len(s) \in Nat
  BY LenProperties
<1> HIDE DEF d
<1>3. ASSUME NEW n \in 1..Len(d) PROVE d[n][1] # "D"
  <2>1. CASE n <= Len(r)
    <3>1. n \in 1..Len(r) /\ d[n] = r[n]
      BY <1>1, <1>2, <2>1
    <3>2. QED
      BY <3>1 DEF NoRows
  <2>2. CASE ~(n <= Len(r))
    <3>1. n - Len(r) \in 1..Len(s) /\ d[n] = s[n - Len(r)]
      BY <1>1, <1>2, <2>2
    <3>2. QED
      BY <3>1 DEF NoRows
  <2>3. QED
    BY <2>1, <2>2
<1>4. QED
  BY <1>1, <1>3 DEF d, NoRows

\* What the handlers send besides rows.
LEMMA NoRowsParts ==
  ASSUME NEW i \in Slot
  PROVE  /\ \A ms \in {<<>>, Error, Ready, RowDescription, <<<<"C", 0>>>>, <<<<"1", 0>>>>,
                       <<<<"2", 0>>>>, <<<<"K", i>>, <<"Z", 0>>>>, Sync(i), Error \o Sync(i)} :
              ms \in Seq(Msg) /\ NoRows(ms)
         /\ Rows(<<>>) = <<>>
<1>1. ASSUME NEW x \in Msg, x[1] # "D" PROVE <<x>> \in Seq(Msg) /\ NoRows(<<x>>)
  BY <1>1 DEF NoRows
<1>2. /\ <<"E", 0>> \in Msg /\ <<"Z", 0>> \in Msg /\ <<"T", 0>> \in Msg /\ <<"C", 0>> \in Msg
      /\ <<"1", 0>> \in Msg /\ <<"2", 0>> \in Msg /\ <<"K", i>> \in Msg
  BY Constants DEF Msg, Slot
<1>3. /\ <<"E", 0>>[1] # "D" /\ <<"Z", 0>>[1] # "D" /\ <<"T", 0>>[1] # "D" /\ <<"C", 0>>[1] # "D"
      /\ <<"1", 0>>[1] # "D" /\ <<"2", 0>>[1] # "D" /\ <<"K", i>>[1] # "D"
  OBVIOUS
<1>4. \A ms \in {Error, Ready, RowDescription, <<<<"C", 0>>>>, <<<<"1", 0>>>>, <<<<"2", 0>>>>} :
        ms \in Seq(Msg) /\ NoRows(ms)
  BY <1>1, <1>2, <1>3, Zenon DEF Error, Ready, RowDescription
<1>5. ASSUME NEW x \in Msg, NEW y \in Msg, x[1] # "D", y[1] # "D"
      PROVE  <<x, y>> \in Seq(Msg) /\ NoRows(<<x, y>>)
  BY <1>5 DEF NoRows
<1>6. <<<<"K", i>>, <<"Z", 0>>>> \in Seq(Msg) /\ NoRows(<<<<"K", i>>, <<"Z", 0>>>>)
  BY <1>2, <1>3, <1>5, Zenon
<1>7. <<>> \in Seq(Msg) /\ NoRows(<<>>)
  BY DEF NoRows
<1>8. Sync(i) \in Seq(Msg) /\ NoRows(Sync(i))
  BY <1>4, <1>7, Zenon DEF Sync, Ready
<1>9. Error \o Sync(i) \in Seq(Msg) /\ NoRows(Error \o Sync(i))
  BY <1>4, <1>8, NoRowsConcat, Zenon
<1>10. Rows(<<>>) = <<>>
  BY RunEmpty
<1>11. QED
  BY <1>4, <1>6, <1>7, <1>8, <1>9, <1>10, Zenon

\* A step of session i after which no row is in hand if none was before.
Rowless(i) ==
  /\ "result" \in task'[i] => "result" \in task[i] /\ m_pPlan'[i].kind = m_pPlan[i].kind
  /\ prepared[i] = <<>> => prepared'[i] = <<>>
  /\ NoRows(reply[i]) => NoRows(reply'[i])

\* Such a step puts no row in hand.
LEMMA RowlessStep ==
  ASSUME NEW i \in Slot, Rowless(i), ~RowInHand(i)
  PROVE  ~RowInHand(i)'
<1>1. prepared[i] = <<>> /\ NoRows(reply[i])
  BY DEF RowInHand, NoRows
<1>2. prepared'[i] = <<>> /\ NoRows(reply'[i])
  BY <1>1 DEF Rowless
<1>3. ~("result" \in task'[i] /\ m_pPlan'[i].kind \in Columned)
  BY DEF Rowless, RowInHand, HasColumns, Columned
<1>4. QED
  BY <1>2, <1>3 DEF RowInHand, NoRows, HasColumns, Columned

\* Going on to another task than that of encoding rows.
LEMMA GoesRowless ==
  ASSUME TypeOK, OneTaskPerSession, NEW i \in Slot, NEW t, NEW u, t \in task[i], Goto(i, t, u),
         u # "result", prepared[i] = <<>> => prepared'[i] = <<>>,
         NEW ms \in Seq(Msg), NoRows(ms), reply'[i] \in {<<>>, reply[i], reply[i] \o ms}
  PROVE  Rowless(i)
<1>1. task'[i] = {u}
  BY GoesOn
<1>2. reply[i] \in Seq(Msg)
  BY DEF TypeOK, SessionTypeOK
<1>3. NoRows(<<>>)
  BY NoRowsParts
<1>4. ASSUME NoRows(reply[i]) PROVE NoRows(reply'[i])
  BY <1>2, <1>3, <1>4, NoRowsConcat, Zenon
<1>5. QED
  BY <1>1, <1>4 DEF Rowless

\* An exception sends no row.
LEMMA ThrowRowless ==
  ASSUME TypeOK, OneTaskPerSession, NEW i \in Slot, NEW t, t \in task[i], Throw(i, t)
  PROVE  Rowless(i)
<1>1. reply \in [Slot -> Seq(Msg)] /\ prepared \in [Slot -> Seq(Nat)]
  BY DEF TypeOK, SessionTypeOK
<1>2. reply'[i] = reply[i] \o (Error \o Sync(i)) /\ prepared'[i] = <<>>
  BY <1>1, Zenon DEF Throw, Send, Error
<1>3. Error \o Sync(i) \in Seq(Msg) /\ NoRows(Error \o Sync(i))
  BY NoRowsParts, Zenon
<1>4. Goto(i, t, "writeType") /\ "writeType" # "result"
  BY DEF Throw
<1>5. QED
  BY <1>2, <1>3, <1>4, GoesRowless, Zenon

\* A client that waits for the rest of an answer has read a row.
LEMMA SuspendedHasRow ==
  ASSUME TypeOK, NEW i \in Slot, Answering(i), "writeResult" \in task[i]
  PROVE  RowInHand(i)
<1> DEFINE q == m_qtype[i]
           k == m_pPlan[i].kind
           row == m_pPlan[i].row
<1>1. /\ k \in Columned /\ row >= 2 /\ prepared[i] = <<>> /\ q \in {"Q", "E"}
      /\ \E m \in 0..(row - 1) : reply[i] = Written(q, k, m) /\ prepared[i] = Waiting(k, m, row - 1)
  BY DEF Answering, At, Answered, Executing
<1>2. row \in Nat /\ reply[i] \in Seq(Msg)
  BY PlanType DEF TypeOK, SessionTypeOK
<1>3. PICK m \in 0..(row - 1) : reply[i] = Written(q, k, m) /\ Waiting(k, m, row - 1) = <<>>
  BY <1>1
<1>4. m \in Nat /\ row - 1 \in Nat /\ m <= row - 1
  BY <1>2, <1>3
<1>5. Run(m, row - 1) = <<>>
  BY <1>1, <1>3, Zenon DEF Waiting
<1>6. m = row - 1
  BY <1>4, <1>5, RunEmpty
<1>7. m \in Nat /\ 1 \in 1..m
  BY <1>1, <1>2, <1>6
<1> DEFINE h == Header(q)
           c == Numbered(m)
           d == h \o c
<1>8. h \in Seq(Msg) /\ c \in Seq(Msg) /\ Len(c) = m /\ c[1] = <<"D", 1>>
  BY <1>7, NumberedRows, AnswerParts DEF Header
<1>9. d = reply[i]
  BY <1>1, <1>3, Zenon DEF Written
<1> HIDE DEF h, c
<1>10. /\ Len(d) = Len(h) + Len(c)
       /\ \A n \in 1..(Len(h) + Len(c)) : d[n] = IF n <= Len(h) THEN h[n] ELSE c[n - Len(h)]
  BY <1>8, ConcatProperties
<1> HIDE DEF d
<1>11. Len(h) \in Nat
  BY <1>8, LenProperties
<1> DEFINE l == Len(h) + 1
<1>12. l \in 1..Len(d) /\ ~(l <= Len(h)) /\ l - Len(h) = 1 /\ l \in 1..(Len(h) + Len(c))
  BY <1>7, <1>8, <1>10, <1>11
<1> HIDE DEF l
<1>13. d[l] = <<"D", 1>>
  BY <1>8, <1>10, <1>12
<1>14. l \in 1..Len(reply[i]) /\ reply[i][l][1] = "D"
  BY <1>9, <1>12, <1>13
<1>15. QED
  BY <1>14 DEF RowInHand

\* Completing a read or a write of a session without a row brings none.
LEMMA IoRowless ==
  ASSUME TypeOK, OneTaskPerSession, NEW i \in Slot, Answering(i), ~RowInHand(i), IoStep(i)
  PROVE  Rowless(i)
<1>f. UNCHANGED prepared
  BY DEF IoStep, ReadType, ReadLen, ReadData, IoError, WriteDone, ioFrame
<1>t. reply \in [Slot -> Seq(Msg)]
  BY DEF TypeOK, SessionTypeOK
<1>n. <<>> \in Seq(Msg) /\ NoRows(<<>>)
  BY NoRowsParts
<1>g. ASSUME NEW t, NEW u, t \in task[i], Goto(i, t, u), u # "result",
             reply'[i] \in {<<>>, reply[i]}
      PROVE  Rowless(i)
  BY <1>f, <1>g, <1>n, GoesRowless
<1>1. ASSUME NEW c \in MsgTypes, ReadType(i, c) PROVE Rowless(i)
  BY <1>g, <1>t, <1>1 DEF ReadType
<1>2. CASE ReadLen(i) \/ ReadData(i)
  BY <1>g, <1>2 DEF ReadLen, ReadData
<1>3. ASSUME NEW t \in ReadTask \cup WriteTask, IoError(i, t) PROVE Rowless(i)
  BY <1>g, <1>3 DEF IoError
<1>4. ASSUME NEW t \in WriteTask, WriteDone(i, t) PROVE Rowless(i)
  <2>1. t # "writeResult"
    BY <1>4, SuspendedHasRow DEF WriteDone
  <2>2. AfterWrite[t] # "result"
    BY <2>1 DEF WriteTask, AfterWrite
  <2>3. QED
    BY <1>g, <1>4, <2>2 DEF WriteDone
<1>5. QED
  BY <1>1, <1>2, <1>3, <1>4 DEF IoStep

\* A cancelled plan returns no row, if its kind looks at the flag.
LEMMA CancelledOutcome ==
  ASSUME NEW i \in Slot, KindsInv, "explain" \notin Kinds, m_bTerminate[i], m_pPlan[i].kind # "none"
  PROVE  "row" \notin NextOutcome(i)
<1>1. m_pPlan[i].kind \in {"scan", "sort", "dml", "empty"}
  BY Constants DEF KindsInv, TreeKind
<1>2. QED
  BY <1>1 DEF NextOutcome, ChecksCancel

\* No handler of a cancelled session that has no row in hand gets one.
LEMMA HandlerRowless ==
  ASSUME TypeOK, OneTaskPerSession, PlanInPlace, KindsInv, "explain" \notin Kinds,
         NEW i \in Slot, m_bTerminate[i], ~RowInHand(i), HandlerStep(i)
  PROVE  Rowless(i)
<1>t. /\ reply \in [Slot -> Seq(Msg)] /\ prepared \in [Slot -> Seq(Nat)]
      /\ m_pPlan \in [Slot -> Plan] /\ task \in [Slot -> SUBSET Task]
  BY DEF TypeOK, SessionTypeOK
<1>p. prepared[i] = <<>>
  BY DEF RowInHand
<1>n. /\ \A ms \in {<<>>, Ready, RowDescription, <<<<"K", i>>, <<"Z", 0>>>>} :
            ms \in Seq(Msg) /\ NoRows(ms)
  BY NoRowsParts, Zenon
\* a step that sends nothing, one that sends ms, one that throws, one that waits
<1>g. ASSUME NEW t, NEW u, t \in task[i], Goto(i, t, u), u # "result",
             UNCHANGED prepared, reply'[i] \in {<<>>, reply[i]}
      PROVE  Rowless(i)
  BY <1>g, <1>n, GoesRowless
<1>m. ASSUME NEW t, NEW u, t \in task[i], Goto(i, t, u), u # "result",
             prepared[i] = <<>> => prepared'[i] = <<>>,
             NEW ms \in Seq(Msg), NoRows(ms), Send(i, ms)
      PROVE  Rowless(i)
  <2>1. reply'[i] = reply[i] \o ms
    BY <1>t, <1>m, Zenon DEF Send
  <2>2. QED
    BY <1>m, <2>1, GoesRowless
<1>e. ASSUME NEW t, t \in task[i], Throw(i, t) PROVE Rowless(i)
  BY <1>e, ThrowRowless
<1>s. ASSUME UNCHANGED <<task, prepared, reply>>, m_pPlan'[i].kind = m_pPlan[i].kind
      PROVE  Rowless(i)
  BY <1>s DEF Rowless
<1>1. CASE EndParse(i) \/ EndBuffer(i) \/ UnknownMessage(i) \/ HandleExecution(i)
           \/ \E j \in Slot : HandleCancel(i, j)
  <2>1. UNCHANGED prepared /\ reply'[i] \in {<<>>, reply[i]}
    BY <1>t, <1>1 DEF EndParse, EndBuffer, UnknownMessage, HandleExecution, HandleCancel, ioFrame
  <2>2. \E t, u : t \in task[i] /\ Goto(i, t, u) /\ u # "result"
    BY <1>1 DEF EndParse, EndBuffer, UnknownMessage, HandleExecution, HandleCancel, Dispatch
  <2>3. QED
    BY <1>g, <2>1, <2>2
<1>2. CASE HandleStartup(i)
  <2>1. "dispatch" \in task[i] /\ UNCHANGED prepared
    BY <1>2 DEF HandleStartup, Dispatch, ioFrame
  <2>2. CASE UNCHANGED reply /\ \E u \in {"writeLen", "endParse"} : Goto(i, "dispatch", u)
    BY <1>g, <2>1, <2>2
  <2>3. CASE Goto(i, "dispatch", "writeType") /\ Send(i, <<<<"K", i>>, <<"Z", 0>>>>)
    BY <1>m, <1>n, <2>1, <2>3
  <2>4. QED
    BY <1>2, <2>2, <2>3 DEF HandleStartup
<1>3. CASE HandleSync(i)
  <2>1. "dispatch" \in task[i] /\ UNCHANGED prepared /\ Goto(i, "dispatch", "writeType")
        /\ Send(i, Ready)
    BY <1>3, Zenon DEF HandleSync, Dispatch, ioFrame, Ready
  <2>2. QED
    BY <1>m, <1>n, <2>1
<1>4. CASE HandleQuery(i) \/ HandleParse(i) \/ HandleBind(i) \/ HandleDescription(i)
  <2>1. "dispatch" \in task[i]
    BY <1>4 DEF HandleQuery, HandleParse, HandleBind, HandleDescription, Dispatch
  <2>2. \/ Throw(i, "dispatch")
        \/ UNCHANGED <<reply, prepared>> /\ \E u \in {"begin", "readType"} : Goto(i, "dispatch", u)
        \/ /\ UNCHANGED prepared /\ Send(i, RowDescription)
           /\ \E u \in {"writeBegin", "writeType"} : Goto(i, "dispatch", u)
    BY <1>4 DEF HandleQuery, HandleParse, HandleBind, HandleDescription, RowDescription
  <2>3. QED
    BY <1>e, <1>g, <1>m, <1>n, <2>1, <2>2
<1>5. CASE HandleExecutionBegin(i)
  <2>1. CASE m_pPlan[i].kind = "none"
    BY <1>s, <1>5, <2>1 DEF HandleExecutionBegin, Crash
  <2>2. CASE m_pPlan[i].kind # "none"
    <3>1. "begin" \in task[i]
      BY <1>5 DEF HandleExecutionBegin
    <3>2. \/ Throw(i, "begin")
          \/ UNCHANGED <<reply, prepared>> /\ \E u \in {"sorting", "first"} : Goto(i, "begin", u)
      BY <1>5, <2>2 DEF HandleExecutionBegin
    <3>3. QED
      BY <1>e, <1>g, <3>1, <3>2
  <2>3. QED
    BY <2>1, <2>2
<1>6. CASE Sorting(i)
  <2>1. "sorting" \in task[i]
    BY <1>6 DEF Sorting
  <2>2. \/ Throw(i, "sorting")
        \/ UNCHANGED <<reply, prepared>> /\ Goto(i, "sorting", "first")
        \/ /\ UNCHANGED <<task, reply, prepared>>
           /\ m_pPlan' = [m_pPlan EXCEPT ![i].blocks = Append(@, AllocResult)]
    BY <1>6 DEF Sorting
  <2>3. CASE /\ UNCHANGED <<task, reply, prepared>>
             /\ m_pPlan' = [m_pPlan EXCEPT ![i].blocks = Append(@, AllocResult)]
    BY <1>s, <1>t, <2>3 DEF Plan
  <2>4. QED
    BY <1>e, <1>g, <2>1, <2>2, <2>3
<1>k. ASSUME task[i] \cap {"first", "result"} # {} PROVE "row" \notin NextOutcome(i)
  BY <1>k, CancelledOutcome DEF PlanInPlace
<1>7. CASE FirstNext(i)
  <2>1. "first" \in task[i] /\ "row" \notin NextOutcome(i)
    BY <1>k, <1>7 DEF FirstNext
  <2>2. \/ Throw(i, "first")
        \/ UNCHANGED <<reply, prepared>> /\ Goto(i, "first", "done")
    BY <1>7, <2>1 DEF FirstNext
  <2>3. QED
    BY <1>e, <1>g, <2>1, <2>2
<1>8. CASE BufferFull(i)
  BY <1>8 DEF BufferFull, RowInHand
<1>9. CASE HandleExecutionResult(i)
  <2>1. "result" \in task[i] /\ "row" \notin NextOutcome(i)
    BY <1>k, <1>9 DEF HandleExecutionResult
  <2>2. Encoded(i) = <<>>
    BY <1>p, <2>1 DEF Encoded, RowInHand
  <2>3. Send(i, Rows(Encoded(i))) => Send(i, <<>>)
    BY <2>2, NoRowsParts, Zenon
  <2>4. \/ Throw(i, "result")
        \/ /\ Goto(i, "result", "done") /\ Send(i, <<>>)
           /\ prepared' = [prepared EXCEPT ![i] = <<>>]
    BY <1>9, <2>1, <2>2, <2>3 DEF HandleExecutionResult
  <2>5. CASE /\ Goto(i, "result", "done") /\ Send(i, <<>>)
             /\ prepared' = [prepared EXCEPT ![i] = <<>>]
    <3>1. prepared'[i] = <<>>
      BY <1>t, <2>5
    <3>2. QED
      BY <1>m, <1>n, <2>1, <2>5, <3>1
  <2>6. QED
    BY <1>e, <2>1, <2>4, <2>5
<1>10. CASE HandleExecutionDone(i)
  <2> DEFINE a == IF m_bParsed[i] THEN <<<<"1", 0>>>> ELSE <<>>
             b == IF m_bBinded[i] THEN <<<<"2", 0>>>> ELSE <<>>
             c == <<<<"C", 0>>>>
             ms == a \o b \o c \o Sync(i)
  <2>0. "done" \in task[i]
    BY <1>10 DEF HandleExecutionDone
  <2>1. \/ Throw(i, "done")
        \/ Goto(i, "done", "writeType") /\ UNCHANGED prepared /\ Send(i, ms)
    BY <1>10, Zenon DEF HandleExecutionDone
  <2>2. /\ a \in Seq(Msg) /\ NoRows(a) /\ b \in Seq(Msg) /\ NoRows(b)
        /\ c \in Seq(Msg) /\ NoRows(c) /\ Sync(i) \in Seq(Msg) /\ NoRows(Sync(i))
    BY NoRowsParts, Zenon
  <2> HIDE DEF a, b, c
  <2>3. a \o b \in Seq(Msg) /\ NoRows(a \o b)
    BY <2>2, NoRowsConcat, Zenon
  <2>4. a \o b \o c \in Seq(Msg) /\ NoRows(a \o b \o c)
    BY <2>2, <2>3, NoRowsConcat, Zenon
  <2>5. ms \in Seq(Msg) /\ NoRows(ms)
    BY <2>2, <2>4, NoRowsConcat, Zenon
  <2> HIDE DEF ms
  <2>6. QED
    BY <1>e, <1>m, <2>0, <2>1, <2>5
<1>11. QED
  BY <1>1, <1>2, <1>3, <1>4, <1>5, <1>6, <1>7, <1>8, <1>9, <1>10 DEF HandlerStep

\* The flag is never reset.
LEMMA TerminateStays ==
  ASSUME TypeOK, [Next]_vars, NEW i \in Slot, m_bTerminate[i]
  PROVE  m_bTerminate'[i]
<1>t. m_bTerminate \in [Slot -> BOOLEAN]
  BY DEF TypeOK, SessionTypeOK
<1>1. CASE StartAccept \/ UNCHANGED vars \/ Stop \/ Clear
  BY <1>1 DEF StartAccept, Stop, Clear, vars, sessionVars
<1>2. CASE CancelAll
  BY <1>t, <1>2 DEF CancelAll
<1>3. ASSUME NEW j \in Slot,
             AcceptOk(j) \/ AcceptError(j) \/ IoStep(j) \/ StartReturns(j) \/ EndReturns(j)
      PROVE  m_bTerminate' = m_bTerminate
  BY <1>3 DEF AcceptOk, AcceptError, StartParse, StartReturns, StartBuffer, EndReturns,
              EndSlot, Crash, IoStep, ReadType, ReadLen, ReadData, IoError, WriteDone, ioFrame
<1>4. ASSUME NEW j \in Slot, HandlerStep(j) PROVE m_bTerminate'[i]
  <2>1. CASE \E l \in Slot : HandleCancel(j, l)
    BY <1>t, <2>1 DEF HandleCancel
  <2>2. CASE ~ \E l \in Slot : HandleCancel(j, l)
    <3>1. UNCHANGED m_bTerminate
      BY <1>4, <2>2 DEF HandlerStep, EndParse, EndBuffer, UnknownMessage, HandleStartup,
         HandleSync, HandleQuery, HandleParse, HandleBind, HandleDescription, HandleExecution,
         HandleExecutionBegin, Sorting, FirstNext, BufferFull, HandleExecutionResult,
         HandleExecutionDone, Crash, ioFrame, execFrame
    <3>2. QED
      BY <3>1
  <2>3. QED
    BY <2>1, <2>2
<1>5. QED
  BY <1>1, <1>2, <1>3, <1>4 DEF Next, Terminated

\* The steps of the accept loop, of start() and end(), and of other sessions
\* bring session i no row.
LEMMA NextRowless ==
  ASSUME TypeOK, SlotInv, PlanInPlace, AnswersInv, KindsInv, "explain" \notin Kinds, [Next]_vars,
         NEW i \in Slot, m_bTerminate[i], ~RowInHand(i)
  PROVE  Rowless(i)
<1>t. task \in [Slot -> SUBSET Task]
  BY DEF TypeOK, SessionTypeOK
<1>o. OneTaskPerSession
  BY DEF SlotInv
<1>1. ASSUME UNCHANGED <<m_pPlan, prepared, reply>>,
             task'[i] = task[i] \/ "result" \notin task'[i]
      PROVE  Rowless(i)
  BY <1>1 DEF Rowless
<1>2. CASE StartAccept
  <2>1. "result" \notin task'[i] \/ task'[i] = task[i]
    BY <1>o, <1>2, AllocIdle
  <2>2. QED
    BY <1>1, <1>2, <2>1 DEF StartAccept
<1>3. ASSUME NEW j \in Slot, AcceptOk(j) \/ AcceptError(j) PROVE Rowless(i)
  <2>1. "accept" \in task[j] /\ \E u \in {"endParse", "startBuffer"} : Goto(j, "accept", u)
        /\ UNCHANGED <<m_pPlan, prepared, reply>>
    BY <1>3 DEF AcceptOk, AcceptError, StartParse, SlotInv
  <2>2. "result" \notin task'[i] \/ task'[i] = task[i]
    BY <1>t, <1>o, <2>1 DEF Goto, OneTaskPerSession
  <2>3. QED
    BY <1>1, <2>1, <2>2
<1>4. ASSUME NEW j \in Slot, StartReturns(j) \/ EndReturns(j) PROVE Rowless(i)
  <2>1. UNCHANGED <<m_pPlan, prepared, reply>>
    BY <1>4 DEF StartReturns, StartBuffer, EndReturns, EndSlot, Crash
  <2>2. \/ UNCHANGED task
        \/ "startBuffer" \in task[j] /\ Goto(j, "startBuffer", "readLen")
        \/ "endSlot" \in task[j] /\ task' = [task EXCEPT ![j] = @ \ {"endSlot"}]
    BY <1>4 DEF StartReturns, StartBuffer, EndReturns, EndSlot, Crash
  <2>3. "result" \notin task'[i] \/ task'[i] = task[i]
    BY <1>t, <1>o, <2>2 DEF Goto, OneTaskPerSession
  <2>4. QED
    BY <1>1, <2>1, <2>3
<1>5. ASSUME NEW j \in Slot, IoStep(j) \/ HandlerStep(j) PROVE Rowless(i)
  <2>1. CASE j = i
    BY <1>o, <1>5, <2>1, IoRowless, HandlerRowless DEF AnswersInv
  <2>2. CASE j # i
    BY <1>5, <2>2, StepAlone DEF Alone, Rowless
  <2>3. QED
    BY <2>1, <2>2
<1>6. CASE UNCHANGED vars \/ Stop \/ CancelAll \/ Clear
  BY <1>1, <1>6 DEF Stop, CancelAll, Clear, vars, sessionVars
<1>7. QED
  BY <1>2, <1>3, <1>4, <1>5, <1>6 DEF Next, Terminated

\* A cancelled session without a row in hand never gets one again, for this
\* client or a later one, as long as every kind of plan looks at the flag.
THEOREM CancelTheorem == Spec => CancelIsFinal
<1>1. ASSUME TypeOK, SlotInv, PlanInPlace, AnswersInv, KindsInv, [Next]_vars
      PROVE  [\A i \in Slot :
                m_bTerminate[i] /\ ~RowInHand(i) /\ "explain" \notin Kinds
                  => m_bTerminate'[i] /\ ~RowInHand(i)']_vars
  <2>1. ASSUME NEW i \in Slot, m_bTerminate[i], ~RowInHand(i), "explain" \notin Kinds
        PROVE  m_bTerminate'[i] /\ ~RowInHand(i)'
    BY <1>1, <2>1, TerminateStays, NextRowless, RowlessStep
  <2>2. QED
    BY <2>1
<1>2. QED
  BY <1>1, TypeCorrect, SlotTheorem, PlanTheorem, AnsweringTheorem, KindsTheorem, PTL
  DEF Spec, CancelIsFinal
=============================================================================
