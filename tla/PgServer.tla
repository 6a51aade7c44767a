------------------------------ MODULE PgServer ------------------------------
(***************************************************************************)
(* The whole server (server/PgServer.cpp): the accept loop, the worker     *)
(* threads that run the sessions of SessionInfo, and the orderly shutdown  *)
(* on SIGINT or SIGTERM.                                                   *)
(*                                                                         *)
(* Clients are unconstrained: they send any sequence of messages whether   *)
(* or not the previous one was answered well, and may disconnect at any    *)
(* time.                                                                   *)
(***************************************************************************)
EXTENDS SessionInfo

CONSTANT MaxFree   \* bound: the accept loop may fail while the free list is
                   \* shorter than this
ASSUME MaxFreeAssumption == MaxFree \in Nat

VARIABLES
  server,          \* "running", "stopping" (io_service stopped), "joining"
                   \* (sessions cancelled) or "down" (sessions destroyed)
  acceptor         \* the accept loop: [state, slot]

netVars == <<server, acceptor>>
vars == <<poolVars, mgrVars, sessionVars, netVars>>

TypeOK ==
  /\ PoolTypeOK
  /\ MgrTypeOK
  /\ SessionTypeOK
  /\ server \in {"running", "stopping", "joining", "down"}
  /\ acceptor \in [state: {"ready", "listen", "busy"}, slot: Slot]

Init ==
  /\ PoolInit
  /\ MgrInit
  /\ SessionInit
  /\ server = "running"
  /\ acceptor = [state |-> "ready", slot |-> 0]

-----------------------------------------------------------------------------
(* The accept loop.                                                        *)

\* startAccept(): take a session and wait for a connection on its socket.
\* Also run by an accept handler that was executing when the server stopped.
StartAccept ==
  /\ acceptor.state = "ready"
  /\ AllocSession
  /\ acceptor' = [state |-> "listen", slot |-> AllocSlot]
  /\ task' = [task EXCEPT ![AllocSlot] = @ \cup {"accept"}]
  /\ UNCHANGED <<m_qtype, m_pResult, tree, m_pBuffer, m_pPlan, m_bTerminate,
                 m_bParsed, m_bBinded, prepared, reply, crashed, server>>
  /\ UNCHANGED poolVars

\* The accept handler, called with a connection: start()
AcceptOk(i) ==
  /\ acceptor = [state |-> "listen", slot |-> i]
  /\ StartParse(i)
  /\ acceptor' = [acceptor EXCEPT !.state = "busy"]
  /\ UNCHANGED server

\* The accept handler, called with an error: end()
AcceptError(i) ==
  /\ "acceptError" \in Events
  /\ acceptor = [state |-> "listen", slot |-> i]
  /\ Len(freeBlocks) < MaxFree
  /\ Goto(i, "accept", "endParse")
  /\ acceptor' = [acceptor EXCEPT !.state = "busy"]
  /\ UNCHANGED <<m_qtype, m_pResult, tree, m_pBuffer, m_pPlan, m_bTerminate,
                 m_bParsed, m_bBinded, prepared, reply, crashed, server>>
  /\ UNCHANGED <<poolVars, mgrVars>>

\* Mutant of AcceptorAfter: the accept handler does not call startAccept().
AcceptorStays(i) == UNCHANGED acceptor

\* Once start() or end() has returned, the accept handler starts over.
AcceptorAfter(i) ==
  acceptor' = IF acceptor = [state |-> "busy", slot |-> i]
              THEN [acceptor EXCEPT !.state = "ready"] ELSE acceptor

-----------------------------------------------------------------------------
(* The worker threads.                                                     *)

\* A pending operation of session i completes; only before the stop
IoStep(i) ==
  /\ server = "running"
  /\ \/ \E c \in MsgTypes : ReadType(i, c)
     \/ ReadLen(i)
     \/ ReadData(i)
     \/ \E t \in ReadTask \cup WriteTask : IoError(i, t)
     \/ \E t \in WriteTask : WriteDone(i, t)
  /\ UNCHANGED netVars

\* A handler of session i that is executing takes a step
HandlerStep(i) ==
  /\ \/ EndParse(i)
     \/ EndBuffer(i)
     \/ UnknownMessage(i)
     \/ HandleStartup(i)
     \/ \E j \in Slot : HandleCancel(i, j)
     \/ HandleSync(i)
     \/ HandleQuery(i)
     \/ HandleParse(i)
     \/ HandleBind(i)
     \/ HandleDescription(i)
     \/ HandleExecution(i)
     \/ HandleExecutionBegin(i)
     \/ Sorting(i)
     \/ FirstNext(i)
     \/ BufferFull(i)
     \/ HandleExecutionResult(i)
     \/ HandleExecutionDone(i)
  /\ UNCHANGED netVars

\* The last steps of start() and end(), which may return to the accept loop
StartReturns(i) == StartBuffer(i) /\ AcceptorAfter(i) /\ UNCHANGED server
EndReturns(i)   == EndSlot(i) /\ AcceptorAfter(i) /\ UNCHANGED server

-----------------------------------------------------------------------------
(* Shutdown.                                                               *)

\* The signal handler: the acceptor is closed and the io_service stopped, so
\* that no further completion is delivered; handlers in progress go on.
\* The worker threads only start after the first startAccept().
Stop ==
  /\ "signal" \in Events
  /\ server = "running"
  /\ m_sessions > 0
  /\ server' = "stopping"
  /\ UNCHANGED <<poolVars, mgrVars, sessionVars, acceptor>>

\* SessionManager::stop()
CancelAll ==
  /\ server = "stopping"
  /\ server' = "joining"
  /\ m_bTerminate' = [i \in Slot |-> m_bTerminate[i] \/ i < m_sessions]
  /\ UNCHANGED <<task, m_qtype, m_pResult, tree, m_pBuffer, m_pPlan, m_bParsed,
                 m_bBinded, prepared, reply, crashed, acceptor>>
  /\ UNCHANGED <<poolVars, mgrVars>>

\* Mutant of Joined: the threads wait for the pending operations too.
JoinedIdle == \A i \in Slot : task[i] = {}

\* No worker thread is executing a handler: every join() returns.  (At the
\* bound on sessions an accept handler counts as finished.)
Joined ==
  /\ \A i \in Slot : task[i] \cap RunTask = {}
  /\ \/ acceptor.state = "listen"
     \/ acceptor.state = "ready" /\ m_free = <<>> /\ m_sessions = MaxSessions

\* run() joins the threads and SessionManager::clear() destroys the sessions
Clear ==
  /\ server = "joining"
  /\ Joined
  /\ server' = "down"
  /\ UNCHANGED <<poolVars, mgrVars, sessionVars, acceptor>>

Terminated == (crashed \/ server = "down") /\ UNCHANGED vars

Next ==
  \/ /\ ~crashed
     /\ server # "down"
     /\ \/ StartAccept
        \/ \E i \in Slot :
             \/ server = "running" /\ (AcceptOk(i) \/ AcceptError(i))
             \/ IoStep(i)
             \/ HandlerStep(i)
             \/ StartReturns(i)
             \/ EndReturns(i)
        \/ Stop
        \/ CancelAll
        \/ Clear
  \/ Terminated

Spec == Init /\ [][Next]_vars

(***************************************************************************)
(* asio delivers every completion and the worker threads run every handler *)
(* to its end.  That a pending read or write completes at all is up to the *)
(* client: it goes on reading and writing, or disconnects.  The code has   *)
(* no timeout of its own.                                                  *)
(***************************************************************************)
Fairness ==
  /\ WF_vars(~crashed /\ server # "down" /\ StartAccept)
  /\ WF_vars(~crashed /\ server # "down" /\ (CancelAll \/ Clear))
  /\ \A i \in Slot :
       WF_vars(/\ ~crashed /\ server # "down"
               /\ IoStep(i) \/ HandlerStep(i) \/ StartReturns(i) \/ EndReturns(i))

FairSpec == Spec /\ Fairness

-----------------------------------------------------------------------------
(* Properties.                                                             *)

FreeSlots == {m_free[k] : k \in 1..Len(m_free)}

\* A SessionInfo is either on the free stack, once, with nothing in progress,
\* or it has exactly one operation or handler in progress.  Every handler of
\* SessionInfo.cpp starts exactly one asynchronous operation or ends the
\* session, and end() is never called twice: a second read or write would
\* share m_pBuffer, a second freeSession would give one object to two clients.
OneTaskPerSession ==
  /\ \A i \in Slot :
       /\ \A t, u \in task[i] : t = u
       /\ task[i] = {} <=> (i >= m_sessions \/ i \in FreeSlots)
  /\ \A k \in 1..Len(m_free) : m_free[k] < m_sessions
  /\ \A k, l \in 1..Len(m_free) : m_free[k] = m_free[l] => k = l

\* The phase of session i that its client sees
PhaseOf(i) ==
  IF acceptor = [state |-> "listen", slot |-> i] THEN "listening"
  ELSE IF task[i] = {} THEN "free"
  ELSE IF task[i] \cap ReadTask # {} THEN "idle" ELSE "busy"

Conn == INSTANCE Connections WITH
  Session <- Slot,
  phase   <- [i \in Slot |-> PhaseOf(i)],
  up      <- (server = "running")

\* The accept loop, the sessions and the shutdown together serve clients as
\* Connections says: no SessionInfo is handed out while it has a client (the
\* free stack of SessionManager), none waits for two messages or answers while
\* it waits, and after the io_service has been stopped nothing new is taken up.
ServesConnections == Conn!Spec

\* The blocks that session i holds as arena, network buffer and sort buffer.
PlanBlocks(i) == {m_pPlan[i].blocks[k] : k \in 1..Len(m_pPlan[i].blocks)}
Held(i) == ({m_pResult[i], m_pBuffer[i]} \ {NoBlock}) \cup PlanBlocks(i)

\* No block of GlobalMemBlockPool has two owners: the free list, the arenas,
\* the network buffers and the sort buffers are pairwise disjoint.  This is
\* about who gives a block back, not about who still points into it: end()
\* leaves m_pPlan in place, whose names are views of the arena that it frees,
\* and ParseResult says when such a plan may still be read.
BlocksOwnedOnce ==
  /\ \A k, l \in 1..Len(freeBlocks) :
       freeBlocks[k] = freeBlocks[l] /\ freeBlocks[k] # NoBlock => k = l
  /\ \A k \in 1..Len(freeBlocks), i \in Slot :
       freeBlocks[k] # NoBlock => freeBlocks[k] \notin Held(i)
  /\ \A i, j \in Slot : i # j => Held(i) \cap Held(j) = {}
  /\ \A i \in Slot :
       /\ m_pResult[i] = m_pBuffer[i] => m_pResult[i] = NoBlock
       /\ m_pResult[i] \notin PlanBlocks(i) /\ m_pBuffer[i] \notin PlanBlocks(i)
       /\ \A k, l \in 1..Len(m_pPlan[i].blocks) :
            m_pPlan[i].blocks[k] = m_pPlan[i].blocks[l] => k = l

\* No block is lost: whatever fails, every block ever created is on the free
\* list or held by a session (alloc() never creates one to replace it).
NoBlockLost ==
  \A b \in Block : b <= m_iTotalMem =>
    \/ \E k \in 1..Len(freeBlocks) : freeBlocks[k] = b
    \/ \E i \in Slot : b \in Held(i)

\* A session that reads, writes or executes has its ParseResult and its
\* network buffer (the asserts on m_pResult in SessionInfo.cpp, and every
\* m_pBuffer-> that is not checked).
HandlersHaveMemory ==
  \A i \in Slot :
    task[i] \cap (ReadTask \cup WriteTask \cup ExecTask \cup {"dispatch"}) # {}
      => m_pResult[i] # NoBlock /\ m_pBuffer[i] # NoBlock

\* Between the write of the row description and the end of the execution,
\* over any number of suspensions in doWrite, m_pPlan is set (the assert in
\* handleExecutionResult).
PlanInPlace ==
  \A i \in Slot :
    task[i] \cap {"sorting", "first", "result", "done",
                  "writeBegin", "writeResult", "writeDone"} # {}
      => m_pPlan[i].kind # "none"

\* The messages that may answer a message of type q, in the order in which this
\* server sends them; n rows are numbered 1 to n.  It is not the order of the
\* Postgres protocol in the extended query: nothing acknowledges a Parse or a
\* Bind when it is handled, a Sync is answered by ReadyForQuery alone even if
\* acknowledgements are owed, and an Execute sends those it owes behind its rows
\* (handleExecutionResult, handleExecutionDone) and, if it fails, owes them still.
Numbered(n) == [k \in 1..n |-> <<"D", k>>]
Error == <<<<"E", 0>>>>
Ready == <<<<"Z", 0>>>>
RowDescription == <<<<"T", 0>>>>
Acks == {<<>>, <<<<"1", 0>>>>, <<<<"2", 0>>>>, <<<<"1", 0>>, <<"2", 0>>>>}
Expected(i, q) ==
  CASE q = "0" -> {<<<<"K", i>>>> \o Ready}
    [] q = "S" -> {Ready}
    [] q \in {"P", "B"} -> {<<>>, Error}
    [] q = "D" -> {<<>>, RowDescription, Error}
    [] q = "Q" -> UNION {{Error \o Ready, <<<<"C", 0>>>> \o Ready,
                          RowDescription \o Numbered(n) \o <<<<"C", 0>>>> \o Ready,
                          RowDescription \o Numbered(n) \o Error \o Ready} : n \in 0..MaxRows}
    [] q = "E" -> UNION {{a \o <<<<"C", 0>>>>, Numbered(n) \o a \o <<<<"C", 0>>>>,
                          Numbered(n) \o Error} : n \in 0..MaxRows, a \in Acks}
    [] OTHER -> {}

\* When a session is ready for the next message it has sent all that this server
\* answers to the last one: for a query its row description, every row once and
\* in order across the suspensions at a full buffer, one CommandComplete or one
\* ErrorResponse, and one ReadyForQuery at the very end; for an Execute its rows
\* and then, once, what is owed and CommandComplete, or one ErrorResponse.
AnswersComplete ==
  \A i \in Slot : "readType" \in task[i] => reply[i] \in Expected(i, m_qtype[i])

\* Session i has a row that is being encoded, is in the buffer or was written.
RowInHand(i) ==
  \/ "result" \in task[i] /\ HasColumns(m_pPlan[i])
  \/ prepared[i] # <<>>
  \/ \E k \in 1..Len(reply[i]) : reply[i][k][1] = "D"

\* A cancelled session that has no row in hand never gets one again (if every
\* kind of plan checks the flag): m_bTerminate is never reset, so this goes for
\* the other clients that the SessionInfo will serve, too.
CancelIsFinal ==
  [][\A i \in Slot :
       m_bTerminate[i] /\ ~RowInHand(i) /\ "explain" \notin Kinds
         => m_bTerminate'[i] /\ ~RowInHand(i)']_vars

\* Every message is answered, or its session ends and its object is free for
\* the next client, unless the server goes down.
EveryMessageServed ==
  \A i \in Slot :
    "dispatch" \in task[i] ~> \/ task[i] \cap {"readType", "readLen"} # {}
                              \/ i \in FreeSlots
                              \/ crashed \/ server # "running"

\* The accept loop always comes back to listening, whatever happened to the
\* connection it accepted (or it needs more sessions than the bound).
AlwaysAccepting ==
  acceptor.state = "busy" ~>
    \/ acceptor.state = "listen"
    \/ acceptor.state = "ready" /\ m_sessions = MaxSessions
    \/ crashed

\* A signal brings the server down: every handler in progress finishes.
ShutdownCompletes == server = "stopping" ~> server = "down" \/ crashed
=============================================================================
