--------------------------- MODULE SessionManager ---------------------------
(***************************************************************************)
(* The table of SessionInfo objects and the stack of the free ones         *)
(* (server/SessionManager.{h,cpp}).  A SessionInfo is created once, named  *)
(* by its index, and recycled for later connections; the index is also the *)
(* process id a client quotes in a cancel request.  Every call holds       *)
(* m_mutex and is one atomic step.                                         *)
(***************************************************************************)
EXTENDS Naturals, Sequences

CONSTANT MaxSessions   \* bound: number of SessionInfo objects

ASSUME MaxSessionsAssumption == MaxSessions \in Nat \ {0}

VARIABLES
  m_sessions,          \* number of SessionInfo objects created
  m_free               \* indices of the free ones, used as a stack

mgrVars == <<m_sessions, m_free>>

Slot == 0..(MaxSessions - 1)

MgrTypeOK ==
  /\ m_sessions \in 0..MaxSessions
  /\ m_free \in Seq(Slot)

MgrInit ==
  /\ m_sessions = 0
  /\ m_free = <<>>

\* The index allocSession() returns.
AllocSlot == IF m_free = <<>> THEN m_sessions ELSE m_free[Len(m_free)]

\* Mutant of AllocSession: the index stays on the free stack.
AllocSessionKeeps ==
  IF m_free = <<>>
  THEN m_sessions < MaxSessions /\ m_sessions' = m_sessions + 1 /\ UNCHANGED m_free
  ELSE UNCHANGED <<m_free, m_sessions>>

\* allocSession(): a new object is only made while the bound allows it.
AllocSession ==
  IF m_free = <<>>
  THEN /\ m_sessions < MaxSessions
       /\ m_sessions' = m_sessions + 1
       /\ UNCHANGED m_free
  ELSE /\ m_free' = SubSeq(m_free, 1, Len(m_free) - 1)
       /\ UNCHANGED m_sessions

\* freeSession()
FreeSession(i) ==
  /\ m_free' = Append(m_free, i)
  /\ UNCHANGED m_sessions
=============================================================================
