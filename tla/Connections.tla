----------------------------- MODULE Connections ----------------------------
(***************************************************************************)
(* What the server does as its clients see it: one session at a time waits *)
(* for a connection, a session serves one client at a time and one message *)
(* of it at a time, and a server that is stopped takes up neither          *)
(* connections nor messages, but ends what it has begun.                   *)
(***************************************************************************)
CONSTANT Session

VARIABLES
  phase,   \* of each session: "free", "listening", "idle" (waiting for a
           \* message) or "busy" (with a message, or with the start or the end)
  up       \* the server has not been stopped

connVars == <<phase, up>>

Init ==
  /\ phase = [s \in Session |-> "free"]
  /\ up = TRUE

Move(s, from, to) ==
  /\ phase[s] = from
  /\ phase' = [phase EXCEPT ![s] = to]
  /\ UNCHANGED up

Listen(s) == Move(s, "free", "listening") /\ \A r \in Session : phase[r] # "listening"
Connect(s) == Move(s, "listening", "busy") /\ up
Receive(s) == Move(s, "idle", "busy") /\ up
Answer(s) == Move(s, "busy", "idle")
Close(s) == Move(s, "busy", "free")

Stop == up /\ up' = FALSE /\ UNCHANGED phase

Next ==
  \/ \E s \in Session : Listen(s) \/ Connect(s) \/ Receive(s) \/ Answer(s) \/ Close(s)
  \/ Stop

Spec == Init /\ [][Next]_connVars
=============================================================================
