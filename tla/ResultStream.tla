---------------------------- MODULE ResultStream ----------------------------
(***************************************************************************)
(* What the execution of a statement promises to the client: the rows of   *)
(* the result arrive whole, in order and once each, any number at a time,  *)
(* and then one message says that this was all.  An error may end the      *)
(* stream at any point, but not after the end.                             *)
(***************************************************************************)
EXTENDS Naturals, Sequences

VARIABLES
  result,      \* the rows of the result
  delivered,   \* the rows that the client has received
  status       \* "rows", "complete" or "failed"

streamVars == <<result, delivered, status>>

Init == delivered = <<>> /\ status = "rows"

Deliver ==
  /\ status = "rows"
  /\ \E n \in (Len(delivered) + 1)..Len(result) : delivered' = SubSeq(result, 1, n)
  /\ UNCHANGED <<result, status>>

Complete ==
  /\ status = "rows"
  /\ delivered = result
  /\ status' = "complete"
  /\ UNCHANGED <<result, delivered>>

Fail ==
  /\ status = "rows"
  /\ status' = "failed"
  /\ UNCHANGED <<result, delivered>>

Next == Deliver \/ Complete \/ Fail

Spec == Init /\ [][Next]_streamVars
=============================================================================
