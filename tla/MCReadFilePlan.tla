--------------------------- MODULE MCReadFilePlan ---------------------------
(* Instances of ReadFilePlan: all short lines of two characters, separators   *)
(* and quotes.                                                                *)
EXTENDS ReadFilePlan

Characters == {"a", "b", ",", "q"}
Strings(n) == UNION {[1..k -> Characters] : k \in 0..n}
AllLines == Strings(5)

\* The first column may have two characters.
TwoColumns == <<2, 0>>
=============================================================================
