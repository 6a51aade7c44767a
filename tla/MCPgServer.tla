----------------------------- MODULE MCPgServer -----------------------------
(* Instances of PgServer for model checking; the values are in the cfg files. *)
EXTENDS PgServer
=============================================================================
