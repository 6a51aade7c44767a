---------------------------- MODULE MCParseResult ----------------------------
(* Instances of ParseResult: every kind of statement.                         *)
EXTENDS ParseResult

Stmt(name, size, params, kind) == [name |-> name, size |-> size, params |-> params, kind |-> kind]

Small    == Stmt("small", 2, 1, "ok")
Large    == Stmt("large", 4, 2, "ok")
Plain    == Stmt("plain", 3, 0, "ok")
TooLarge == Stmt("toolarge", 8, 1, "ok")
Wrong    == Stmt("wrong", 3, 1, "syntax")
Unknown  == Stmt("unknown", 3, 1, "unsupported")
NoTable  == Stmt("notable", 2, 0, "refused")
NoColumn == Stmt("nocolumn", 3, 1, "refused")
Set      == Stmt("none", 0, 0, "bypassed")

AllStatements  == {Small, Large, Plain, TooLarge, Wrong, Unknown, NoTable, NoColumn, Set}
=============================================================================
