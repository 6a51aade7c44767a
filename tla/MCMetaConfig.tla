---------------------------- MODULE MCMetaConfig -----------------------------
(* An instance of MetaConfig: tables a and b with columns x, y and z.         *)
EXTENDS MetaConfig

Table          == [kind |-> "[table]"]
Name(n)        == [kind |-> "name", name |-> n]
Column(n, t)   == [kind |-> "column", name |-> n, type |-> t]
Key(names)     == [kind |-> "key", names |-> names]
Path           == [kind |-> "path"]
Other          == [kind |-> "other"]

AllLines ==
  {Table, Path, Other, Name("a"), Name("b"), Column("x", "int32"), Column("y", "varchar"), Column("z", "nothing"),
   Key(<<"x">>), Key(<<"y", "x">>), Key(<<"z">>)}

\* The order in which a careful author writes the lines of a table: its name and
\* path once and first, columns with different names, and the key.
InOrder(i) ==
  LET line      == file[i]
      n         == TableOf(i - 1)
      of(kind)  == {j \in LinesOf(n, kind) : j < i}
  IN  CASE line.kind = "[table]" -> n = 0 \/ of("path") # {}
        [] line.kind = "name"    -> n # 0 /\ of("name") = {}
        [] line.kind = "path"    -> of("name") # {} /\ of("path") = {}
        [] line.kind = "column"  -> of("path") # {} /\ of("key") = {} /\ \A j \in of("column") : file[j].name # line.name
        [] line.kind = "key"     -> of("path") # {} /\ of("key") = {}
        [] OTHER                 -> TRUE

\* Bound: two lines are where the author would not have them, or are missing.
MaxSurprises == 2

FewSurprises == Cardinality({i \in DOMAIN file : ~InOrder(i)}) <= MaxSurprises
=============================================================================
