--------------------------- MODULE MCPgDataWriter ---------------------------
(* Instances of PgDataWriter for a buffer of 48 bytes: a description of two   *)
(* columns with names of one character takes 47 of them, a row of one column  *)
(* 11 and its text.                                                           *)
EXTENDS PgDataWriter

Chars(n, c) == [k \in 1..n |-> c]
Val(type, n) == [type |-> type, text |-> Chars(n, 97)]
Null == [type |-> "null", text |-> <<>>]

\* Lengths at which one, two or three rows fill the buffer, or nearly do
Values ==
  {Val("string", n) : n \in {0, 13, 37, 38}} \cup {Val("number", n) : n \in {1, 13, 36, 37}}
  \cup {Val("date", 10), [type |-> "bytes", text |-> <<0, 175>>], Null}

SeqsUpTo(X, n) == UNION {[1..k -> X] : k \in 0..n}

OneColumn == {<<v>> : v \in Values}
TwoColumns == {<<Val("string", m), v>> : m \in {0, 16}, v \in {Val("number", 16), Val("number", 17), Val("date", 10), Null}}

Statement(sync, acks, names, rows, fail, msg, pos) ==
  [sync |-> sync, parsed |-> acks > 0, bound |-> acks > 1, names |-> names, rows |-> rows,
   fail |-> fail, msg |-> Chars(msg, 109), pos |-> Chars(pos, 55), info |-> Chars(3, 105)]

\* Results of every kind, without an error
Results ==
  {Statement(TRUE, 0, <<Chars(1, 120)>>, rows, {}, 0, 0) : rows \in SeqsUpTo(OneColumn, 3)}
  \cup {Statement(FALSE, 2, <<Chars(1, 120), Chars(1, 121)>>, rows, {}, 0, 0) : rows \in SeqsUpTo(TwoColumns, 3)}

FewRows == {<<>>, <<<<Val("string", 13)>>>>, <<<<Val("string", 13)>>, <<Val("number", 13)>>>>}

\* Errors at every point, with texts at the limits of the buffer
Errors(syncs, msgs) ==
  {Statement(sync, IF sync THEN 0 ELSE 1, <<Chars(name, 120)>>, rows, {<<r, c>>}, msg, pos) :
     sync \in syncs, name \in {1, 30}, rows \in FewRows, r \in 0..3, c \in 0..1, msg \in msgs, pos \in 0..1}
Placed(statements) == {s \in statements : s.fail \subseteq ((0..Len(s.rows) + 1) \X (0..1))}

NoColumns == {Statement(sync, 0, <<>>, rows, {}, 0, 0) : sync \in BOOLEAN, rows \in {<<>>, <<<<>>>>, <<<<>>, <<>>>>}}

AllStatements ==
  Results \cup NoColumns
  \cup Placed(Errors({TRUE}, {0, 17})) \cup Placed(Errors({FALSE}, {0, 23, 24, 25, 26, 27, 60}))

\* What PgDataWriter_proofs assumes holds here.
ASSUME EndsFit == MessagesFit
=============================================================================
