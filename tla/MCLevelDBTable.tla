--------------------------- MODULE MCLevelDBTable ----------------------------
(* An instance of LevelDBTable: a table of four columns a:int32, b:varchar,   *)
(* c:varchar and d:int16 with the key a, b.  Numbers have 3 and 2 bits, a     *)
(* length has three, so that 7 marks MaxString, and the characters of strings *)
(* are bits, which are easily taken for lengths or numbers.                   *)
EXTENDS LevelDBTable

IntWidths   == [int16 |-> 2, int32 |-> 3]
FourColumns == <<"int32", "string", "string", "int16">>
KeyAB       == <<1, 2>>

Ones(n) == StringResult([i \in 1..n |-> 1])

\* A row has 11 bits beside its characters.  (A string of 4 is left out: with
\* its header it has the size 7.)
Row(a, b, c, d) == <<IntResult(a), b, c, IntResult(d)>>

Good ==
  {Row(a, b, Ones(0), -2) : a \in {-4, 1}, b \in {Ones(0), Ones(6), StringResult(<<0, 1>>)}}
    \cup {Row(-4, Ones(0), Ones(1), -2), Row(1, Ones(6), Ones(1), 1)}

\* One integer and one string that do not fit their types
Bad == {Row(4, Ones(0), Ones(0), 1), Row(1, Ones(1), Ones(7), 1)}

MCInserts == {<<x>> : x \in Good \cup Bad} \cup {<<x, y>> : x \in Good, y \in Good \cup Bad}

\* Two empty rows fill a block of 22, one bit more does not fit behind the
\* first, and a long row does not fit any block.
Empty == Row(0, Ones(0), Ones(0), -1)
More  == Row(0, Ones(1), Ones(0), 1)
Full  == Row(3, Ones(6), Ones(0), 1)
Long  == Row(-1, Ones(6), Ones(6), 0)

MCLiterals ==
  {<<Full, Full, Full>>, <<Empty, Empty, Full>>, <<Empty, More, Empty>>, <<Empty, Long>>}
    \cup {<<Empty, x, Empty>> : x \in Bad}

MCRowValues == Good \cup Bad \cup {Empty, More, Full, Long}
=============================================================================
