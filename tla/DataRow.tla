------------------------------- MODULE DataRow -------------------------------
(***************************************************************************)
(* Rows as bytes (execution/DataRow and the type handlers of               *)
(* execution/DBDataTypeHandler): the columns of a row one behind the       *)
(* other, an integer with the width of its type, a string as its length,   *)
(* of type uint16_t, followed by its characters.                           *)
(*                                                                         *)
(* Memory is a sequence of bits, the lengths and widths are scaled down,   *)
(* and offsets count from 0 as in the code.  The bits of a number stand in *)
(* the order of their weight.                                              *)
(***************************************************************************)
EXTENDS Integers, Sequences, SequencesExt

CONSTANTS
  Header,    \* sizeof(uint16_t)
  Width      \* the integer types and their sizes: a function

ASSUME RowAssumption ==
  /\ Header \in Nat \ {0}
  /\ \A t \in DOMAIN Width : Width[t] \in Nat \ {0}

\* Powers of two
TwoTo[n \in Nat] == IF n = 0 THEN 1 ELSE 2 * TwoTo[n - 1]

\* std::numeric_limits<uint16_t>::max
MaxLength == TwoTo[Header] - 1

\* ExecutionResult: a string, the value above all strings, or an integer
StringResult(chars) == [kind |-> "string", chars |-> chars]
MaxString           == [kind |-> "maxString"]
IntResult(n)        == [kind |-> "int", value |-> n]

\* The results there are; the characters of a string are bits.
IsResult(result) ==
  \/ result = MaxString
  \/ result.kind = "string" /\ result = StringResult(result.chars) /\ result.chars \in Seq({0, 1})
  \/ result.kind = "int" /\ result = IntResult(result.value) /\ result.value \in Int

\* A row has a result for every column.
IsRow(types, results) ==
  /\ types \in Seq(DOMAIN Width \cup {"string"})
  /\ results = [i \in DOMAIN types |-> results[i]]
  /\ \A i \in DOMAIN types : IsResult(results[i])

\* What a read past the end of the memory yields
Garbage == [kind |-> "garbage"]

-----------------------------------------------------------------------------

\* The w bits of n, two's complement if n is negative
Encode(n, w) == [i \in 1..w |-> (n \div TwoTo[w - i]) % 2]

Unsigned(bits) == FoldLeft(LAMBDA n, bit : 2 * n + bit, 0, bits)

Signed(bits) == IF bits[1] = 1 THEN Unsigned(bits) - TwoTo[Len(bits)] ELSE Unsigned(bits)

\* checkValue
FitsType(t, n) == -(TwoTo[Width[t] - 1]) <= n /\ n <= TwoTo[Width[t] - 1] - 1

\* getString and getInt throw for a result of another kind.
RightKind(t, result) ==
  IF t = "string" THEN result.kind \in {"string", "maxString"} ELSE result.kind = "int"

\* getSize of a result that is to be written; the size of an integer does not
\* depend on the result, which is not looked at.
ResultSize(t, result) ==
  CASE t # "string"                               -> Width[t]
    [] t = "string" /\ result.kind = "maxString"  -> Header
    [] t = "string" /\ result.kind = "string"     -> Header + Len(result.chars)

ComputeSizeThrows(types, results) ==
  \E i \in DOMAIN types : types[i] = "string" /\ ~RightKind("string", results[i])

ComputeSize(types, results) ==
  FoldLeft(+, 0, [i \in DOMAIN types |-> ResultSize(types[i], results[i])])

\* write
WriteThrows(t, result) ==
  \/ ~RightKind(t, result)
  \/ result.kind = "string" /\ Len(result.chars) >= MaxLength
  \/ result.kind = "int" /\ ~FitsType(t, result.value)

Written(t, result) ==
  CASE result.kind = "int"       -> Encode(result.value, Width[t])
    [] result.kind = "maxString" -> Encode(MaxLength, Header)
    [] result.kind = "string"    -> Encode(Len(result.chars), Header) \o result.chars

CopyThrows(types, results) == \E i \in DOMAIN types : WriteThrows(types[i], results[i])

\* The memory after some bits have been written at an offset
Overwritten(memory, offset, bits) ==
  [i \in DOMAIN memory |-> IF offset < i /\ i <= offset + Len(bits) THEN bits[i - offset] ELSE memory[i]]

\* copy: each result is written behind the size of its predecessors.
Copy(types, results, memory, start) ==
  LET offset(i) == start + ComputeSize(SubSeq(types, 1, i - 1), SubSeq(results, 1, i - 1))
  IN  FoldLeft(LAMBDA m, i : Overwritten(m, offset(i), Written(types[i], results[i])),
               memory, [i \in DOMAIN types |-> i])

-----------------------------------------------------------------------------

\* The w bits at an offset
BitsAt(memory, offset, w) == SubSeq(memory, offset + 1, offset + w)

Inside(memory, offset, w) == offset >= 0 /\ offset + w <= Len(memory)

\* Mutant of SizeAt: the header is not counted.
SizeAtNoHeader(t, memory, offset) ==
  IF t # "string" THEN Width[t] ELSE Unsigned(BitsAt(memory, offset, Header))

\* getSize of a column that is stored at an offset.  For a string the sum of
\* length and header is compared with the length that marks MaxString.
SizeAt(t, memory, offset) ==
  IF t # "string" THEN Width[t]
  ELSE LET len == Unsigned(BitsAt(memory, offset, Header)) + Header
       IN  IF len = MaxLength THEN Header ELSE len

\* read
Read(t, memory, offset) ==
  LET len == Unsigned(BitsAt(memory, offset, Header))
  IN  CASE t # "string" /\ Inside(memory, offset, Width[t]) -> IntResult(Signed(BitsAt(memory, offset, Width[t])))
        [] t = "string" /\ Inside(memory, offset, Header) /\ len = MaxLength -> MaxString
        [] t = "string" /\ Inside(memory, offset, Header) /\ len < MaxLength
             /\ Inside(memory, offset + Header, len) -> StringResult(BitsAt(memory, offset + Header, len))
        [] OTHER -> Garbage

\* The offset that getResult reaches for column index of the row at start, or
\* -1 when it leaves the memory on its way
OffsetOf(types, memory, start, index) ==
  LET skip(offset, t) == IF Inside(memory, offset, IF t = "string" THEN Header ELSE Width[t])
                         THEN offset + SizeAt(t, memory, offset) ELSE -1
  IN  FoldLeft(skip, start, SubSeq(types, 1, index - 1))

GetResult(types, memory, start, index) ==
  Read(types[index], memory, OffsetOf(types, memory, start, index))

GetResults(types, memory, start) ==
  [i \in DOMAIN types |-> GetResult(types, memory, start, i)]

\* compare of two results of a type returns a negative number: characters are
\* compared from the left, and what is missing comes first.
Less(a, b) ==
  CASE a.kind = "int" -> a.value < b.value
    [] a.kind = "string" /\ b.kind = "string" ->
         \E n \in 0..Len(a.chars) :
           /\ n < Len(b.chars)
           /\ SubSeq(a.chars, 1, n) = SubSeq(b.chars, 1, n)
           /\ n < Len(a.chars) => a.chars[n + 1] < b.chars[n + 1]
    [] OTHER -> a.kind # "maxString" /\ b.kind = "maxString"

\* compare of two rows does: the first column in which they differ decides.
RowLess(types, a, b) ==
  \E i \in DOMAIN types :
    /\ \A j \in 1..(i - 1) : a[j] = b[j]
    /\ Less(a[i], b[i])

\* DataRow::compare returns 0 for the rows at the beginning of a and b.
SameRow(types, a, b) == GetResults(types, a, 0) = GetResults(types, b, 0)
=============================================================================
