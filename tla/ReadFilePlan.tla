---------------------------- MODULE ReadFilePlan ----------------------------
(***************************************************************************)
(* The scan of a CSV file (execution/ReadFilePlan).  A line is split into  *)
(* its fields in place: quotes are dropped by moving the characters behind *)
(* them forward within m_line, while the fields found so far are views of  *)
(* its beginning.  All columns are strings here, as the others convert a   *)
(* field when it is found.                                                 *)
(***************************************************************************)
EXTENDS Naturals, FiniteSets, Sequences

CONSTANTS
  Character,   \* the characters of a file
  Lines,       \* its lines
  Limit,       \* Limit[c]: the defined length of column c, 0 if it has none
  Quote,       \* the character '"'
  Separator    \* m_separator

ASSUME FileAssumption ==
  /\ Lines \subseteq Seq(Character)
  /\ Limit \in Seq(Nat) /\ Limit # <<>>
  /\ Quote # Separator

VARIABLES
  pc,           \* "closed", "open", "line" (in the loop of next()), "row" (next() has
                \* returned a row), "refused" (a field was too long) or "failed"
  m_line,       \* the line, as far as it has been rewritten
  i,            \* the index of the loop
  state,        \* "OutOfQuote", "BeginQuote" or "InQuote"
  targetIndex,  \* where the next character goes
  beginToken,   \* where the current field begins
  tokenIndex,   \* the current field
  m_result,     \* of each column: its view of m_line, as first index and size
  source        \* history: the line as it was read

loopVars == <<m_line, i, state, targetIndex, beginToken, tokenIndex, source>>
vars == <<pc, loopVars, m_result>>

Column == 1..Len(Limit)
View(v) == SubSeq(m_line, v.from + 1, v.from + v.size)
Empty == [from |-> 0, size |-> 0]

TypeOK ==
  /\ pc \in {"closed", "open", "line", "row", "refused", "failed"}
  /\ m_line \in Seq(Character) /\ source \in Seq(Character)
  /\ i \in Nat /\ targetIndex \in Nat /\ beginToken \in Nat /\ tokenIndex \in Nat
  /\ state \in {"OutOfQuote", "BeginQuote", "InQuote"}
  /\ m_result \in [Column -> [from: Nat, size: Nat]]

Init ==
  /\ pc = "closed"
  /\ m_line = <<>> /\ source = <<>>
  /\ i = 0 /\ state = "OutOfQuote"
  /\ targetIndex = 0 /\ beginToken = 0 /\ tokenIndex = 0
  /\ m_result = [c \in Column |-> Empty]

\* begin(): the file may be missing, and m_result keeps what it has.  (A first
\* line that is ignored is gone from m_line with the next one.)
Begin ==
  /\ pc \in {"closed", "refused", "failed"}
  /\ pc' \in {"open", "failed"}
  /\ UNCHANGED <<loopVars, m_result>>

\* The last next() and end(), which is not called after an exception
End ==
  /\ pc \in {"open", "row"}
  /\ pc' = "closed"
  /\ UNCHANGED <<loopVars, m_result>>

\* next(): a line is read
ReadLine ==
  /\ pc \in {"open", "row"}
  /\ \E line \in Lines : m_line' = line /\ source' = line
  /\ i' = 0 /\ state' = "OutOfQuote"
  /\ targetIndex' = 0 /\ beginToken' = 0 /\ tokenIndex' = 0
  /\ pc' = "line"
  /\ UNCHANGED m_result

\* next(): a line is read, and the execution has been cancelled
Cancelled ==
  /\ pc \in {"open", "row"}
  /\ pc' = "failed"
  /\ UNCHANGED <<loopVars, m_result>>

Scanning == pc = "line" /\ i < Len(m_line) /\ tokenIndex < Len(Limit)
Char == m_line[i + 1]

\* The field that ends before targetIndex
Token == [from |-> beginToken, size |-> targetIndex - beginToken]

\* Mutant of TooLong: the size is taken from the line and not from the field.
TooLongRaw(c) == Limit[c] > 0 /\ i - beginToken > Limit[c]

TooLong(c) == Limit[c] > 0 /\ Token.size > Limit[c]

\* The end of a round of the loop, after continue
Skip(s) ==
  /\ i' = i + 1
  /\ state' = s
  /\ UNCHANGED <<pc, m_line, targetIndex, beginToken, tokenIndex, m_result, source>>

\* The end of a round of the loop, after break
Keep(s) ==
  /\ m_line' = [m_line EXCEPT ![targetIndex + 1] = Char]
  /\ targetIndex' = targetIndex + 1
  /\ i' = i + 1
  /\ state' = s
  /\ UNCHANGED <<pc, beginToken, tokenIndex, m_result, source>>

\* Mutant of NextBegin: the separator is taken for part of the rewritten line.
NextBeginSkips == targetIndex + 1

\* Where the field behind a separator begins
NextBegin == targetIndex

\* Mutant of EndField: each field is moved to the beginning of the line.
EndFieldResets ==
  /\ tokenIndex' = tokenIndex + 1
  /\ m_result' = [m_result EXCEPT ![tokenIndex + 1] = Token]
  /\ beginToken' = 0 /\ targetIndex' = 0
  /\ i' = i + 1
  /\ UNCHANGED <<pc, m_line, state, source>>

\* A separator ends a field: setToken()
EndField ==
  /\ tokenIndex' = tokenIndex + 1
  /\ IF TooLong(tokenIndex + 1)
     THEN pc' = "refused" /\ UNCHANGED <<i, beginToken, m_result>>
     ELSE /\ m_result' = [m_result EXCEPT ![tokenIndex + 1] = Token]
          /\ beginToken' = NextBegin
          /\ i' = i + 1
          /\ UNCHANGED pc
  /\ UNCHANGED <<m_line, state, targetIndex, source>>

OutOfQuote ==
  /\ Scanning /\ state = "OutOfQuote"
  /\ \/ Char = Quote /\ Skip("BeginQuote")
     \/ Char = Separator /\ EndField
     \/ Char \notin {Quote, Separator} /\ Keep("OutOfQuote")

BeginQuote ==
  /\ Scanning /\ state = "BeginQuote"
  /\ Keep(IF Char = Quote THEN "OutOfQuote" ELSE "InQuote")

InQuote ==
  /\ Scanning /\ state = "InQuote"
  /\ IF Char = Quote THEN Skip("OutOfQuote") ELSE Keep("InQuote")

\* Mutant of Filled: the columns without a field keep their value.
FilledNot(c) == m_result[c]

Filled(c) == Empty

\* Behind the loop: the last field, and the columns for which there is none
LineDone ==
  /\ pc = "line" /\ ~Scanning
  /\ IF tokenIndex < Len(Limit) /\ TooLong(tokenIndex + 1)
     THEN pc' = "refused" /\ UNCHANGED m_result
     ELSE /\ pc' = "row"
          /\ m_result' = [c \in Column |-> IF c <= tokenIndex THEN m_result[c]
                                           ELSE IF c = tokenIndex + 1 THEN Token ELSE Filled(c)]
  /\ UNCHANGED loopVars

Next ==
  \/ Begin \/ End \/ ReadLine \/ Cancelled
  \/ OutOfQuote \/ BeginQuote \/ InQuote \/ LineDone

Spec == Init /\ [][Next]_vars

-----------------------------------------------------------------------------
(* A line of a CSV file, by definition: a quote opens or closes a quoted   *)
(* part, and a doubled quote that would open and close an empty one stands *)
(* for a quote (test/load_test.py:13,26 writes and expects one).           *)

QuotesBefore(line, k) == Cardinality({j \in 1..(k - 1) : line[j] = Quote})
Outside(line, k) == QuotesBefore(line, k) % 2 = 0

Ends(line) == {k \in 1..Len(line) : line[k] = Separator /\ Outside(line, k)}

\* The place of the f-th field: the number of fields that end before it is f - 1.
InField(line, f, k) ==
  k \notin Ends(line) /\ Cardinality({e \in Ends(line) : e < k}) = f - 1

\* The character at k is part of its field.
Stands(line, k) == line[k] = Quote => k > 1 /\ line[k - 1] = Quote /\ ~Outside(line, k)

\* The characters of the f-th field; a line has as many as one asks for
Field(line, f) ==
  LET places == {k \in 1..Len(line) : InField(line, f, k) /\ Stands(line, k)}
      nth(n) == CHOOSE k \in places : Cardinality({j \in places : j <= k}) = n
  IN [n \in 1..Cardinality(places) |-> line[nth(n)]]

-----------------------------------------------------------------------------
(* Properties.                                                             *)

\* Whenever a row can be read, each column has its field of the line, though the
\* line was rewritten under the views that were taken of it and m_result still
\* held the row before: quotes are dropped except for the doubled ones, a separator
\* in quotes is part of the field, fields that the line lacks are empty and those it
\* has too many ignored.
RowRight ==
  pc = "row" => \A c \in Column :
    /\ m_result[c].from + m_result[c].size <= Len(m_line)
    /\ View(m_result[c]) = Field(source, c)

\* The inductive invariant of the loop: it writes behind the place where it reads,
\* and the fields found so far lie behind the place where it writes.
LoopInv ==
  pc = "line" =>
    /\ beginToken <= targetIndex /\ targetIndex <= i /\ i <= Len(m_line)
    /\ tokenIndex <= Len(Limit)
    /\ \A c \in Column : c <= tokenIndex => m_result[c].from + m_result[c].size <= beginToken

\* Once a field has been found, nothing that next() does with the rest of the line
\* changes it, until the next line is read into m_line.
FieldsStay ==
  [][pc = "line" => \A c \in Column : c <= tokenIndex =>
       SubSeq(m_line', m_result'[c].from + 1, m_result'[c].from + m_result'[c].size) = View(m_result[c])]_vars

\* setToken refuses a line if, and only if, one of its fields is longer than its
\* column: quotes do not count, nor do fields without a column.
RefusedIffTooLong ==
  LET long == \E c \in Column : Limit[c] > 0 /\ Len(Field(source, c)) > Limit[c] IN
  /\ pc = "row" => ~long
  /\ pc = "refused" => long
=============================================================================
