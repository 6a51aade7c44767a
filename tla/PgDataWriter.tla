---------------------------- MODULE PgDataWriter ----------------------------
(***************************************************************************)
(* How a result becomes messages (server/PgDataWriter and the build        *)
(* methods of server/PostgresProtocol): the bytes of a message are put     *)
(* into the network buffer one field after the other, and a message that   *)
(* does not fit is dropped whole and built again once the buffer has been  *)
(* written to the socket.                                                  *)
(*                                                                         *)
(* One statement is executed.  Nobody else touches the buffer meanwhile    *)
(* (PgServer!OneTaskPerSession), so a write of it is one step.  Texts are  *)
(* sequences of bytes, and what a value looks like as text is part of the  *)
(* value.                                                                  *)
(***************************************************************************)
EXTENDS Integers, SequencesExt

CONSTANTS
  Size,        \* the size of the network buffer
  Reserve,     \* what buildException keeps free of a message that is too long
  Statements   \* the statements and their results, see StatementOK

\* A column is its name, a row has one value per column, and fail says where the
\* plan throws: <<0, 0>> before the execution, <<r, 0>> in the next() that should
\* deliver row r, <<r, c>> in the getResult() of a column.
Byte == 0..255
Cell == [type : {"null", "string", "number", "date", "bytes"}, text : Seq(Byte)]

StatementOK(s) ==
  /\ s.sync \in BOOLEAN /\ s.parsed \in BOOLEAN /\ s.bound \in BOOLEAN
  /\ s.sync => ~s.parsed /\ ~s.bound
  /\ s.names \in Seq(Seq(Byte)) /\ s.rows \in Seq(Seq(Cell))
  /\ \A r \in 1..Len(s.rows) : Len(s.rows[r]) = Len(s.names)
  /\ s.fail \subseteq ((0..Len(s.rows) + 1) \X (0..Len(s.names)))
  /\ s.msg \in Seq(Byte) /\ s.pos \in Seq(Byte) /\ s.info \in Seq(Byte)

\* Sizes and numbers of columns are those of the integers that hold them.
MaxInt == 2147483647

ASSUME WriterAssumption ==
  /\ Size \in Nat /\ Size <= MaxInt /\ Reserve \in 0..Size
  /\ \A s \in Statements : StatementOK(s) /\ Len(s.names) < 65536

VARIABLES
  stmt,     \* the statement: sync for handleQuery, parsed and bound as in
            \* m_bParsed and m_bBinded, names, rows, fail, msg, pos and info
  pc,       \* "query", "begin", "result", "done", "error" or "read"
  m_pData,  \* the network buffer
  writer,   \* m_iWritten, m_iLastPrepare and m_bBufferFull of the PgDataWriter
  cur,      \* the row that the plan is at
  wire      \* the bytes that were written to the socket

vars == <<stmt, pc, m_pData, writer, cur, wire>>

-----------------------------------------------------------------------------
(* PgDataWriter.  A value w is the buffer with a writer on it.             *)

NewWriter == [written |-> 0, last |-> 0, full |-> FALSE]

On(data, w) == [data |-> data, written |-> w.written, last |-> w.last, full |-> w.full]
Of(w) == [written |-> w.written, last |-> w.last, full |-> w.full]

\* Bytes into the buffer from an offset on
Store(data, at, bytes) ==
  [k \in DOMAIN data |-> IF k - at \in 1..Len(bytes) THEN bytes[k - at] ELSE data[k]]

\* Big endian, as htonl and htons write it
Int16(v) == <<(v \div 256) % 256, v % 256>>
Int32(v) == <<(v \div 16777216) % 256, (v \div 65536) % 256, (v \div 256) % 256, v % 256>>

\* Mutant of Check: the last byte of the buffer is never used.
CheckTight(w, n) == ~w.full /\ w.written + n < Size

\* check()
Check(w, n) == ~w.full /\ w.written + n <= Size

\* check() and copy, as in operator<< of the integers, addInt32, addStringZeroEnd
\* and, behind the length, addString and addBytesString
Put(w, bytes) ==
  IF Check(w, Len(bytes))
  THEN [w EXCEPT !.data = Store(@, w.written, bytes), !.written = @ + Len(bytes)]
  ELSE [w EXCEPT !.full = TRUE]

\* addDateTimeAsString behind the length: strftime ends what it writes with a
\* zero, for which there must be room.
PutTime(w, s) ==
  IF Check(w, Len(s) + 1)
  THEN [w EXCEPT !.data = Store(@, w.written, s \o <<0>>), !.written = @ + Len(s)]
  ELSE [w EXCEPT !.full = TRUE]

ValueFits(s, available) == Len(s) < available

\* What snprintf writes: what there is room for, and a zero behind it
Printed(data, start, s) ==
  LET available == Size - start
      n == IF Len(s) < available THEN Len(s) ELSE available - 1
  IN IF available = 0 THEN data ELSE Store(data, start, SubSeq(s, 1, n) \o <<0>>)

\* addValueAsString: the text is printed where it belongs, and then its length
PutValue(w, s) ==
  IF ~Check(w, 4) THEN [w EXCEPT !.full = TRUE]
  ELSE LET printed == [w EXCEPT !.data = Printed(@, w.written + 4, s)] IN
       IF ValueFits(s, Size - w.written - 4)
       THEN [Put(printed, Int32(Len(s))) EXCEPT !.written = @ + Len(s)]
       ELSE [printed EXCEPT !.full = TRUE]

\* The fields of a message, by the way in which they are written
Bytes(bytes) == [by |-> "copy", text |-> bytes]
Value(s)     == [by |-> "snprintf", text |-> s]
Time(s)      == [by |-> "strftime", text |-> s]
ZeroEnd(s)   == Bytes(s \o <<0>>)

PutField(w, f) ==
  CASE f.by = "copy"     -> Put(w, f.text)
    [] f.by = "snprintf" -> PutValue(w, f.text)
    [] f.by = "strftime" -> PutTime(w, f.text)

\* Op(x), where x is evaluated only once
Then(x, Op(_)) == CHOOSE r \in {Op(v) : v \in {x}} : TRUE

\* Fields are written one after the other, and groups of fields, such as the
\* columns of a row.
PutFields(w, fields) ==
  LET upTo[k \in 0..Len(fields)] ==
        IF k = 0 THEN w ELSE Then(upTo[k - 1], LAMBDA v : PutField(v, fields[k]))
  IN upTo[Len(fields)]

PutGroups(w, groups) ==
  LET upTo[k \in 0..Len(groups)] ==
        IF k = 0 THEN w ELSE Then(upTo[k - 1], LAMBDA v : Then(groups[k], LAMBDA g : PutFields(v, g)))
  IN upTo[Len(groups)]

\* begin(): the length is written back later
Begin(w, type) == PutFields([w EXCEPT !.full = FALSE], <<Bytes(<<type>>), Bytes(Int32(0))>>)

\* end()
End(w) ==
  IF w.full THEN w
  ELSE [w EXCEPT !.data = Store(@, w.last + 1, Int32(w.written - w.last - 1)),
                 !.last = w.written]

WriteMessage(w, type, groups) == Then(PutGroups(Begin(w, type), groups), End)

-----------------------------------------------------------------------------
(* PostgresProtocol                                                        *)

\* The characters of the message types and of the fields of an error
C == 67
D == 68
E == 69
I == 73
M == 77
P == 80
S == 83
T == 84
Z == 90
One == 49
Two == 50

ERROR == <<69, 82, 82, 79, 82>>
SqlState == <<48, 48, 48, 48, 48>>

WriteSync(w, sync) == IF sync THEN WriteMessage(w, Z, <<<<Bytes(<<I>>)>>>>) ELSE w

\* DIGITS
Hex(d) == IF d < 10 THEN 48 + d ELSE 55 + d

\* The fields of a column, by its type (m_typeHandler)
FieldsOf(v) ==
  CASE v.type = "null"   -> <<Bytes(Int32(-1))>>
    [] v.type = "string" -> <<Bytes(Int32(Len(v.text))), Bytes(v.text)>>
    [] v.type = "number" -> <<Value(v.text)>>
    [] v.type = "date"   -> <<Bytes(Int32(Len(v.text))), Time(v.text)>>
    [] v.type = "bytes"  -> <<Bytes(Int32(2 + 2 * Len(v.text))),
         Bytes(<<92, 120>> \o [k \in 1..(2 * Len(v.text)) |->
           LET c == v.text[(k + 1) \div 2] IN Hex(IF k % 2 = 1 THEN c \div 16 ELSE c % 16)])>>

\* buildData.  (A getResult() that throws leaves nulls behind, in a message that
\* is never prepared.)
BuildData(w, row) ==
  WriteMessage(w, D, <<<<Bytes(Int16(Len(row)))>>>> \o [c \in 1..Len(row) |-> FieldsOf(row[c])])

\* m_typeHandler: the type that the description names
PgDataType(v) ==
  CASE v.type = "bytes"  -> 17
    [] v.type = "number" -> 23
    [] v.type = "date"   -> 1082
    [] OTHER             -> 1043

\* buildColumnDescription
BuildColumnDescription(data, names, types) ==
  WriteMessage(On(data, NewWriter), T,
    <<<<Bytes(Int16(Len(names)))>>>> \o [i \in 1..Len(names) |->
      <<ZeroEnd(names[i]), Bytes(Int32(0)), Bytes(Int16(i)), Bytes(Int32(types[i])),
        Bytes(Int16(-1)), Bytes(Int32(-1)), Bytes(Int16(0))>>])

\* buildExecutionDone
BuildExecutionDone(data, s) ==
  LET Ack(w, on, type) == IF on THEN WriteMessage(w, type, <<>>) ELSE w
      parsed == Ack(On(data, NewWriter), s.parsed, One)
      bound  == Ack(parsed, s.bound, Two)
      done   == WriteMessage(bound, C, <<<<ZeroEnd(s.info)>>>>)
  IN WriteSync(done, s.sync)

\* One attempt of buildException; without a position the field is left out.
TryException(data, msg, pos, sync) ==
  LET error == WriteMessage(On(data, NewWriter), E,
        <<<<Bytes(<<S>>), ZeroEnd(ERROR)>>, <<Bytes(<<C>>), ZeroEnd(SqlState)>>,
          <<Bytes(<<M>>), ZeroEnd(msg)>>,
          IF pos = <<>> THEN <<>> ELSE <<Bytes(<<P>>), ZeroEnd(pos)>>, <<Bytes(<<0>>)>>>>)
  IN WriteSync(error, sync)

\* Mutant of BuildException: what does not fit is not tried again.
BuildExceptionOnce(data, msg, pos, sync) == TryException(data, msg, pos, sync)

\* buildException: a message that does not fit is cut and tried again, once, as
\* what is left of it fits.
BuildException(data, msg, pos, sync) ==
  LET w == TryException(data, msg, pos, sync) IN
  IF w.full THEN TryException(w.data, SubSeq(msg, 1, Size - Reserve), pos, sync) ELSE w

-----------------------------------------------------------------------------
(* SessionInfo                                                             *)

Init ==
  /\ stmt \in Statements
  /\ pc = IF stmt.sync THEN "query" ELSE "begin"
  /\ m_pData = [k \in 1..Size |-> 255]
  /\ writer = NewWriter
  /\ cur = 0
  /\ wire = <<>>

\* doWrite: what is prepared is written, and then a handler called
DoWrite(w, handler) ==
  /\ wire' = wire \o SubSeq(w.data, 1, w.last)
  /\ m_pData' = w.data
  /\ writer' = NewWriter
  /\ pc' = handler

Throws(r, c) == <<r, c>> \in stmt.fail
Throw == pc' = "error" /\ UNCHANGED <<m_pData, writer, wire>>

\* The column types, taken from the first row
Types == [i \in 1..Len(stmt.names) |->
            IF stmt.rows = <<>> THEN 1043 ELSE PgDataType(stmt.rows[1][i])]

\* handleQuery from the point where the statement is planned
HandleQuery ==
  /\ pc = "query"
  /\ \/ Throws(0, 0) /\ Throw
     \/ ~Throws(0, 0) /\ stmt.names = <<>> /\ pc' = "begin" /\ UNCHANGED <<m_pData, writer, wire>>
     \/ /\ ~Throws(0, 0) /\ stmt.names # <<>>
        /\ \E w \in {BuildColumnDescription(m_pData, stmt.names, Types)} :
             (w.full /\ Throw) \/ (~w.full /\ DoWrite(w, "begin"))
  /\ UNCHANGED <<stmt, cur>>

\* handleExecutionBegin: begin() and the first next()
HandleExecutionBegin ==
  /\ pc = "begin"
  /\ \/ Throws(1, 0) /\ Throw /\ UNCHANGED cur
     \/ /\ ~Throws(1, 0)
        /\ pc' = IF stmt.rows = <<>> THEN "done" ELSE "result"
        /\ cur' = 1
        /\ UNCHANGED <<m_pData, writer, wire>>
  /\ UNCHANGED stmt

\* The next() at the end of the loop of handleExecutionResult, for a row
\* that is in the buffer or has no columns
NextRow(w) ==
  \/ Throws(cur + 1, 0) /\ Throw /\ UNCHANGED cur
  \/ /\ ~Throws(cur + 1, 0) /\ cur < Len(stmt.rows)
     /\ cur' = cur + 1
     /\ m_pData' = w.data /\ writer' = Of(w)
     /\ UNCHANGED <<pc, wire>>
  \/ /\ ~Throws(cur + 1, 0) /\ cur = Len(stmt.rows)
     /\ DoWrite(w, "done")
     /\ UNCHANGED cur

\* Mutant of Rebuilt: the row that did not fit is taken for written.
RebuiltNext == cur' = IF cur < Len(stmt.rows) THEN cur + 1 ELSE cur

\* handleExecutionResult is called again for the row that did not fit.
Rebuilt == cur' = cur

\* One round of the loop of handleExecutionResult
HandleExecutionResult ==
  /\ pc = "result"
  /\ \/ stmt.names = <<>> /\ NextRow(On(m_pData, writer))
     \/ /\ stmt.names # <<>>
        /\ \/ (\E c \in 1..Len(stmt.names) : Throws(cur, c)) /\ Throw /\ UNCHANGED cur
           \/ /\ \A c \in 1..Len(stmt.names) : ~Throws(cur, c)
              /\ \E w \in {BuildData(On(m_pData, writer), stmt.rows[cur])} :
                   (w.full /\ DoWrite(w, "result") /\ Rebuilt) \/ (~w.full /\ NextRow(w))
  /\ UNCHANGED stmt

HandleExecutionDone ==
  /\ pc = "done"
  /\ \E w \in {BuildExecutionDone(m_pData, stmt)} : DoWrite(w, "read")
  /\ UNCHANGED <<stmt, cur>>

\* The handlers of exceptions in readData, where a ParseException has a
\* position, and in doWrite
HandleException ==
  /\ pc = "error"
  /\ \E pos \in {<<>>} \cup (IF wire = <<>> THEN {stmt.pos} ELSE {}) :
       \E w \in {BuildException(m_pData, stmt.msg, pos, stmt.sync)} : DoWrite(w, "read")
  /\ UNCHANGED <<stmt, cur>>

Answered == pc = "read" /\ UNCHANGED vars

Next ==
  \/ HandleQuery \/ HandleExecutionBegin \/ HandleExecutionResult
  \/ HandleExecutionDone \/ HandleException \/ Answered

\* The handlers are called as long as the client reads.
Spec == Init /\ [][Next]_vars /\ WF_vars(Next)

-----------------------------------------------------------------------------
(* The client: it splits the bytes into messages and rows.                 *)

\* The numbers at a place of some bytes
Short(bytes, p) == 256 * bytes[p] + bytes[p + 1]
Long(bytes, p)  == 65536 * Short(bytes, p) + Short(bytes, p + 2)

Malformed == [type |-> -1, body |-> <<>>]

Messages(bytes) ==
  LET from[p \in 1..(Len(bytes) + 1)] ==
        LET rest == SubSeq(bytes, p, Len(bytes))
            len  == Long(rest, 2) IN
        IF rest = <<>> THEN <<>>
        ELSE IF Len(rest) < 5 \/ len \notin 4..(Len(rest) - 1) THEN <<Malformed>>
        ELSE <<[type |-> rest[1], body |-> SubSeq(rest, 6, 1 + len)]>> \o from[p + 1 + len]
  IN from[1]

\* The texts of columns; <<-1>> stands for null and <<-2>> for what is no text.
TextsOf(bytes) ==
  LET from[p \in 1..(Len(bytes) + 1)] ==
        LET rest == SubSeq(bytes, p, Len(bytes))
            null == SubSeq(rest, 1, 4) = Int32(-1)
            len  == IF null THEN 0 ELSE Long(rest, 1) IN
        IF rest = <<>> THEN <<>>
        ELSE IF Len(rest) < 4 \/ 4 + len > Len(rest) THEN <<<<-2>>>>
        ELSE <<IF null THEN <<-1>> ELSE SubSeq(rest, 5, 4 + len)>> \o from[p + 4 + len]
  IN from[1]

RowOf(body) ==
  LET texts == TextsOf(SubSeq(body, 3, Len(body)))
  IN IF Len(body) >= 2 /\ Len(texts) = Short(body, 1) THEN texts ELSE <<<<-2>>>>

Received == Messages(wire)

\* Which of the messages have a type
Places(messages, type) == {k \in DOMAIN messages : messages[k].type = type}
Has(messages, type) == Places(messages, type) # {}

\* The place of the k-th of them
Nth(places, k) == CHOOSE p \in places : Cardinality({q \in places : q <= p}) = k

-----------------------------------------------------------------------------
(* Properties                                                              *)

\* A byte string as the digits of its bytes
Digits == <<48, 49, 50, 51, 52, 53, 54, 55, 56, 57, 65, 66, 67, 68, 69, 70>>
HexText(s) ==
  <<92, 120>> \o FlattenSeq([k \in 1..Len(s) |-> <<Digits[(s[k] \div 16) + 1], Digits[(s[k] % 16) + 1]>>])

TextOf(v) ==
  CASE v.type = "null"  -> <<-1>>
    [] v.type = "bytes" -> HexText(v.text)
    [] OTHER            -> v.text

\* The rows among the messages
Delivered(messages) ==
  IF Has(messages, -1) THEN <<<<<<-2>>>>>>
  ELSE Then(Places(messages, D), LAMBDA places :
         [k \in 1..Cardinality(places) |-> RowOf(messages[Nth(places, k)].body)])

StatusOf(messages) == IF Has(messages, E) THEN "failed" ELSE IF Has(messages, C) THEN "complete" ELSE "rows"

Stream == INSTANCE ResultStream WITH
  result    <- IF stmt.names = <<>> THEN <<>>
               ELSE [r \in 1..Len(stmt.rows) |-> [c \in 1..Len(stmt.names) |-> TextOf(stmt.rows[r][c])]],
  delivered <- Then(Received, Delivered),
  status    <- Then(Received, StatusOf)

\* What the client reads is the result: at a buffer that is full at any byte of
\* a row, the row is dropped whole, the rows before it are written, and the same
\* row is built again behind them (the loop of handleExecutionResult).
DeliversResult == Stream!Spec

\* The body of an error response with a message
ErrorBody(msg, pos) ==
  <<S>> \o ERROR \o <<0, C>> \o SqlState \o <<0, M>> \o msg \o <<0>>
  \o (IF pos = <<>> THEN <<>> ELSE <<P>> \o pos \o <<0>>) \o <<0>>

If(b, type) == IF b THEN <<type>> ELSE <<>>

\* When the next message is read, the answer consists of whole messages, in the
\* order in which this server sends them: the description of a query first, the
\* acknowledgements that are owed between the rows and CommandComplete (Postgres
\* has them before the rows), an error response with all of its text or its first
\* Size - Reserve characters (buildException), and one ReadyForQuery, at the end,
\* if it was a query.
AnswerFramed ==
  pc = "read" =>
    LET types == [k \in 1..Len(Received) |-> Received[k].type]
        end   == If(stmt.sync, Z)
        head  == If(Has(Received, T), T) \o [k \in 1..Cardinality(Places(Received, D)) |-> D]
        done  == If(stmt.parsed, One) \o If(stmt.bound, Two) \o <<C>>
    IN /\ types \in {head \o done \o end, head \o <<E>> \o end}
       /\ Has(Received, T) => stmt.sync
       /\ Has(Received, C) /\ stmt.sync /\ stmt.names # <<>> => Has(Received, T)
       /\ \A k \in 1..Len(types) : types[k] = E =>
             \E n \in 0..Len(stmt.msg), pos \in {<<>>, stmt.pos} :
               /\ Received[k].body = ErrorBody(SubSeq(stmt.msg, 1, n), pos)
               /\ n = Len(stmt.msg) \/ n = Size - Reserve

\* The sizes of the messages at the end of an answer
OptionalSize(on, size) == IF on THEN size ELSE 0
PositionSize(pos) == IF pos = <<>> THEN 0 ELSE 2 + Len(pos)
ErrorSize(n, pos) == (22 + n) + PositionSize(pos)
DoneSize(s) ==
  ((OptionalSize(s.parsed, 5) + OptionalSize(s.bound, 5)) + (5 + (Len(s.info) + 1))) + OptionalSize(s.sync, 6)

\* They fit into the buffer: what ends an execution, and an error response of a
\* query; that of another statement at least when it is cut.
ErrorRoom(msg, pos, sync) ==
  IF sync THEN ErrorSize(Len(msg), pos) + 6 <= Size
  ELSE ErrorSize(Len(msg), pos) <= Size \/ ErrorSize(Size - Reserve, pos) <= Size

MessagesFit ==
  \A s \in Statements : DoneSize(s) <= Size /\ \A pos \in {<<>>, s.pos} : ErrorRoom(s.msg, pos, s.sync)

\* The bytes of a row, and one more for the zero that snprintf and strftime put
\* behind a number or a date
RowSize(row) ==
  LET Field(v) == 4 + (IF v.type = "null" THEN 0 ELSE Len(TextOf(v)))
  IN FoldLeft(LAMBDA n, v : n + Field(v), 7, row)
     + (IF row # <<>> /\ row[Len(row)].type \in {"number", "date"} THEN 1 ELSE 0)

\* A result whose rows fit into the buffer one at a time is written to its end,
\* or to an error.  A larger row never is: handleExecutionResult writes the
\* rows before it and then calls itself for ever.
RowsThatFitAreWritten ==
  (\A r \in 1..Len(stmt.rows) : RowSize(stmt.rows[r]) <= Size) ~> pc = "read"
=============================================================================
