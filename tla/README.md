# TLA+ models of level_pgserver

level_pgserver is a SQL server: it speaks the Postgres wire protocol, with some
liberties (see Known deviations), on top of LevelDB tables. This directory holds TLA+ modules translated from its C++ code,
the TLC instances that check them, and proofs that TLAPS checks.

## Inventory

| Component | State | Operations | Hard parts | What makes it correct |
|---|---|---|---|---|
| Accept loop, worker threads (`server/PgServer.cpp`) | the pending accept, the io_service, the threads | `startAccept`, accept handler, `run`, signal handler | an accept handler that fails; shutdown while handlers run | it always accepts again; a session serves one client; shutdown ends |
| Session table (`server/SessionManager.cpp`) | `m_sessions`, stack `m_free` | `allocSession`, `freeSession`, `stop`, `clear` | recycled objects keep the state of the previous client | no session is given out twice |
| Block pool (`common/GlobalMemBlockPool.cpp`) | `freeBlocks`, `m_iTotalMem` | `alloc`, `free` | exhaustion, null blocks, ownership across threads | one owner per block, none lost |
| Session (`server/SessionInfo.cpp`) | message type, parse arena, network buffer, plan, flags | the message handlers and the continuations of reads and writes | suspensions in the middle of an execution, exceptions in callbacks, cancellation by another thread, any order of messages | each message gets its whole answer, once; cancellation is final |
| Message encoding (`server/PostgresProtocol.cpp`, `PgDataWriter`, `PgDataReader`) | the writer's position and last complete message | build and read of each message | a row, an error or a number at the end of the buffer | what arrives is whole messages and is the result |
| Arena (`common/ParseResult.cpp`) | position, mark, nodes, parameters | `parse`, `mark`, `restore`, `allocString` | nodes and strings that point to reused memory | what an execution reads is what was written |
| Rewriting (`common/QueryRewritter.cpp`) | none | `rewrite` | nested AND, OR and IN | the alternatives mean what the predicate means |
| Plan building (`planbuilder/`) | none (builds plan objects) | union of key ranges, sort order, grouping | ranges that overlap or miss rows, sorts that are left out | plan and statement agree |
| Plan execution (`execution/`) | cursors, groups, sort buffer, batch | `begin`, `next`, `end`, `getResult` | values that outlive their row, re-execution after an error, LIMIT and range boundaries | the rows of the statement, in order, once |
| CSV files (`execution/ReadFilePlan.cpp`) | the line, rewritten in place | `begin`, `next`, `end` | views of a line that is being changed | each column has its field |
| Storage (`execution/LevelDBHandler.cpp`, insert and delete plans) | LevelDB tables, batches, iterators | `insert`, `remove`, `commit`, `seek` | snapshots against concurrent commits, repeated batches | what is inserted is found |
| Row encoding (`execution/DataRow.cpp`, `DBDataTypeHandler.cpp`, `ExecutionBuffer.cpp`) | the blocks of a sort | size, write, read, compare, `copyRow` | size computed against bytes written and bytes read | rows do not overlap and read back |
| Configuration (`common/MetaConfig.cpp`, `ConfigInfo.cpp`) | tables and columns | `load` | the order of the lines | every column has one place |
| Parser (`common/SqlParser.*`), asio, LevelDB | | | generated or vendored | assumed |

Interaction: worker threads run the completion handlers of all sessions. A
session's handlers are serialised by its strand; the block pool and the session
table are shared under mutexes; `m_bTerminate` is an atomic flag that any other
session (a cancel request) or the main thread (shutdown) sets. Below a session
everything is sequential but not simple: a plan is called again after it failed,
points into an arena that it does not own, and is suspended whenever the network
buffer is full. Statements of several sessions meet in LevelDB.

## Modules

### The server

`GlobalMemBlockPool` and `SessionManager` model the two shared structures.
`SessionInfo` extends both with the per-connection state machine, and `PgServer`
composes everything with the accept loop and the shutdown. `Connections` is what
they promise: of each session whether it is free, listening, idle or busy, and
that nothing is taken up after the server has been stopped. `PgServer` refines it
(`ServesConnections`): the phase of a session is read off the free stack and the
operation in progress, and every step of the code moves at most one session from
one phase to the next.

* `task[i]` is what is in progress for session `i`: a pending accept, read or
  write, or a handler being executed. `Goto` is the only way a session goes on.
  It is a set, so that a path of the code that starts two operations, or none,
  is visible in the model (`OneTaskPerSession`).
* A handler is one action, except where it touches state that other threads
  touch: `start()` is `StartParse` and `StartBuffer` (two allocations), `end()`
  is `EndParse`, `EndBuffer` and `EndSlot`, and the execution of a plan is
  `HandleExecutionBegin`, `Sorting`, `FirstNext`, `HandleExecutionResult` or
  `BufferFull`, and `HandleExecutionDone`, because each `next()` reads
  `m_bTerminate` and a sort allocates blocks.
* A statement is the kind of plan it builds; the number of rows and every
  failure (syntax error, unknown table, wrong parameter, disk error) is a
  nondeterministic choice. A block is its number. `reply` collects the messages
  written in answer to the current one, and `prepared` the rows in the buffer.
* `crashed` is a null dereference or an endless recursion: Execute without a
  plan, no memory for the network buffer, a row larger than the buffer.

### Key ranges and tables

* `KeySearchRange` is the pure algorithm from a conjunction of predicates to a
  range of keys and to the predicates that the range makes superfluous
  (`Solved`). The code collects predicates in a map per column and one upper bound
  for the whole key; `SetPredicateInfo` is one step of that collection.
* `LevelDBPlan` builds a plan from the normal form of a predicate
  (`BuildSelectPlan`, `BuildUnionAll`) and executes it. One `next()` of the scan,
  with what filter, union and delete do with its result, is one action; commits,
  cancellations and failing commits of other workers come in between. A row is
  its key, an iterator is the content of the table when it was opened. What
  `std::sort` does with ranges that have the same start is a choice.
* The fields `versions` and `again` of a plan are histories for the properties.

`LevelDBTable` models the same tables bit by bit, statement after statement:
what `LevelDBInsertPlan` writes as key and value, `KeyComparator`, and the scan
that puts a row together. It extends `ExecutionBuffer`, the blocks into which a
sort copies its rows, and `DataRow`, the sizes, encoding and comparison of rows.
A "byte" is a bit of the model; lengths have three bits, so 7 is the mark of the
largest string. `m_batch` keeps its entries when a commit fails, as in the code.
A sort that is begun again after a failure has a new buffer, but still its rows and
types of the first attempt (`kept`, `m_types`); a build with assertions aborts at
the next row it copies (`AssertionFails`), and one without goes on with rows in
blocks that are no longer its own.

### SELECT

`QueryRewritter` is the rewriting of predicates, `FilterPlan` what the filter
makes of the result, together with `Means`, the definition of a predicate's truth
value. `SelectPlan` builds a plan from a statement as `SelectPlanBuilder` does (a
sequence of stages, the source first) and executes it: `begin`, `next` and `end` of
a stage are operators that return the plan after the call, and "fuel" makes the
call fail after any number of steps. A value read through `getResult` is a view of
its row until it is cached; a view of a row that is gone reads as rubbish.
`IsResult` is the reference: the rows, orders and positions that a statement
allows, computed from the statement alone. What becomes of a statement that is not
supported is modelled too: it is refused, aborts a build with assertions, or fails
when it is executed (`SupportedAnswered`).

`ReadFilePlan` is the loop that splits a line of a CSV file, one character per
step, with the definition of its fields (`Field`) as reference: a quote opens or
closes a quoted part, and two that would open and close an empty one stand for a
quote, as `test/load_test.py:13,26` expects.

### Messages, memory, configuration

`ResultStream` says what an execution promises its client: rows in order, any
number at a time, then one message that this was all, or an error. `PgDataWriter`
models the encoder field by field with the handlers that call it, and refines
`ResultStream` (`DeliversResult`): the mapping parses the bytes sent to the socket
as messages and takes the rows out of them.

`ParseResult` models the arena with the handlers that fill, mark, restore and read
it, Describe among them. An object is the range of its cells and whether they all
still hold it. The client may go at any time and another one take the session
(`Reconnect`): the arena is a new one then, and the plan, which points into the old
one, still there.

`MetaConfig` reads a configuration file line by line, in whatever order they come.
The properties look at the file as a whole: `TableOf` and `LinesOf` say to which
table a line belongs, and `Customary` which sections are written in the order in
which each column gets a place.

The theorems about a module `M` are in `M_proofs`, except that those about
`KeySearchRange` are with the plans that use it in `LevelDBPlan_proofs`, and those
about `ExecutionBuffer` with the tables that use its row format in
`LevelDBTable_proofs`; the lemmas on folds and orders, which several of them use,
are in `FoldLemmas`.

Every definition is mapped to its lines in `PROJECT.json`. Definitions whose
comment starts with "Mutant of" are deliberately wrong variants, used only to
show that a property would notice them.

## Runs

| Run | Instance | Question |
|---|---|---|
| `protocol` | 1 session, 3 blocks, all messages and kinds, 2 rows, sorts of up to 2 blocks, huge rows, failing accepts | Does each message get its whole answer, whatever fails, and has every block of arena, buffer and sorts one owner? (`TypeOK`, `AnswersComplete`, `PlanInPlace`, `BlocksOwnedOnce`, `NoBlockLost`) |
| `sessions` | 2 sessions without sorts, 4 blocks, cancel requests, failing accepts | Do sessions and blocks have one owner, and is cancellation final? (`OneTaskPerSession`, `BlocksOwnedOnce`, `NoBlockLost`, `HandlersHaveMemory`, `CancelIsFinal`) |
| `scheduling` | 2 sessions, 2 blocks, cancel requests, a signal, fairness | Does the server implement `Connections` and always go on? (`ServesConnections`, `EveryMessageServed`, `AlwaysAccepting`, `ShutdownCompletes`) |
| `ranges` | 1 worker, keys of 2 columns with 3 values, conjunctions of 2 or 3 predicates, unions of 2 or 3 alternatives, both directions | Do ranges and filter find exactly the matching rows? (`RowsInOrder`, `RowsOfOneVersion`, `ExecutionEnds`) |
| `concurrent` | 2 workers (symmetric, they differ only in name) that select, insert and delete in one table, cancellation, failing commits | Does a statement see one version of the table? (`RowsInOrder`, `RowsOfOneVersion`, `DeleteExact`) |
| `contradiction` | `k <= 1 OR (k > 1 AND k < 1) OR k >= 1` | `RowsInOrder` is violated, see Findings |
| `select` | five settings: all combinations of clauses, limits, subqueries, predicates of up to four comparisons, failing executions | Are the rows, their order and their number right, and is every statement answered that is supported? (`ResultRight`, `CountRight`, `SourceClosed`, `SupportedAnswered`) |
| `arena` | an arena of 6 cells, statements of all kinds, parameters of 0 to 2 cells, Describe at any time, one client after the other | Is anything overwritten that is still to be read, or never given back? (`ArenaIntact`, `BindFits`) |
| `rows` | 4 columns, numbers of 2 and 3 bits, strings of up to 6; INSERTs of 1 or 2 rows, DELETE, sorts; failures and repetitions | Do rows survive encoding, storage and sort buffer? (`TypeOK` of the buffer, `RowsDisjoint`, `RowsReadBack`, `StoreRight`) |
| `config` | files of up to 8 lines from 11, two tables, at most 2 lines out of the customary order | Do names lead to their tables, has every column of a customary section one place, and do no two columns ever share one? (`LayoutRight`, `PlacesDiffer`) |
| `writer` | a buffer of 48 bytes, results and errors of all lengths around it | Are the bytes the messages of the result? (`AnswerFramed`, `DeliversResult`, `RowsThatFitAreWritten`) |
| `file` | all lines of up to 5 of 4 characters, 2 columns | Does each column get its field? (`LoopInv`, `RowRight`, `RefusedIffTooLong`, `FieldsStay`) |

Bounds. One session meets every order of messages, and two rows every way a row
can meet a full buffer (first, last, resumed). Two sessions meet every race on
the pool, the table and the flag, which are only ever touched by one or two
sessions at a time; with `MaxBlocks` of 4 both can run, with 2 the second
connection is refused, and with 3 a sort exhausts the pool. `MaxFree` bounds how
often an accept fails, because each failure adds a null block to the free list.
`m_iTotalMem` saturates one block above the budget, as the code only compares it
with the budget. Two key columns are enough for a prefix, a bounded column and a
filled one in both roles; three values put one strictly between the smallest and
the largest. Three alternatives are enough for ranges that are not neighbours.
The unions of `ranges` leave out contradictory ranges (`Proper`);
`contradiction` is about them.

In `select` the tables have columns ordered alike, oppositely or not at all, and
groups of one and two rows; two criteria of ORDER BY are enough for ties. In
`rows` a block has 22 bits: two empty rows fill it, one bit more does not fit, one
row is larger than a block, and three rows are more than the buffer (`Total`). In
`writer` the buffer of 48 bytes has room for a few rows; `Reserve` is what
`buildException` keeps free (100 of 512 K in the code), 34 being enough for the
rest of an error response with a position and its ReadyForQuery. In `arena` the
large statement does not leave room for every combination of strings.
`InsertAgain` and `Bind` repeat failures at most until the batch, or the arena, is
full, and `SortAgain` begins a sort at most twice: the rows and types that are kept
grow no differently with a third time. `config` has the constraint `FewSurprises`:
two misplaced lines are enough for a column behind the key, a second key, a key
before the path, and any two of them.

`BlocksOwnedOnce` is about one session with sorts in `protocol` and about two
sessions without them in `sessions`; `BlocksTheorem` is about any number of both at
once. It says who owns a block and gives it back, not who points into it: the plan
that `end()` leaves does point into an arena that it has freed, which is the subject
of `ParseResult`.

Fairness. asio delivers completions and worker threads run handlers to their
end, hence weak fairness of each session's steps, of `startAccept` and of the
main thread. That a pending read or write completes is the client's doing: the
code has no timeout, so the liveness properties are about clients that go on or
disconnect. In `LevelDBPlan` only `Step` is fair, in `PgDataWriter` the handlers:
a thread that executes a plan goes on until the plan is exhausted or throws.
`Begin` and binding are the client's.

`CancelIsFinal` and `FieldsStay` are action properties: they say what no step may
do. `RowsOfOneVersion` excludes a DELETE that is executed again after its commit
failed: `end()` has closed the shared iterator by then, and each range of the union
opens its own. `DeleteExact` still holds for it.

## Proofs

Every theorem holds for every value of the constants: any number of sessions,
blocks, rows, columns and workers, any statements, any file. What is assumed of the
constants is what their modules assume by name, and TLC evaluates these assumptions
in every run: numbers are natural and bounds positive (`MaxBlocksAssumption`,
`MaxSessionsAssumption`, `MaxFreeAssumption`, `SessionAssumption`,
`RowAssumption`), rows have a result for each column (`BufferAssumption`), the key of
a table names some of its columns, each once (`TableAssumption`), keys have at least
one column and values a smallest and a largest one (`KeyAssumption`), tables are sets
of keys and statements are well typed (`PlanAssumption`), a CSV file has at least one
column and its separator is not its quote (`FileAssumption`), the line of a key lists
names (`ConfigAssumption`), the network buffer is not larger than an `int32_t` can say
and results have no more columns than two bytes can count (`WriterAssumption`),
and statements that build no plan, like COMMIT, have no
parameters (`ArenaAssumption`). Where a theorem has a hypothesis beyond these it is
stated in the theorem and explained below.

| Theorem | Property | Rests on |
|---|---|---|
| `TypeCorrect` | `TypeOK` of `PgServer` | inductive as it stands |
| `OneTaskTheorem` | `OneTaskPerSession` | `SlotInv` |
| `MemoryTheorem` | `HandlersHaveMemory` | `PointersInv` |
| `PlanTheorem` (`PgServer_proofs`) | `PlanInPlace` | `SlotInv` |
| `BlocksTheorem`, `NoBlockLostTheorem` | `BlocksOwnedOnce`, `NoBlockLost` | `OwnInv` |
| `ConnectionsTheorem` | `ServesConnections` | `TypeOK`, `SlotInv` |
| `AnswersTheorem` | `AnswersComplete` | `AnswersInv` |
| `CancelTheorem` | `CancelIsFinal` | `AnswersInv`, `KindsInv` |
| `CollectedFold`, `RangeExact`, `ConjunctionExact`, `UnionInOrder` | of the operators of `KeySearchRange` | `FoldLemmas` |
| `VersionTheorem` | `RowsOfOneVersion` | `PlanInv` |
| `DeleteTheorem` | `DeleteExact` | `PlanInv` |
| `OrderTheorem` | `RowsInOrder` | `PlanInv`, `OrderInv` |
| `IntactTheorem`, `BindTheorem` | `ArenaIntact`, `BindFits` | `ArenaInv` |
| `TypeTheorem`, `RowsDisjointTheorem` | `TypeOK`, `RowsDisjoint` of `ExecutionBuffer` | `BufferInv` |
| `RowsReadBackTheorem` | `RowsReadBack` | `BufferInv`, `RowsStored` |
| `StoreTheorem` | `StoreRight` | `TableInv` |
| `SortTheorem` | that `LevelDBTable` uses `ExecutionBuffer` as specified | `TableInv`, `SortReads` |
| `LoopInvariant`, `FieldsStayTheorem` | `LoopInv`, `FieldsStay` | `LoopInv` |
| `RowTheorem`, `RefusedTheorem` | `RowRight`, `RefusedIffTooLong` | `FieldInv` |
| `LayoutTheorem` | `LayoutRight` | `Loaded` |
| `AnswerTheorem`, `DeliversTheorem` | `AnswerFramed`, `DeliversResult` | `WriterInvariant` |

### The server (`PgServer_proofs`)

* One task. `SlotInv` adds to `OneTaskPerSession` that the session that the accept
  loop listens for is waiting for a connection. `IoStepMoves` and
  `HandlerStepMoves` reduce the steps of a session to "one task replaces another";
  what is left are the steps of the accept loop and `EndSlot`. `PlanInPlace` is
  inductive together with it: without one task per session another handler could
  destroy the plan during a write.
* Memory. `PointersInv` follows the two pointers through `start()` and `end()`.
  `OwnInv` says of every place that can hold a block (the free list, the arena, the
  network buffer and the sort buffer of each session) that it holds each once, that
  no two places share one, and that together they hold exactly `Created`, the
  blocks up to `m_iTotalMem`. The last part is needed for `alloc`: a block that is
  newly created must not have an owner already.
* Refinement. `ConnectionsTheorem`: initial states map to initial states, and each
  step under `TypeOK` and `SlotInv` maps to a step of `Connections` or to a
  stutter. The phase of a session is read off its only task, so that a step that
  replaces one task by another is one change of phase; the case distinction is that
  of `OneTaskTheorem`.
* Answers. `Answering(i)` says of each task what of the answer has been sent by
  then (`Answered`): during an execution the rows written are the rows the cursor
  has passed, as many of them as the buffer did not keep for later (`Written`,
  `Waiting`). `Owes` says that the ParseComplete and BindComplete of earlier messages
  are never still to be sent while a query is executed, and `Quiet` are the tasks
  during which nothing has been answered. `AnswersComplete` is the case of a
  pending read of the next message.
* Cancellation. A flag that is set is never reset (`TerminateStays`), and a step of a session that is cancelled adds no row to a
  reply that had none (`NextRowless`): the first `next()` of an execution looks at
  the flag before it does anything else. Clients that send EXPLAIN are left out, as
  in the property.

### Ranges and plans (`FoldLemmas`, `LevelDBPlan_proofs`)

* Folds. The induction theorems of the library take an operator as parameter and
  cannot be used here, but the well-founded order of the naturals is a plain fact:
  a set of natural numbers has a smallest member (`LeastNatural`), and that a claim
  has no smallest counterexample is an induction. `FoldExists` and `FoldStep` follow, that
  a fold of the community modules over a sequence of any length exists and is
  computed one element at a time, and `Sums` for sums.
* One range. `RangeExact`: a range contains exactly the keys that satisfy the
  predicates in `Solved`, which is why they can be dropped from the filter. The
  argument follows the first column without "=" (`FirstOpen`): columns before it
  are equal (`PrefixShape`), it carries the bounds, and the columns behind it are
  filled so that they decide nothing (`StartExact`, `EndExact`). `CollectedFold`:
  what has been collected after a conjunction of any length is what its predicates
  say; `ConjunctionExact`: range and filter together select exactly the keys that
  satisfy it.
* A union. `UnionInOrder`: of any number of ranges, sorted by their start, with no
  overlap between neighbours, the keys of an earlier range all come before those of
  a later one. No induction is needed, because the sort orders every pair and not
  only neighbours; but no range may be contradictory.
* A plan. `PlanRight`: the scans that `BuildSelectPlan` makes return the matching
  keys and no others (`Splits`), and, without contradictions, in the order of their ranges (`Arranged`).
* An execution. `ScanInv` relates the cursor to the rows: the scans of an
  execution read one version of the table (`ReadsOneVersion`), the rows so far are
  the matching keys of that version that the scans have passed (`RowsFound`), and
  what a DELETE has put into `m_batch` matches its predicate. `OrderInv` says that
  the rows are in order and that the scans still to come continue them; a
  descending SELECT executed again finds its scans turned round, but such a plan
  has been cancelled and returns nothing.
* Hypothesis of `OrderTheorem`: no alternative of a predicate contradicts itself
  (`ProperUnion`). The run `contradiction` shows that it cannot be dropped.
  `VersionTheorem` and `DeleteTheorem` need no such hypothesis, as they are about
  sets of rows.

### Memory and files

* The arena (`ParseResult_proofs`). `ArenaInv`: the tree is where the mark says
  (`TreeThere`, `TreeInUse`), and unless something has failed nothing else is in
  use between two executions (`OnlyTree`); the strings of the plan lie behind it,
  apart from each other, as long as it may be executed (`PlanThere`). From
  `OnlyTree` follows that a Bind finds the same room every time, which is
  `BindFits`. A plan that no Bind has just made is there only because something
  failed, was refused or another client left it (`PlanExpected`, `planLeft`): of
  such a plan `ArenaIntact` says nothing when it is described, and the model does
  describe it with overwritten names.
* Sort buffers (`LevelDBTable_proofs`). `BufferInv`: every row ends in an
  earlier block or before `m_iBlockUsed` of the current one, and the current block
  is at most one behind the blocks there are, which holds even when the pool
  refuses a block after the counters have moved. All this is about the rows that
  have been copied to the present buffer (`Copied`). A failed execution that is
  repeated makes a new buffer with new counters, and what it keeps of the old rows
  has no place in it: nothing is claimed of those.
* Encoding. `RowsStored`: the bits of every column of every row stand at the sum of
  the sizes before it (`Place`, a fold), and no later copy changes them, because it
  writes behind `m_iBlockUsed` or into another block. The rest are lemmas about
  `DataRow`, for any widths: the powers of two are a recursive function (`TwoTo`,
  `Powers`), the bits of a number sum up to it in both of its signs, what `write`
  writes has the size that `getSize` computed, and `getResult`, which skips the
  columns in front with the sizes it finds in the bytes, arrives at the column and
  reads the result that was written.
* Hypothesis of `RowsReadBackTheorem`: no string in front of another column is the
  largest one or has, with its header, the length that marks it (`SizesTold`).
  `getSize` misreads both (`DBDataTypeHandler.cpp:325`, see Known deviations).
* Tables (`LevelDBTable_proofs`). `TableInv`: the entries in the store are those of
  the rows that should be there, no two of them with one key, and the entries in
  `m_batch` are those of rows of the statement; the last ones are the rows read by
  this execution, in their order, and those in front were left by executions that
  failed. Writing all of them has the same effect as writing the rows of the last
  execution alone (`PutAgain`), which is why a batch that was never cleared does no
  harm. That `KeyComparator` takes two keys for the same exactly if their values
  are is the encoding read backwards (`SameKeys`). A scan lists its rows by how
  many others come before (`Ranks`), for which the order of keys must be total
  (`StringOrder`, `RowOrder`).
* Hypotheses of `StoreTheorem`: the key has its types in the order of the table
  (`KeyTypesAgree`, `LevelDBInsertPlan.cpp:13`), and the columns of keys and values can
  be told apart (`EntriesTold`, as above). Both hold in the instance of `rows`.
* Sorts of a table. `TableSpec` interleaves the buffer with statements;
  `SortTheorem` says that it implies `Spec` of `ExecutionBuffer`, so that what is proved
  of the buffer holds in the run `rows` as well.
* CSV files (`ReadFilePlan_proofs`). `LoopInv`: the loop writes behind the place
  where it reads, so that no character is overwritten before it has been read, and
  the only position that a step writes is behind the fields found so far.
  `FieldInv` says what has been read: the parity of the quotes is the state, the
  rest of the line is still as it was in the file, the token written so far is the
  selection of the characters read that `Field` keeps, and the fields found are
  those of the line. The characters that `Field` keeps are reasoned about through
  their places in the line (`Places`, `Ranks`), again by least counterexample. The
  second of two quotes is kept exactly in the state `BeginQuote`, which is a quote
  read outside of quotes just before (`StateRight`).
* Configuration (`MetaConfig_proofs`). `Loaded` says of the file as far as it has
  been read what `LayoutRight` says of it at the end, and two things more: the
  columns of a table have different names, and as long as it has no key line no
  column has a place (`TableRight`). The key is a fold: after m of its names exactly
  the columns named by them have a key position (`KeyedUpTo`), which needs the names
  to be different, for `addKeyColumn` would move a column that is named twice. The
  value positions are ranks (`RanksIn`), so each number below their count is used
  once. Other sections are of no concern to a section that is customary; for one that is
  not, only its name is claimed. `Customary`, a premise within `LayoutRight`, is needed
  twice: a column behind the key gets no place, and a second key line moves the
  columns of the first. The induction needs that a beginning of a customary section
  is customary (`CustomaryPrefix`).

### Messages (`PgDataWriter_proofs`)

* Writing. A field that there is room for puts its bytes behind those that were
  there (`Extends`; `Copies`, if it needs no more room than they), whatever the way
  in which it is written: a number is printed before its length is, and a date has
  a zero behind it that the next field overwrites. By induction over the fields and
  their groups, `MessageWritten`: either the message is complete behind the earlier
  ones (`Encoded`) and its length is where `begin()` left room for it, or the buffer
  is full and what was prepared before is untouched.
* Reading. `Parses` says of a function on places that it splits bytes into items of
  some widths; `Messages` and `TextsOf` are two of them (`MessagesParsed`,
  `TextsParsed`). A parser reads on behind an item as if it had begun there
  (`ParserOnRest`), so that messages behind messages are read as both (`ReadsOn`),
  and a row written by `buildData` is read as its texts, nulls and digits
  (`RowRead`).
* The invariant. `WriterInvariant` says how far an answer has got at each handler:
  the wire holds the description, if it was a query with a result, and the first
  rows (`Sent`); while rows are written the buffer holds those from there to the row
  the plan is at (`Pending`), and nothing of a row that did not fit; at the end the
  wire holds the acknowledgements or one error behind them (`Ended`). The rows that
  `DeliversResult` reads off the wire are a beginning of the result (`FirstRows`),
  hence every step is one of `ResultStream` or a stutter (`StreamStep`,
  `StreamRefined`). `AnswerFramed` is the case of the last handler (`AnswerRight`).
  The invariant quantifies over sequences of messages of any length, so TLC checks
  what follows from it and not the invariant.
* Hypothesis of both: what ends an answer fits into the buffer (`MessagesFit`).
  `buildExecutionDone` asserts this of what it writes (`PostgresProtocol.cpp:239`). Of
  an error response to Execute it is enough that the shortened text fits, which a
  reserve of 100 bytes makes true for every position; to a query the whole text must
  fit, because the second attempt is not made (see Known deviations). TLC evaluates
  the hypothesis for the statements of `writer` (`EndsFit`).

### Only model-checked

* Liveness: `EveryMessageServed`, `AlwaysAccepting`, `ShutdownCompletes`,
  `ExecutionEnds`, `RowsThatFitAreWritten`. The prover does not support fairness.
* `PlacesDiffer` of `MetaConfig`.
* `ResultRight`, `CountRight`, `SourceClosed` and `SupportedAnswered` of
  `SelectPlan`: `QueryRewritter`, `FilterPlan` and `SelectPlan` use RECURSIVE
  operators, with which the prover loses its arithmetic backend.

## Findings

`contradiction`: `buildUnionAll` sorts the ranges, compares neighbours
(`LevelDBPlanBuilder.cpp:105`) and means to notice every overlap ("key scan ranges
have overlap, back to full scan", `:109`). A range whose bounds contradict each other ends before it
starts, so it passes both comparisons between two ranges that do overlap, and the
row in the overlap is returned twice.

### Known deviations

These too came up while modelling. The modules follow the code; where a property
does not hold in such a case it leaves the case out by its own words, or the
instance of its run has no such input, as each item says:

* `SessionInfo.cpp:82,115,134,176`: the repository says "Use Postgress communication
  protocol" (its README, line 5), but in the extended query the order of messages is the
  server's own. Parse and Bind are answered by nothing, Sync by ReadyForQuery alone even
  if their acknowledgements are owed, and Execute sends these behind its rows, in
  front of CommandComplete (`PostgresProtocol.cpp:223`), where Postgres sends each
  when its message is handled. `Expected` and `AnswerFramed` describe what this
  server sends, and not what Postgres would.
* `SessionInfo.cpp:40`: Describe reads the names of whatever plan there is. After an
  Execute that failed the plan stays, and a Parse overwrites its nodes: the next
  Describe reads them, also when the client waits for each answer. The plan even
  survives `end()` (`:323`), so that the next client of a recycled session can describe
  or execute it, although its names lie in an arena that the pool has given to
  somebody else (all but this Execute is modelled, as the client of `ParseResult`
  executes only what it has bound; `ArenaIntact` is about plans that were bound and
  are still to be executed).
* `QueryRewritter.cpp:31`: a bare column or constant under AND or OR fails an
  assertion, which CMakeLists.txt does not switch off; without assertions it would be
  refused (modelled; `SupportedAnswered` allows it for such operands).
* `FilterPlan.cpp:63`: a predicate that is an operation but no comparison, as in WHERE
  a + b, is not refused when the plan is built but fails at the first row (modelled;
  `SupportedAnswered` says so).

* `QueryRewritter.cpp:121`: NOT IN of several values becomes an OR of "!=", which
  every row satisfies (`select` has lists of one value for NOT IN).
* `LimitPlan.cpp:12`: with LIMIT the number of rows reported counts the row at
  which the plan stops, and wraps around when the offset is beyond the last row
  (`CountRight` is about statements without LIMIT; the rows are right).
* `SortPlan.cpp:14`: `begin()` makes a new buffer but clears neither `m_rows` nor
  `m_types`. Executed again after a failure, a sort fails the assertion at `DataRow.cpp:69`
  with its first row, or, in a build without assertions, returns also the rows of the
  first attempt, from blocks that were given back (modelled in `ExecutionBuffer`, whose
  properties are about the rows copied since; the failing executions of `select` have
  no sort).
* `ReadFilePlan.cpp:105`: `m_iRowCount` is never reset, so that a file read again after
  a failure reports the rows of both executions (they have no file either).
* `ReadFilePlan.cpp:82`: two quotes stand for one only outside of quotes, which is what
  the repository's test expects; other CSV dialects mean an empty field by them, and a
  quote if they are inside quotes, where this code drops them. `Field` is the
  repository's dialect, and `file` has all lines.
* `SessionInfo.cpp:173`: `restore()` is only called after a successful execution; the
  strings of a Bind or an execution that failed stay until the next Parse, and
  enough of them fill the arena (`BindFits` is about the time before a failure).
* `SessionInfo.cpp:363`: messages between an error and Sync are handled, not skipped.
  A client that pipelines Parse, Bind and Execute makes the session execute an
  older plan on an overwritten arena (the client of `ParseResult` waits before it
  executes).
* `SessionInfo.cpp:216`: a bypassed statement sent with Parse after a statement with
  parameters is refused for their number.
* `PostgresProtocol.cpp:247`: the names of statements and portals are ignored.
* `PostgresProtocol.cpp:148`: an error text that does not fit, to a query: the
  message 'Z' closes the message that did not fit, and the shorter second attempt
  is not made (`writer` has such texts for Execute only).
* `DBDataTypeHandler.cpp:325`: a string of 65533 characters has the size of the mark of
  the largest string, and the columns behind it are misread (`rows` leaves out
  strings of 4, its counterpart).
* `LevelDBInsertPlan.cpp:13`: types in the order of the table, values in the order of
  the key: with `key=b,a` and different types every INSERT is refused (the key of
  `rows` is in the order of the table).
* `ConfigInfo.cpp:92`: a column line behind the key line gets no place, and a second key
  line assigns places once more (`config` has such files; `LayoutRight` is about
  sections without them, `PlacesDiffer` about all).
* `KeySearchRange.cpp:183`, `LevelDBPlanBuilder.cpp:169`: a predicate on a column, or an
  INSERT into a table, that the configuration does not have dereferences a null
  pointer (the models start from known names).
* `SessionInfo.cpp:317`: `m_bTerminate` is not reset when a SessionInfo is recycled, so
  the next client is cancelled too; `CancelIsFinal` states what the code does.

## Not modelled

The generated parser (its trees are inputs of the models), EXPLAIN, SHOW and LIKE,
floating point numbers and dates, PgDataReader's parsing of single fields, logging,
and the texts of names and expressions. asio and LevelDB are external: only what the code relies on is modelled.
Nearly all lines of the repository are these vendored libraries and the generated
parser; of the code written for the server the modules cover most of what
changes state.

## Plan

Done: the modules of all parts of the server, and the proofs above. Left:

1. EXPLAIN and SHOW as sources of `SelectPlan`.
2. `SelectPlan` without RECURSIVE operators, so that its properties can be proved.
