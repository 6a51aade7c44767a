---------------------------- MODULE LevelDBTable -----------------------------
(***************************************************************************)
(* The rows of a table on their way: LevelDBInsertPlan takes each row      *)
(* apart into the bytes of its key and of its values and collects them in  *)
(* a batch, LevelDB keeps them in the order of KeyComparator,              *)
(* LevelDBScanPlan puts them together again, and a SortPlan copies what it *)
(* is given, from a scan or from elsewhere, to its ExecutionBuffer.        *)
(*                                                                         *)
(* Statements come one after the other: a scan reads the snapshot with     *)
(* which it began.                                                         *)
(***************************************************************************)
EXTENDS ExecutionBuffer

CONSTANTS
  KeyColumns,    \* the columns of the key, in the order of the key
  Inserts,       \* what INSERT reads: sequences of rows
  Literals       \* what a sort reads that is not from the table, the same

ASSUME TableAssumption ==
  /\ RowTypes \in Seq(DOMAIN Width \cup {"string"})
  /\ KeyColumns \in Seq(DOMAIN RowTypes) /\ IsInjective(KeyColumns)
  /\ Inserts \cup Literals \subseteq Seq(RowValues)

VARIABLES
  store,       \* LevelDB: pairs of the bytes of a key and of a value
  rows,        \* the rows that should be in the table
  statement,   \* "none", "insert", "failed" or "sort"
  child,       \* the rows that the statement reads
  m_iCurrent,  \* how many of them it has read
  m_batch      \* the entries that are to be written

tableVars == <<store, rows, statement, child, m_iCurrent, m_batch>>

Columns == DOMAIN RowTypes

IsKey(i) == i \in Range(KeyColumns)

\* Some columns in the order of the table
InTableOrder(columns) ==
  CHOOSE s \in [1..Cardinality(columns) -> columns] : \A j, k \in DOMAIN s : j < k => s[j] < s[k]

\* The columns that are not in the key: their positions are their m_iValueIndex.
ValueColumns == InTableOrder({i \in Columns : ~IsKey(i)})

KeysInTableOrder == InTableOrder({i \in Columns : IsKey(i)})

TypesOf(columns) == [k \in DOMAIN columns |-> RowTypes[columns[k]]]

-----------------------------------------------------------------------------
(* The bytes of a row                                                       *)

\* m_keyResults: the value of each key column at its m_iKeyIndex
KeyResults(row) == [k \in DOMAIN KeyColumns |-> row[KeyColumns[k]]]

\* m_keyTypes of the insert plan: the types in the order of the table
InsertKeyTypes == TypesOf(KeysInTableOrder)

ValueResults(row) == [k \in DOMAIN ValueColumns |-> row[ValueColumns[k]]]

Fresh(size) == [i \in 1..size |-> 0]

Bytes(types, results) == Copy(types, results, Fresh(ComputeSize(types, results)), 0)

Entry(row) == [key   |-> Bytes(InsertKeyTypes, KeyResults(row)),
               value |-> Bytes(TypesOf(ValueColumns), ValueResults(row))]

RowThrows(types, results) == ComputeSizeThrows(types, results) \/ CopyThrows(types, results)

NextThrows(row) ==
  RowThrows(InsertKeyTypes, KeyResults(row)) \/ RowThrows(TypesOf(ValueColumns), ValueResults(row))

-----------------------------------------------------------------------------
(* KeyComparator and LevelDBScanPlan, whose key types are in the order of   *)
(* the key.                                                                 *)

ScanKeyTypes == TypesOf(KeyColumns)

\* Mutant of SameKey: only the first column of the key is compared.
SameKeyFirst(a, b) == SameRow(SubSeq(ScanKeyTypes, 1, 1), a, b)

\* KeyComparator::Compare returns 0.
SameKey(a, b) == SameRow(ScanKeyTypes, a, b)

\* The row that a scan finds in an entry, with getResult for every column
ScanRow(entry) ==
  LET keys   == GetResults(ScanKeyTypes, entry.key, 0)
      values == GetResults(TypesOf(ValueColumns), entry.value, 0)
      at(columns, i) == CHOOSE k \in DOMAIN columns : columns[k] = i
  IN  [i \in Columns |-> IF IsKey(i) THEN keys[at(KeyColumns, i)] ELSE values[at(ValueColumns, i)]]

\* What a scan of the whole table returns
Scan ==
  LET entries   == {[key |-> GetResults(ScanKeyTypes, e.key, 0), row |-> ScanRow(e)] : e \in store}
      before(e) == {x \in entries : RowLess(ScanKeyTypes, x.key, e.key)}
  IN  [n \in 1..Cardinality(entries) |-> (CHOOSE e \in entries : Cardinality(before(e)) = n - 1).row]

-----------------------------------------------------------------------------

TableInit ==
  /\ Init
  /\ store = {} /\ rows = {}
  /\ statement = "none" /\ child = <<>> /\ m_iCurrent = 0
  /\ m_batch = <<>>

Begins(kind, input) == statement' = kind /\ child' = input /\ m_iCurrent' = 0

\* The plan is destroyed.
StatementEnds == Begins("none", <<>>)

\* Each put replaces the entry whose key compares equal.
Write(entries, entry) == {e \in entries : ~SameKey(e.key, entry.key)} \cup {entry}

\* What that means for the rows
Put(table, row) == {r \in table : KeyResults(r) # KeyResults(row)} \cup {row}

InsertBegins ==
  /\ statement = "none"
  /\ \E input \in Inserts : Begins("insert", input)
  /\ UNCHANGED <<store, rows, m_batch, vars>>

\* next()
InsertNext ==
  /\ statement = "insert" /\ m_iCurrent < Len(child)
  /\ ~NextThrows(child[m_iCurrent + 1])
  /\ m_batch' = Append(m_batch, Entry(child[m_iCurrent + 1]))
  /\ m_iCurrent' = m_iCurrent + 1
  /\ UNCHANGED <<store, rows, statement, child, vars>>

\* A value cannot be written; what is in the batch stays there.
InsertFails ==
  /\ statement = "insert" /\ m_iCurrent < Len(child)
  /\ NextThrows(child[m_iCurrent + 1])
  /\ statement' = "failed"
  /\ UNCHANGED <<store, rows, child, m_iCurrent, m_batch, vars>>

\* end() commits the batch.
InsertEnds ==
  /\ statement = "insert" /\ m_iCurrent = Len(child)
  /\ store' = FoldLeft(Write, store, m_batch)
  /\ rows' = FoldLeft(Put, rows, child)
  /\ m_batch' = <<>>
  /\ StatementEnds
  /\ UNCHANGED vars

\* LevelDB cannot write the batch.
CommitFails ==
  /\ statement = "insert" /\ m_iCurrent = Len(child)
  /\ statement' = "failed"
  /\ UNCHANGED <<store, rows, child, m_iCurrent, m_batch, vars>>

\* The client executes the plan that has failed once more; begin() does not
\* clear the batch.  (The second guard bounds the repetitions.)
InsertAgain ==
  /\ statement = "failed" /\ Len(m_batch) <= Len(child)
  /\ Begins("insert", child)
  /\ UNCHANGED <<store, rows, m_batch, vars>>

\* Another plan takes its place.
InsertDiscarded ==
  /\ statement = "failed"
  /\ StatementEnds
  /\ m_batch' = <<>>
  /\ UNCHANGED <<store, rows, vars>>

\* DELETE of a row: remove() with the bytes of the key that the scan has found
Delete(entry) ==
  /\ statement = "none"
  /\ store' = {e \in store : ~SameKey(e.key, entry.key)}
  /\ rows' = {r \in rows : KeyResults(r) # KeyResults(ScanRow(entry))}
  /\ UNCHANGED <<statement, child, m_iCurrent, m_batch, vars>>

SortBegins ==
  /\ statement = "none"
  /\ \E input \in {Scan} \cup Literals : Begins("sort", input)
  /\ Begin
  /\ UNCHANGED <<store, rows, m_batch>>

\* SortPlan::begin reads the next row and copies it.
SortNext ==
  /\ statement = "sort" /\ m_iCurrent < Len(child)
  /\ LET row == child[m_iCurrent + 1]
     IN  CopyRow(row) \/ AllocFails(row) \/ NoBlock(row) \/ CopyFails(row)
  /\ m_iCurrent' = m_iCurrent + 1
  /\ UNCHANGED <<store, rows, statement, child, m_batch>>

\* It is the first row after begin() for the second time.
SortAborts ==
  /\ statement = "sort" /\ m_iCurrent < Len(child)
  /\ AssertionFails
  /\ UNCHANGED tableVars

\* The child throws, or the flag of the session is set while the rows are sent.
SortFails ==
  /\ statement = "sort"
  /\ Fails
  /\ UNCHANGED tableVars

\* Its rows have been read, or the sort above it has copied them.
SortEnds ==
  /\ statement = "sort" /\ m_iCurrent = Len(child)
  /\ End
  /\ UNCHANGED tableVars

\* The client executes a plan that has failed once more, in this sort or, when it
\* has ended, in one above it.  (The second guard bounds the repetitions.)
SortAgain ==
  /\ statement = "sort" /\ m_types < 2
  /\ Begins("sort", child)
  /\ Begin
  /\ UNCHANGED <<store, rows, m_batch>>

\* The plan is destroyed, or the process that was aborted is started again.
SortDiscarded ==
  /\ statement = "sort" /\ phase # "begun"
  /\ Destroyed
  /\ StatementEnds
  /\ UNCHANGED <<store, rows, m_batch>>

TableNext ==
  \/ InsertBegins \/ InsertNext \/ InsertFails \/ InsertEnds \/ CommitFails \/ InsertAgain \/ InsertDiscarded
  \/ \E entry \in store : Delete(entry)
  \/ SortBegins \/ SortNext \/ SortAborts \/ SortFails \/ SortEnds \/ SortAgain \/ SortDiscarded

TableSpec == TableInit /\ [][TableNext]_<<vars, tableVars>>

-----------------------------------------------------------------------------

\* Every value fits its column.
RowFits(row) == \A i \in Columns : ~WriteThrows(RowTypes[i], row[i])

\* A scan returns the rows that have been inserted and neither replaced nor
\* deleted, column by column and in the order of their keys, also after commits
\* that failed and were repeated with the batch still full: what
\* LevelDBInsertPlan writes LevelDBScanPlan reads back, and KeyComparator takes
\* two keys for the same exactly if their values are.  A row whose values fit
\* their columns is never refused (LevelDBInsertPlan::next).
StoreRight ==
  /\ LET scan == Scan
     IN  /\ Range(scan) = rows /\ Len(scan) = Cardinality(rows)
         /\ \A j, k \in DOMAIN scan : j < k => RowLess(ScanKeyTypes, KeyResults(scan[j]), KeyResults(scan[k]))
  /\ statement = "insert" /\ m_iCurrent < Len(child) /\ RowFits(child[m_iCurrent + 1]) =>
       ~NextThrows(child[m_iCurrent + 1])
=============================================================================
