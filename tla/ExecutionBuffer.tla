--------------------------- MODULE ExecutionBuffer ---------------------------
(***************************************************************************)
(* The buffer of a sort (execution/ExecutionBuffer): rows are copied one   *)
(* behind the other into blocks of the pool, and read from there.  The     *)
(* pool is shared by all sessions and may have no block left at any time.  *)
(*                                                                         *)
(* SortPlan::begin() makes a new buffer, but forgets neither the rows nor  *)
(* the types of an execution that has failed.  The assertions of DataRow   *)
(* then abort a build that has them when the next row is copied; one       *)
(* without them goes on.                                                   *)
(***************************************************************************)
EXTENDS DataRow, FiniteSets

CONSTANTS
  BlockSize,   \* GlobalMemBlockPool::BLOCK_SIZE
  Total,       \* m_iTotal, the execution_buffer of the configuration
  RowTypes,    \* m_types: the types of the columns of a row
  RowValues    \* the rows that the plan below may deliver

ASSUME BufferAssumption ==
  /\ BlockSize \in Nat
  /\ Total \in Nat
  /\ \A v \in RowValues : IsRow(RowTypes, v)

VARIABLES
  m_bufferBlocks,   \* the blocks taken from the pool
  m_iUsed,          \* bytes given out
  m_iBlockUsed,     \* bytes given out of the current block
  m_iCurrentBlock,  \* the index of the current block, from 0
  m_rows,           \* the rows, as block, offset, size and what was copied
  kept,             \* how many of them are older than the buffer: their blocks
                    \* were given back with the buffer before
  m_types,          \* how often m_types holds the types of the columns
  phase             \* "idle", "begun", "failed" by an exception, or "aborted"

buffer == <<m_bufferBlocks, m_iUsed, m_iBlockUsed, m_iCurrentBlock>>
vars == <<buffer, m_rows, kept, m_types, phase>>

Init ==
  /\ m_bufferBlocks = <<>>
  /\ m_iUsed = 0 /\ m_iBlockUsed = 0 /\ m_iCurrentBlock = 0
  /\ m_rows = <<>> /\ kept = 0
  /\ m_types = 0
  /\ phase = "idle"

NewBlock == [i \in 1..BlockSize |-> 0]

-----------------------------------------------------------------------------
(* doAlloc                                                                  *)

TooLarge(size) == size > BlockSize

NotEnough(size) == m_iUsed + size > Total

\* Mutant of NextBlock: a row may end one byte behind the block.
NextBlockLate(size) == m_iBlockUsed + size > BlockSize + 1

NextBlock(size) == m_iBlockUsed + size > BlockSize

BlockUsed(size) == IF NextBlock(size) THEN size ELSE m_iBlockUsed + size

\* Mutant of CurrentBlock: a full block is filled again from its beginning.
CurrentBlockStays(size) == m_iCurrentBlock

CurrentBlock(size) == IF NextBlock(size) THEN m_iCurrentBlock + 1 ELSE m_iCurrentBlock

\* What is counted before the pool is asked for a block
DoAlloc(size) ==
  /\ ~TooLarge(size) /\ ~NotEnough(size)
  /\ m_iUsed' = m_iUsed + size
  /\ m_iBlockUsed' = BlockUsed(size)
  /\ m_iCurrentBlock' = CurrentBlock(size)

NeedsBlock(size) == CurrentBlock(size) = Len(m_bufferBlocks)

-----------------------------------------------------------------------------
(* SortPlan                                                                 *)

\* The destructor of the old buffer gives its blocks back.
NewBuffer ==
  /\ m_bufferBlocks' = <<>>
  /\ m_iUsed' = 0 /\ m_iBlockUsed' = 0 /\ m_iCurrentBlock' = 0

\* begin() up to its loop; the child's begin() may throw before the types are
\* appended.
Begin ==
  /\ phase \in {"idle", "failed"}
  /\ NewBuffer
  /\ kept' = Len(m_rows)
  /\ \/ phase' = "begun" /\ m_types' = m_types + 1
     \/ phase' = "failed" /\ UNCHANGED m_types
  /\ UNCHANGED m_rows

\* copyRow
CopyRow(results) ==
  LET size   == ComputeSize(RowTypes, results)
      blocks == IF NeedsBlock(size) THEN Append(m_bufferBlocks, NewBlock) ELSE m_bufferBlocks
      block  == CurrentBlock(size) + 1
      offset == BlockUsed(size) - size
  IN  /\ phase = "begun"
      /\ ~ComputeSizeThrows(RowTypes, results)
      /\ DoAlloc(size)
      /\ ~CopyThrows(RowTypes, results)
      /\ m_bufferBlocks' = [blocks EXCEPT ![block] = Copy(RowTypes, results, @, offset)]
      /\ m_rows' = Append(m_rows, [block |-> block, offset |-> offset, size |-> size, results |-> results])
      /\ UNCHANGED <<kept, m_types, phase>>

\* The row is too large for a block or for the buffer; the second is counted.
AllocFails(results) ==
  LET size == ComputeSize(RowTypes, results)
  IN  /\ phase = "begun"
      /\ ~ComputeSizeThrows(RowTypes, results)
      /\ TooLarge(size) \/ NotEnough(size)
      /\ phase' = "failed"
      /\ m_iUsed' = IF TooLarge(size) THEN m_iUsed ELSE m_iUsed + size
      /\ UNCHANGED <<m_bufferBlocks, m_iBlockUsed, m_iCurrentBlock, m_rows, kept, m_types>>

\* The pool has no block left.
NoBlock(results) ==
  LET size == ComputeSize(RowTypes, results)
  IN  /\ phase = "begun"
      /\ ~ComputeSizeThrows(RowTypes, results)
      /\ DoAlloc(size)
      /\ NeedsBlock(size)
      /\ phase' = "failed"
      /\ UNCHANGED <<m_bufferBlocks, m_rows, kept, m_types>>

\* A value cannot be written.  What the columns before it have left behind
\* belongs to no row.
CopyFails(results) ==
  LET size == ComputeSize(RowTypes, results)
  IN  /\ phase = "begun"
      /\ ~ComputeSizeThrows(RowTypes, results)
      /\ DoAlloc(size)
      /\ CopyThrows(RowTypes, results)
      /\ phase' = "failed"
      /\ m_bufferBlocks' = IF NeedsBlock(size) THEN Append(m_bufferBlocks, NewBlock) ELSE m_bufferBlocks
      /\ UNCHANGED <<m_rows, kept, m_types>>

\* The types have been appended twice, and DataRow::computeSize asserts that
\* there is one for each result.
AssertionFails ==
  /\ phase = "begun" /\ m_types > 1
  /\ phase' = "aborted"
  /\ UNCHANGED <<buffer, m_rows, kept, m_types>>

\* The child throws, or after the loop the execution of the statement fails.
Fails ==
  /\ phase = "begun"
  /\ phase' = "failed"
  /\ UNCHANGED <<buffer, m_rows, kept, m_types>>

\* end(); only the types stay.
End ==
  /\ phase = "begun"
  /\ NewBuffer
  /\ m_rows' = <<>> /\ kept' = 0
  /\ phase' = "idle"
  /\ UNCHANGED m_types

\* The plan is destroyed, or the process that was aborted is started again.
Destroyed ==
  /\ NewBuffer
  /\ m_rows' = <<>> /\ kept' = 0
  /\ m_types' = 0
  /\ phase' = "idle"

Next ==
  \/ Begin
  \/ \E results \in RowValues :
       CopyRow(results) \/ AllocFails(results) \/ NoBlock(results) \/ CopyFails(results)
  \/ AssertionFails \/ Fails \/ End \/ Destroyed

Spec == Init /\ [][Next]_vars

-----------------------------------------------------------------------------

\* The places of rows
RowType == [block : Nat, offset : Nat, size : Nat, results : RowValues]

\* The types of the variables: an index never points more than one behind the
\* blocks there are (ExecutionBuffer.cpp asserts it), nor the bytes used behind
\* a block.
TypeOK ==
  /\ m_rows \in Seq(RowType)
  /\ m_iUsed \in Nat
  /\ m_iBlockUsed \in 0..BlockSize
  /\ m_iCurrentBlock \in 0..Len(m_bufferBlocks)
  /\ kept \in 0..Len(m_rows)
  /\ m_types \in Nat
  /\ phase \in {"idle", "begun", "failed", "aborted"}

\* The rows in the buffer.  The kept ones, which a sort returns as well, are not
\* in it: nothing holds of them.
Copied == {i \in DOMAIN m_rows : i > kept}

\* No byte of the buffer belongs to two of its rows, and every row lies in one
\* block: doAlloc never gives out a byte twice, whatever sizes it is asked for,
\* also in a buffer that begin() has made after a failure.  (The rows that were
\* kept from before have no bytes in it.)
RowsDisjoint ==
  \A i \in Copied :
    /\ m_rows[i].block \in DOMAIN m_bufferBlocks
    /\ m_rows[i].offset >= 0 /\ m_rows[i].offset + m_rows[i].size <= BlockSize
    /\ \A j \in Copied : i < j /\ m_rows[i].block = m_rows[j].block =>
         m_rows[i].offset + m_rows[i].size <= m_rows[j].offset

\* Every row of the buffer reads back as it was copied, whatever was copied, or
\* failed to be copied, after it: the size that getSize finds in the bytes is the
\* size with which the column was written (DataRow.cpp: "pStart - m_pData ==
\* m_iSize").  (The rows that were kept from before the buffer do not: their
\* blocks belong to others.)
RowsReadBack ==
  \A i \in Copied :
    GetResults(RowTypes, m_bufferBlocks[m_rows[i].block], m_rows[i].offset) = m_rows[i].results
=============================================================================
