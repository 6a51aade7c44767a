------------------------- MODULE GlobalMemBlockPool -------------------------
(***************************************************************************)
(* The process-wide pool of 512 KB memory blocks                           *)
(* (common/GlobalMemBlockPool.{h,cpp}).  A block is handed out as a        *)
(* unique_ptr: to a ParseResult (the arena of the parser), to a session    *)
(* (its network buffer) or to the ExecutionBuffer of a sorting plan.       *)
(*                                                                         *)
(* A block is named by the value m_iTotalMem / BLOCK_SIZE had when it was  *)
(* created, so two blocks never share a name.  Every call holds m_mutex    *)
(* while it touches the pool and is one atomic step.                       *)
(***************************************************************************)
EXTENDS Naturals, Sequences

CONSTANT MaxBlocks   \* execution_buffer / BLOCK_SIZE, the memory budget

ASSUME MaxBlocksAssumption == MaxBlocks \in Nat

VARIABLES
  freeBlocks,        \* the free list; its entries may be null
  m_iTotalMem        \* memory ever requested, in blocks

poolVars == <<freeBlocks, m_iTotalMem>>

Block   == 1..MaxBlocks
NoBlock == 0                    \* the null MemBlockPtr
BlockPtr == Block \cup {NoBlock}

PoolTypeOK ==
  /\ freeBlocks \in Seq(BlockPtr)
  /\ m_iTotalMem \in 0..(MaxBlocks + 1)

PoolInit ==
  /\ freeBlocks = <<>>
  /\ m_iTotalMem = 0

(***************************************************************************)
(* alloc() returns AllocResult and leaves the pool as AllocStep says: the  *)
(* head of the free list, whatever it is, or a new block if the budget     *)
(* allows one more.  A refused request is still added to m_iTotalMem; as   *)
(* the code only compares the total with the budget, it saturates here at  *)
(* one block above it.                                                     *)
(***************************************************************************)
\* Mutant of AllocResult: the budget is not compared.
AllocResultNoBudget ==
  IF freeBlocks # <<>> THEN Head(freeBlocks) ELSE m_iTotalMem + 1

AllocResult ==
  IF freeBlocks # <<>> THEN Head(freeBlocks)
  ELSE IF m_iTotalMem < MaxBlocks THEN m_iTotalMem + 1
  ELSE NoBlock

AllocStep ==
  IF freeBlocks # <<>>
  THEN /\ freeBlocks' = Tail(freeBlocks)
       /\ UNCHANGED m_iTotalMem
  ELSE /\ m_iTotalMem' = IF m_iTotalMem <= MaxBlocks THEN m_iTotalMem + 1
                                                     ELSE m_iTotalMem
       /\ UNCHANGED freeBlocks

\* free(MemBlockPtr&&): no test for null.
Free(b) ==
  /\ freeBlocks' = Append(freeBlocks, b)
  /\ UNCHANGED m_iTotalMem

\* free(std::vector<MemBlockPtr>&)
FreeAll(bs) ==
  /\ freeBlocks' = freeBlocks \o bs
  /\ UNCHANGED m_iTotalMem
=============================================================================
