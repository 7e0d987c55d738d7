------------------------------- MODULE MmPool -------------------------------
(***************************************************************************)
(* The pool of equal blocks of pools/mem_pool/mm_pool.h, threaded through  *)
(* the first word of its blocks.  A block is named by its index; the index *)
(* behind the last one is the end of the memory: the word of the last      *)
(* block names it, and nothing reads it.  The null pointer that mem_create *)
(* writes there lies outside the memory it allocated, and outside this     *)
(* model.                                                                  *)
(***************************************************************************)
EXTENDS Integers, FiniteSets

CONSTANTS MaxBlocks, \* the largest pool
          NoBlock    \* no block: what a caller writes, and the pointer before any pool

ASSUME BlockAssumption == MaxBlocks \in Nat

VARIABLES m_block_count, m_free_count, m_free_ptr,
          inMemory,  \* whether the memory of the pool is allocated
          firstWord, \* the first word of each block while it is free
          taken,     \* blocks that callers have
          refused    \* history: blocks given back that mem_free did not take

mmVars == <<m_block_count, m_free_count, m_free_ptr, inMemory, firstWord, taken, refused>>

MmInit == /\ m_block_count = 0 /\ m_free_count = 0 /\ m_free_ptr = NoBlock
          /\ inMemory = FALSE /\ firstWord = <<>> /\ taken = {} /\ refused = {}

mem_create(n) ==
    /\ ~inMemory /\ inMemory' = TRUE
    /\ m_block_count' = n /\ m_free_count' = n /\ m_free_ptr' = 0
    /\ firstWord' = [b \in 0 .. n - 1 |-> b + 1]
    /\ UNCHANGED <<taken, refused>>

\* The memory goes, with every block in it; the fields of the pool stay as they are.
mem_destory ==
    /\ inMemory /\ inMemory' = FALSE
    /\ firstWord' = <<>> /\ taken' = {} /\ refused' = {}
    /\ UNCHANGED <<m_block_count, m_free_count, m_free_ptr>>

mem_alloc ==
    /\ inMemory /\ m_free_count > 0
    /\ m_free_ptr' = firstWord[m_free_ptr]
    /\ m_free_count' = m_free_count - 1
    /\ taken' = taken \cup {m_free_ptr}
    /\ UNCHANGED <<m_block_count, inMemory, firstWord, refused>>

\* The caller writes into its block.
FillBlock(b) == /\ b \in taken
                /\ firstWord' = [firstWord EXCEPT ![b] = NoBlock]
                /\ UNCHANGED <<m_block_count, m_free_count, m_free_ptr, inMemory, taken, refused>>

\* The bound is the number of free blocks, where that of all blocks is meant.
InBounds(b) == b < m_free_count

\* Broken variant: every block is linked in, whether or not it is in bounds.
mem_free_unchecked(b) ==
    /\ b \in taken
    /\ taken' = taken \ {b}
    /\ firstWord' = [firstWord EXCEPT ![b] = m_free_ptr]
    /\ m_free_ptr' = b
    /\ IF InBounds(b) THEN m_free_count' = m_free_count + 1 /\ UNCHANGED refused
                      ELSE refused' = refused \cup {b} /\ UNCHANGED m_free_count
    /\ UNCHANGED <<m_block_count, inMemory>>

mem_free(b) ==
    /\ b \in taken
    /\ taken' = taken \ {b}
    /\ IF InBounds(b)
       THEN /\ firstWord' = [firstWord EXCEPT ![b] = m_free_ptr]
            /\ m_free_ptr' = b /\ m_free_count' = m_free_count + 1
            /\ UNCHANGED refused
       ELSE refused' = refused \cup {b} /\ UNCHANGED <<firstWord, m_free_ptr, m_free_count>>
    /\ UNCHANGED <<m_block_count, inMemory>>

MmNext == \/ \E n \in 1 .. MaxBlocks : mem_create(n)
          \/ mem_destory \/ mem_alloc
          \/ \E b \in taken : FillBlock(b) \/ mem_free(b)

MmSpec == MmInit /\ [][MmNext]_mmVars
-----------------------------------------------------------------------------
\* The block reached from the free pointer in n steps.
ReachedIn(n) == LET at[k \in 0 .. MaxBlocks] == IF k = 0 THEN m_free_ptr ELSE firstWord[at[k - 1]]
                IN at[n]

\* The next m_free_count answers of mem_alloc are different blocks that nobody has, and
\* the blocks that are neither free nor with a caller are exactly those mem_free refused,
\* which are out of reach for ever: a pool that runs empty stays empty.
MmChainIsFree ==
    inMemory =>
        LET chain == {ReachedIn(n) : n \in 0 .. m_free_count - 1} IN
        /\ Cardinality(chain) = m_free_count
        /\ chain = (0 .. m_block_count - 1) \ (taken \cup refused)
        /\ m_free_count = 0 => taken \cup refused = 0 .. m_block_count - 1
=============================================================================
