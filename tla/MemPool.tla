------------------------------ MODULE MemPool ------------------------------
(***************************************************************************)
(* The pool of fixed-size blocks (vpn/com_lib/mem_lib/mem_pool.h): pages   *)
(* of blocks, and a chain of the free blocks that is threaded through the  *)
(* first word of each, which belongs to the caller while he has the block. *)
(*                                                                         *)
(* Assumed of the callers: one thread, blocks at least as large as a       *)
(* pointer, and no block freed twice; create_mem_pool checks none of this. *)
(***************************************************************************)
EXTENDS Integers, FiniteSets

CONSTANTS Pages,     \* addresses that malloc may return for a page
          MaxCount,  \* the most blocks a page has
          MaxGrowth, \* the largest auto_increment
          Null,      \* the null pointer
          Data       \* what a caller writes into his block

Blocks == Pages \X (1..MaxCount)

ASSUME PoolAssumption ==
    /\ MaxCount \in Nat \ {0} /\ MaxGrowth \in 0..MaxCount
    /\ Null \notin Blocks

VARIABLES
    pages,          \* the page list mm
    size,           \* how many blocks each page has
    free_ptr,       \* the first free block
    word,           \* the first word of each block
    free_count,
    block_total,
    auto_increment,
    held            \* the blocks that callers have

vars == <<pages, size, free_ptr, word, free_count, block_total, auto_increment, held>>

PageBlocks(p, n) == {p} \X (1..n)
Owned == {b \in Blocks : b[1] \in pages /\ b[2] <= size[b[1]]}

Init ==
    /\ pages = {} /\ size = [p \in Pages |-> 0]
    /\ free_ptr = Null /\ word = [b \in Blocks |-> Data]
    /\ free_count = 0 /\ block_total = 0 /\ auto_increment = 0
    /\ held = {}

\* malloc_mem_page: each block of a new page points to the next one.
Threaded(p, n) ==
    [b \in Blocks |-> IF b \notin PageBlocks(p, n) THEN word[b]
                      ELSE IF b[2] = n THEN Null ELSE <<p, b[2] + 1>>]

\* create_mem_pool
Create(p, n, growth) ==
    /\ pages = {}
    /\ pages' = {p} /\ size' = [size EXCEPT ![p] = n]
    /\ word' = Threaded(p, n) /\ free_ptr' = <<p, 1>>
    /\ free_count' = n /\ block_total' = n /\ auto_increment' = growth
    /\ UNCHANGED held

\* malloc_mem_pool with a free block: the chain moves on to what its word says.
Malloc ==
    /\ free_ptr # Null
    /\ free_ptr' = word[free_ptr]
    /\ free_count' = free_count - 1
    /\ held' = held \cup {free_ptr}
    /\ UNCHANGED <<pages, size, word, block_total, auto_increment>>

\* malloc_mem_pool without one: a new page p, whose first block is handed out.
\* Without auto_increment, or without memory, the caller gets a null pointer.
MallocGrows(p) ==
    /\ free_ptr = Null /\ auto_increment > 0
    /\ p \notin pages
    /\ pages' = pages \cup {p} /\ size' = [size EXCEPT ![p] = auto_increment]
    /\ word' = Threaded(p, auto_increment)
    /\ free_ptr' = word'[<<p, 1>>]
    /\ free_count' = free_count + auto_increment - 1
    /\ block_total' = block_total + auto_increment
    /\ held' = held \cup {<<p, 1>>}
    /\ UNCHANGED auto_increment

\* Callers use their blocks.
Write(b) ==
    /\ b \in held
    /\ word' = [word EXCEPT ![b] = Data]
    /\ UNCHANGED <<pages, size, free_ptr, free_count, block_total, auto_increment, held>>

\* Pointers that callers pass to free_mem_pool: to a block they have, into one, or
\* to memory that is not the pool's.
Freeable(b, aligned) == b \in held \/ b \notin Owned

\* Broken variant: the page of the pointer is not searched for.
AcceptsForeign(b, aligned) == aligned

\* The page search and the test of the offset.
Accepts(b, aligned) == b \in Owned /\ aligned

\* free_mem_pool; it refuses a pointer with a message in the log.
Free(b, aligned) ==
    /\ Freeable(b, aligned) /\ Accepts(b, aligned)
    /\ word' = [word EXCEPT ![b] = free_ptr]
    /\ free_ptr' = b
    /\ free_count' = free_count + 1
    /\ held' = held \ {b}
    /\ UNCHANGED <<pages, size, block_total, auto_increment>>

\* destroy_mem_pool, which leaves block_total as it is.  The memory is gone.
Destroy ==
    /\ pages # {}
    /\ pages' = {} /\ free_ptr' = Null
    /\ free_count' = 0 /\ auto_increment' = 0
    /\ size' = [p \in Pages |-> 0] /\ word' = [b \in Blocks |-> Data]
    /\ held' = {}
    /\ UNCHANGED block_total

Next ==
    \/ \E p \in Pages, n \in 1..MaxCount, growth \in 0..MaxGrowth : Create(p, n, growth)
    \/ Malloc \/ \E p \in Pages : MallocGrows(p)
    \/ \E b \in Blocks : Write(b)
    \/ \E b \in Blocks, aligned \in BOOLEAN : Free(b, aligned)
    \/ Destroy

Spec == Init /\ [][Next]_vars
-----------------------------------------------------------------------------
TypeOK ==
    /\ pages \subseteq Pages /\ size \in [Pages -> 0..MaxCount]
    /\ free_ptr \in Blocks \cup {Null}
    /\ word \in [Blocks -> Blocks \cup {Null, Data}]
    /\ free_count \in Nat /\ block_total \in Nat
    /\ auto_increment \in 0..MaxGrowth
    /\ held \subseteq Owned
    /\ pages = {} => auto_increment = 0

\* A chain that starts at free_ptr, goes from word to word, ends with a null
\* pointer after free_count blocks and meets each of the given blocks once.
IsChain(c, blocks) ==
    /\ c \in [1..free_count -> blocks]
    /\ \A b \in blocks : \E i \in 1..free_count : c[i] = b
    /\ \A i, j \in 1..free_count : c[i] = c[j] => i = j
    /\ free_ptr = IF free_count = 0 THEN Null ELSE c[1]
    /\ \A i \in 1..free_count : word[c[i]] = IF i = free_count THEN Null ELSE c[i + 1]

\* The free chain holds exactly the blocks of the pool that no caller has, so that
\* no block is handed out twice and none is lost (malloc_mem_pool, free_mem_pool).
ChainIsFree == \E c \in [1..free_count -> Owned \ held] : IsChain(c, Owned \ held)

\* The counters agree with what callers have (test_mem.cpp asserts single cases).
CountsAddUp == pages # {} => block_total = free_count + Cardinality(held)

\* What callers see is a store of blocks: malloc_mem_pool only hands out blocks that
\* nobody has, and growth keeps those that are out.
Store == INSTANCE BlockStore WITH store <- Owned
ImplementsStore == Store!Spec
=============================================================================
