-------------------------- MODULE StructuresProofs --------------------------
(***************************************************************************)
(* Proofs about the data structures: MemPool, MmPool, FifoList,            *)
(* FbarrayFile, SysQueue and Fbarray, each for any values of its           *)
(* constants.                                                              *)
(***************************************************************************)
EXTENDS MemPool, MmPool, FifoList, FbarrayFile, SysQueue, Fbarray, SequenceLemmas
-----------------------------------------------------------------------------
(***************************************************************************)
(* MemPool: any pages, sizes and growth.                                   *)
(***************************************************************************)
\* A block of a new page.
LEMMA PageBlocksAreBlocks ==
    ASSUME NEW p \in Pages, NEW n \in 1..MaxCount
    PROVE  PageBlocks(p, n) \subseteq Blocks
BY PoolAssumption DEF PageBlocks, Blocks

\* Type correctness of the words of a new page (malloc_mem_page).
LEMMA ThreadedType ==
    ASSUME TypeOK, NEW p \in Pages, NEW n \in 1..MaxCount
    PROVE  Threaded(p, n) \in [Blocks -> Blocks \cup {Null, Data}]
<1> SUFFICES ASSUME NEW b \in Blocks, b \in PageBlocks(p, n), b[2] # n
             PROVE  <<p, b[2] + 1>> \in Blocks
  BY DEF Threaded, TypeOK
<1>1. b[2] \in 1..n BY DEF PageBlocks
<1> QED BY <1>1, PoolAssumption DEF Blocks

\* The blocks of the pool after a page was added.
LEMMA OwnedGrows ==
    ASSUME TypeOK, NEW p \in Pages, p \notin pages, NEW n \in 1..MaxCount,
           pages' = pages \cup {p}, size' = [size EXCEPT ![p] = n]
    PROVE  Owned' = Owned \cup PageBlocks(p, n) /\ Owned \cap PageBlocks(p, n) = {}
<1>1. \A b \in Blocks : b[1] \in Pages /\ b[2] \in 1..MaxCount BY DEF Blocks
<1>2. \A b \in Blocks : b \in PageBlocks(p, n) <=> b[1] = p /\ b[2] <= n
  BY PoolAssumption DEF Blocks, PageBlocks
<1>3. \A b \in Blocks : b[1] # p => size'[b[1]] = size[b[1]]
  BY <1>1 DEF TypeOK
<1>4. size'[p] = n BY DEF TypeOK
<1>5. \A b \in Blocks : b \in Owned' <=> b \in Owned \/ b \in PageBlocks(p, n)
  BY <1>1, <1>2, <1>3, <1>4 DEF Owned
<1>6. Owned' \subseteq Blocks /\ Owned \subseteq Blocks BY DEF Owned, Blocks
<1>7. Owned \cap PageBlocks(p, n) = {} BY <1>2, <1>6 DEF Owned
<1> QED BY <1>5, <1>6, <1>7, PageBlocksAreBlocks

\* What the chain says of free_ptr.
LEMMA ChainFacts ==
    ASSUME TypeOK, ChainIsFree
    PROVE  /\ free_ptr # Null => /\ free_ptr \in Owned \ held
                                 /\ free_count > 0
                                 /\ word[free_ptr] \in Blocks \cup {Null}
           /\ free_ptr = Null => free_count = 0 /\ Owned \subseteq held
<1> DEFINE n == free_count
<1>0. PICK c \in [1..n -> Owned \ held] : IsChain(c, Owned \ held)
  BY DEF ChainIsFree
<1>1. n \in Nat /\ Owned \subseteq Blocks BY DEF TypeOK, Owned
<1>2. ASSUME n = 0 PROVE free_ptr = Null /\ Owned \subseteq held
  BY <1>0, <1>2 DEF IsChain
<1>3. ASSUME n # 0
      PROVE  /\ free_ptr = c[1] /\ c[1] \in Owned \ held
             /\ word[c[1]] \in Blocks \cup {Null}
  <2>1. 1 \in 1..n BY <1>1, <1>3
  <2>2. n # 1 => 2 \in 1..n BY <1>1, <1>3
  <2> QED BY <1>0, <1>1, <1>3, <2>1, <2>2 DEF IsChain
<1>4. n # 0 => free_ptr # Null
  BY <1>1, <1>3, PoolAssumption
<1> QED BY <1>1, <1>2, <1>3, <1>4

\* A chain of the next state.
LEMMA ChainNext ==
    ASSUME NEW c \in [1..free_count' -> (Owned \ held)'],
           \A b \in (Owned \ held)' : \E i \in 1..free_count' : c[i] = b,
           \A i, j \in 1..free_count' : c[i] = c[j] => i = j,
           free_ptr' = IF free_count' = 0 THEN Null ELSE c[1],
           \A i \in 1..free_count' :
               word'[c[i]] = IF i = free_count' THEN Null ELSE c[i + 1]
    PROVE  ChainIsFree'
<1>1. IsChain(c, Owned \ held)' BY DEF IsChain
<1> QED BY <1>1 DEF ChainIsFree

\* create_mem_pool chains all blocks of its page in order.
LEMMA CreateStep ==
    ASSUME TypeOK, ChainIsFree, NEW p \in Pages, NEW n \in 1..MaxCount,
           NEW growth \in 0..MaxGrowth, Create(p, n, growth)
    PROVE  TypeOK' /\ ChainIsFree'
<1> USE DEF Create
<1>1. Owned = {} /\ held = {} BY DEF TypeOK, Owned
<1>2. Owned' = PageBlocks(p, n)
  <2>1. pages' = pages \cup {p} /\ p \notin pages OBVIOUS
  <2>2. Owned' = Owned \cup PageBlocks(p, n) BY <2>1, OwnedGrows
  <2> QED BY <1>1, <2>2
<1>3. n \in Nat /\ n > 0 BY PoolAssumption
<1>4. 1 \in 1..MaxCount /\ <<p, 1>> \in Blocks BY PoolAssumption DEF Blocks
<1>5. TypeOK'
  BY <1>1, <1>3, <1>4, ThreadedType, OwnedGrows DEF TypeOK
<1>6. (Owned \ held)' = PageBlocks(p, n) BY <1>1, <1>2
<1>7. free_count' = n OBVIOUS
<1>8. PICK c : c = [i \in 1..n |-> <<p, i>>] OBVIOUS
<1>9. c \in [1..n -> PageBlocks(p, n)] BY <1>8 DEF PageBlocks
<1>10. \A b \in PageBlocks(p, n) : \E i \in 1..n : c[i] = b BY <1>8 DEF PageBlocks
<1>11. \A i, j \in 1..n : c[i] = c[j] => i = j BY <1>8
<1>12. free_ptr' = IF n = 0 THEN Null ELSE c[1] BY <1>3, <1>8
<1>13. \A i \in 1..n : word'[c[i]] = IF i = n THEN Null ELSE c[i + 1]
  <2> TAKE i \in 1..n
  <2>1. c[i] \in PageBlocks(p, n) /\ c[i] \in Blocks /\ c[i][2] = i /\ c[i][1] = p
    BY <1>8, <1>9, PageBlocksAreBlocks
  <2>2. i # n => i + 1 \in 1..n BY <1>3
  <2> QED BY <1>8, <2>1, <2>2 DEF Threaded
<1>14. ChainIsFree' BY <1>6, <1>7, <1>9, <1>10, <1>11, <1>12, <1>13, ChainNext
<1> QED BY <1>5, <1>14

\* malloc_mem_pool takes the first block off the chain.
LEMMA MallocStep ==
    ASSUME TypeOK, ChainIsFree, Malloc
    PROVE  TypeOK' /\ ChainIsFree'
<1> DEFINE n == free_count
           free == Owned \ held
<1>1. free_ptr \in free /\ n > 0 /\ word[free_ptr] \in Blocks \cup {Null}
  BY ChainFacts DEF Malloc
<1>2. n \in Nat /\ n - 1 \in Nat /\ free_count' = n - 1
  BY <1>1 DEF TypeOK, Malloc
<1>3. Owned' = Owned BY DEF Malloc, Owned
<1>4. TypeOK' BY <1>1, <1>2, <1>3 DEF TypeOK, Malloc
<1>5. PICK c \in [1..n -> free] : IsChain(c, free) BY DEF ChainIsFree
<1>6. c[1] = free_ptr /\ 1 \in 1..n BY <1>1, <1>2, <1>5 DEF IsChain
<1>7. PICK d : d = [i \in 1..(n - 1) |-> c[i + 1]] OBVIOUS
<1>8. \A i \in 1..(n - 1) : i + 1 \in 1..n /\ d[i] = c[i + 1] BY <1>2, <1>7
<1>9. (Owned \ held)' = free \ {free_ptr} BY <1>3 DEF Malloc
<1>10. \A i \in 1..n, j \in 1..n : c[i] = c[j] => i = j BY <1>5 DEF IsChain
<1>11. \A i \in 1..(n - 1) : d[i] \in free \ {free_ptr}
  BY <1>2, <1>5, <1>6, <1>8, <1>10
<1>12. d \in [1..(n - 1) -> free \ {free_ptr}] BY <1>7, <1>11
<1>13. \A b \in free \ {free_ptr} : \E i \in 1..(n - 1) : d[i] = b
  <2> TAKE b \in free \ {free_ptr}
  <2>1. PICK i \in 1..n : c[i] = b BY <1>5 DEF IsChain
  <2>2. i # 1 BY <1>6, <2>1
  <2>3. i - 1 \in 1..(n - 1) /\ (i - 1) + 1 = i BY <1>2, <2>2
  <2> QED BY <1>8, <2>1, <2>3
<1>14. \A i, j \in 1..(n - 1) : d[i] = d[j] => i = j
  <2> TAKE i, j \in 1..(n - 1)
  <2> HAVE d[i] = d[j]
  <2>1. i + 1 = j + 1 BY <1>8, <1>10
  <2> QED BY <1>2, <2>1
<1>15. free_ptr' = IF n - 1 = 0 THEN Null ELSE d[1]
  <2>1. free_ptr' = IF 1 = n THEN Null ELSE c[1 + 1]
    BY <1>5, <1>6 DEF IsChain, Malloc
  <2>2. n - 1 # 0 => 1 \in 1..(n - 1) BY <1>2
  <2> QED BY <1>2, <1>8, <2>1, <2>2
<1>16. \A i \in 1..(n - 1) : word'[d[i]] = IF i = n - 1 THEN Null ELSE d[i + 1]
  <2> TAKE i \in 1..(n - 1)
  <2>1. word[c[i + 1]] = IF i + 1 = n THEN Null ELSE c[(i + 1) + 1]
    BY <1>5, <1>8 DEF IsChain
  <2>2. i # n - 1 => i + 1 \in 1..(n - 1) BY <1>2
  <2>3. i + 1 = n <=> i = n - 1 BY <1>2
  <2>4. word' = word BY DEF Malloc
  <2> QED BY <1>8, <2>1, <2>2, <2>3, <2>4
<1> HIDE DEF n, free
<1>17. ChainIsFree'
  BY <1>2, <1>9, <1>12, <1>13, <1>14, <1>15, <1>16, ChainNext
<1> QED BY <1>4, <1>17

\* malloc_mem_pool hands out the first block of a new page and chains the others.
LEMMA MallocGrowsStep ==
    ASSUME TypeOK, ChainIsFree, NEW p \in Pages, MallocGrows(p)
    PROVE  TypeOK' /\ ChainIsFree'
<1>1. PICK n : n = auto_increment OBVIOUS
<1>2. n \in 1..MaxCount /\ n \in Nat /\ n - 1 \in Nat
  BY <1>1, PoolAssumption DEF TypeOK, MallocGrows
<1>3. free_count = 0 /\ Owned \subseteq held /\ held \subseteq Owned
  BY ChainFacts DEF MallocGrows, TypeOK
<1>4. pages' = pages \cup {p} /\ p \notin pages /\ size' = [size EXCEPT ![p] = n]
  BY <1>1 DEF MallocGrows
<1>5. Owned' = Owned \cup PageBlocks(p, n) /\ Owned \cap PageBlocks(p, n) = {}
  BY <1>2, <1>4, OwnedGrows
<1>6. free_count' = n - 1 BY <1>1, <1>2, <1>3 DEF MallocGrows
<1>7. word' = Threaded(p, n) /\ free_ptr' = word'[<<p, 1>>]
      /\ held' = held \cup {<<p, 1>>}
  BY <1>1 DEF MallocGrows
<1>8. word' \in [Blocks -> Blocks \cup {Null, Data}] BY <1>2, <1>7, ThreadedType
<1>9. PageBlocks(p, n) \subseteq Blocks BY <1>2, PageBlocksAreBlocks
<1>10. \A i \in 1..n : <<p, i>> \in PageBlocks(p, n) BY DEF PageBlocks
<1>11. \A i \in 1..n : word'[<<p, i>>] = IF i = n THEN Null ELSE <<p, i + 1>>
  BY <1>7, <1>9, <1>10 DEF Threaded
<1>12. 1 \in 1..n BY <1>2
<1>13. free_ptr' \in Blocks \cup {Null}
  <2>1. n # 1 => 1 + 1 \in 1..n BY <1>2
  <2>2. word'[<<p, 1>>] = IF 1 = n THEN Null ELSE <<p, 1 + 1>> BY <1>11, <1>12
  <2>3. n # 1 => <<p, 1 + 1>> \in Blocks BY <1>9, <1>10, <2>1
  <2> QED BY <1>7, <2>2, <2>3
<1>14. TypeOK'
  <2>1. held' \subseteq Owned' BY <1>3, <1>5, <1>7, <1>10, <1>12
  <2>2. size' \in [Pages -> 0..MaxCount] BY <1>2, <1>4 DEF TypeOK
  <2>3. block_total' \in Nat /\ auto_increment' \in 0..MaxGrowth /\ pages' # {}
    BY <1>1, <1>2 DEF TypeOK, MallocGrows
  <2> QED BY <1>2, <1>4, <1>6, <1>8, <1>13, <2>1, <2>2, <2>3 DEF TypeOK
<1>15. PICK free : free = PageBlocks(p, n) \ {<<p, 1>>} OBVIOUS
<1>16. (Owned \ held)' = free BY <1>3, <1>5, <1>7, <1>15
<1>17. PICK c : c = [i \in 1..(n - 1) |-> <<p, i + 1>>] OBVIOUS
<1>18. \A i \in 1..(n - 1) : i + 1 \in 1..n /\ c[i] = <<p, i + 1>> /\ i + 1 # 1
  BY <1>2, <1>17
<1>19. c \in [1..(n - 1) -> free] BY <1>10, <1>15, <1>17, <1>18
<1>20. \A b \in free : \E i \in 1..(n - 1) : c[i] = b
  <2> TAKE b \in free
  <2>1. PICK j \in 1..n : b = <<p, j>> BY <1>15 DEF PageBlocks
  <2>2. j # 1 BY <1>15, <2>1
  <2>3. j - 1 \in 1..(n - 1) /\ (j - 1) + 1 = j BY <1>2, <2>2
  <2> QED BY <1>18, <2>1, <2>3
<1>21. \A i, j \in 1..(n - 1) : c[i] = c[j] => i = j BY <1>2, <1>18
<1>22. free_ptr' = IF n - 1 = 0 THEN Null ELSE c[1]
  <2>1. word'[<<p, 1>>] = IF 1 = n THEN Null ELSE <<p, 1 + 1>> BY <1>11, <1>12
  <2>2. n - 1 # 0 => 1 \in 1..(n - 1) BY <1>2
  <2>3. n - 1 # 0 => c[1] = <<p, 1 + 1>> BY <1>18, <2>2
  <2>4. n - 1 = 0 <=> 1 = n BY <1>2
  <2> QED BY <1>7, <2>1, <2>3, <2>4
<1>23. \A i \in 1..(n - 1) : word'[c[i]] = IF i = n - 1 THEN Null ELSE c[i + 1]
  <2> TAKE i \in 1..(n - 1)
  <2>1. i # n - 1 => i + 1 \in 1..(n - 1) BY <1>2
  <2>2. i + 1 = n <=> i = n - 1 BY <1>2
  <2> QED BY <1>11, <1>18, <2>1, <2>2
<1>24. ChainIsFree'
  BY <1>6, <1>16, <1>19, <1>20, <1>21, <1>22, <1>23, ChainNext
<1> QED BY <1>14, <1>24

\* Callers only write into blocks that are not in the chain.
LEMMA WriteStep ==
    ASSUME TypeOK, ChainIsFree, NEW b \in Blocks, Write(b)
    PROVE  TypeOK' /\ ChainIsFree'
<1>1. Owned' = Owned BY DEF Write, Owned
<1>2. TypeOK' BY <1>1 DEF TypeOK, Write
<1>3. PICK c \in [1..free_count -> Owned \ held] : IsChain(c, Owned \ held)
  BY DEF ChainIsFree
<1>4. \A i \in 1..free_count : c[i] \in Blocks /\ c[i] # b
  BY <1>3 DEF Write, Owned
<1>5. \A i \in 1..free_count : word'[c[i]] = word[c[i]]
  BY <1>4 DEF Write, TypeOK
<1>6. free_count' = free_count /\ (Owned \ held)' = Owned \ held /\ free_ptr' = free_ptr
  BY <1>1 DEF Write
<1>7. /\ \A x \in Owned \ held : \E i \in 1..free_count : c[i] = x
      /\ \A i, j \in 1..free_count : c[i] = c[j] => i = j
      /\ free_ptr = IF free_count = 0 THEN Null ELSE c[1]
      /\ \A i \in 1..free_count : word'[c[i]] = IF i = free_count THEN Null ELSE c[i + 1]
  BY <1>3, <1>5 DEF IsChain
<1>8. c \in [1..free_count' -> (Owned \ held)'] BY <1>3, <1>6
<1>9. \A x \in (Owned \ held)' : \E i \in 1..free_count' : c[i] = x BY <1>6, <1>7
<1>10. \A i, j \in 1..free_count' : c[i] = c[j] => i = j BY <1>6, <1>7
<1>11. free_ptr' = IF free_count' = 0 THEN Null ELSE c[1] BY <1>6, <1>7
<1>12. \A i \in 1..free_count' :
           word'[c[i]] = IF i = free_count' THEN Null ELSE c[i + 1]
  BY <1>6, <1>7
<1>13. ChainIsFree' BY <1>8, <1>9, <1>10, <1>11, <1>12, ChainNext
<1> QED BY <1>2, <1>13

\* free_mem_pool puts the block in front of the chain.
LEMMA FreeStep ==
    ASSUME TypeOK, ChainIsFree, NEW b \in Blocks, NEW aligned \in BOOLEAN, Free(b, aligned)
    PROVE  TypeOK' /\ ChainIsFree'
<1>1. PICK n : n = free_count OBVIOUS
<1>2. PICK free : free = Owned \ held OBVIOUS
<1>3. b \in held /\ b \in Owned BY DEF Free, Freeable, Accepts
<1>4. Owned' = Owned BY DEF Free, Owned
<1>5. n \in Nat /\ n + 1 \in Nat /\ free_count' = n + 1 BY <1>1 DEF TypeOK, Free
<1>6. TypeOK' BY <1>1, <1>3, <1>4, <1>5 DEF TypeOK, Free
<1>7. PICK c \in [1..n -> free] : IsChain(c, free) BY <1>1, <1>2 DEF ChainIsFree
<1>8. (Owned \ held)' = free \cup {b} BY <1>2, <1>3, <1>4 DEF Free
<1>9. PICK d : d = [i \in 1..(n + 1) |-> IF i = 1 THEN b ELSE c[i - 1]] OBVIOUS
<1>10. d[1] = b /\ 1 \in 1..(n + 1) BY <1>5, <1>9
<1>11. \A i \in 1..n : i + 1 \in 1..(n + 1) /\ d[i + 1] = c[i]
  BY <1>5, <1>9
<1>12. \A i \in 1..(n + 1) : i # 1 => i - 1 \in 1..n /\ d[i] = c[i - 1] /\ (i - 1) + 1 = i
  BY <1>5, <1>9
<1>13. b \notin free BY <1>2, <1>3
<1>14. d \in [1..(n + 1) -> free \cup {b}]
  <2>1. \A i \in 1..(n + 1) : d[i] \in free \cup {b} BY <1>7, <1>10, <1>12
  <2> QED BY <1>9, <2>1
<1>15. \A x \in free \cup {b} : \E i \in 1..(n + 1) : d[i] = x
  <2> TAKE x \in free \cup {b}
  <2>1. CASE x = b BY <1>10, <2>1
  <2>2. CASE x \in free
    <3>1. PICK i \in 1..n : c[i] = x BY <1>1, <1>7, <2>2 DEF IsChain
    <3> QED BY <1>11, <3>1
  <2> QED BY <2>1, <2>2
<1>16. \A i, j \in 1..(n + 1) : d[i] = d[j] => i = j
  <2>1. \A i \in 1..(n + 1) : i # 1 => d[i] \in free BY <1>7, <1>12
  <2>2. \A i, j \in 1..n : c[i] = c[j] => i = j BY <1>1, <1>7 DEF IsChain
  <2> TAKE i, j \in 1..(n + 1)
  <2> HAVE d[i] = d[j]
  <2>3. CASE i = 1 BY <1>10, <1>13, <2>1, <2>3
  <2>4. CASE j = 1 BY <1>10, <1>13, <2>1, <2>4
  <2>5. CASE i # 1 /\ j # 1
    <3>1. i - 1 = j - 1 BY <1>12, <2>2, <2>5
    <3> QED BY <1>12, <2>5, <3>1
  <2> QED BY <2>3, <2>4, <2>5
<1>17. free_ptr' = IF n + 1 = 0 THEN Null ELSE d[1] BY <1>5, <1>10 DEF Free
<1>18. \A i \in 1..(n + 1) : word'[d[i]] = IF i = n + 1 THEN Null ELSE d[i + 1]
  <2> TAKE i \in 1..(n + 1)
  <2>1. CASE i = 1
    <3>1. word'[d[i]] = free_ptr BY <1>10, <2>1 DEF Free, TypeOK
    <3>2. n # 0 => 1 \in 1..n BY <1>5
    <3>3. n # 0 => free_ptr = d[i + 1] BY <1>1, <1>7, <1>11, <2>1, <3>2 DEF IsChain
    <3>4. n = 0 => free_ptr = Null BY <1>1, <1>7 DEF IsChain
    <3>5. i = n + 1 <=> n = 0 BY <1>5, <2>1
    <3> QED BY <3>1, <3>3, <3>4, <3>5
  <2>2. CASE i # 1
    <3>1. PICK j \in 1..n : j = i - 1 /\ j + 1 = i /\ d[i] = c[j] BY <1>12, <2>2
    <3>2. c[j] \in free /\ c[j] # b /\ c[j] \in Blocks
      BY <1>2, <1>7, <1>13 DEF Owned
    <3>3. word'[c[j]] = word[c[j]] BY <3>2 DEF Free, TypeOK
    <3>4. word[c[j]] = IF j = n THEN Null ELSE c[j + 1] BY <1>1, <1>7 DEF IsChain
    <3>5. j # n => j + 1 \in 1..n BY <1>5
    <3>6. j # n => c[j + 1] = d[i + 1] BY <1>11, <3>1, <3>5
    <3>7. j = n <=> i = n + 1 BY <1>5, <3>1
    <3> QED BY <3>1, <3>3, <3>4, <3>6, <3>7
  <2> QED BY <2>1, <2>2
<1>19. d \in [1..free_count' -> (Owned \ held)'] BY <1>5, <1>8, <1>14
<1>20. \A x \in (Owned \ held)' : \E i \in 1..free_count' : d[i] = x
  BY <1>5, <1>8, <1>15
<1>21. \A i, j \in 1..free_count' : d[i] = d[j] => i = j BY <1>5, <1>16
<1>22. free_ptr' = IF free_count' = 0 THEN Null ELSE d[1] BY <1>5, <1>17
<1>23. \A i \in 1..free_count' :
           word'[d[i]] = IF i = free_count' THEN Null ELSE d[i + 1]
  BY <1>5, <1>18
<1>24. ChainIsFree' BY <1>19, <1>20, <1>21, <1>22, <1>23, ChainNext
<1> QED BY <1>6, <1>24

\* A pool without pages has an empty chain.
LEMMA EmptyChain ==
    ASSUME free_count = 0, Owned \subseteq held, free_ptr = Null
    PROVE  ChainIsFree
<1>1. PICK c : c = [i \in 1..free_count |-> free_ptr] OBVIOUS
<1>2. 1..free_count = {} OBVIOUS
<1>3. c \in [1..free_count -> Owned \ held] BY <1>1, <1>2
<1>4. IsChain(c, Owned \ held) BY <1>2, <1>3 DEF IsChain
<1> QED BY <1>3, <1>4 DEF ChainIsFree

\* destroy_mem_pool
LEMMA DestroyStep ==
    ASSUME TypeOK, Destroy
    PROVE  TypeOK' /\ ChainIsFree'
<1>1. Owned' = {} BY DEF Destroy, Owned
<1>2. TypeOK' BY <1>1, PoolAssumption DEF Destroy, TypeOK
<1>3. PICK c : c = [i \in {} |-> Null] OBVIOUS
<1>4. free_count' = 0 /\ free_ptr' = Null /\ (Owned \ held)' = {} /\ 1..0 = {}
  BY <1>1 DEF Destroy
<1>5. c \in [1..free_count' -> (Owned \ held)'] BY <1>3, <1>4
<1>6. ChainIsFree' BY <1>4, <1>5, ChainNext
<1> QED BY <1>2, <1>6

Inv == TypeOK /\ ChainIsFree

\* Every operation of mem_pool.h preserves the types and the chain.
LEMMA Invariance == Spec => []Inv
<1>1. Init => Inv
  <2> SUFFICES ASSUME Init PROVE Inv OBVIOUS
  <2> USE DEF Init
  <2>1. Owned = {} BY DEF Owned
  <2>2. TypeOK BY <2>1, PoolAssumption DEF TypeOK
  <2> QED BY <2>1, <2>2, EmptyChain DEF Inv
<1>2. Inv /\ [Next]_vars => Inv'
  <2> SUFFICES ASSUME Inv, [Next]_vars PROVE Inv' OBVIOUS
  <2> USE DEF Inv
  <2>1. ASSUME NEW p \in Pages, NEW n \in 1..MaxCount, NEW growth \in 0..MaxGrowth,
               Create(p, n, growth)
        PROVE  Inv'
    BY <2>1, CreateStep
  <2>2. CASE Malloc BY <2>2, MallocStep
  <2>3. ASSUME NEW p \in Pages, MallocGrows(p) PROVE Inv' BY <2>3, MallocGrowsStep
  <2>4. ASSUME NEW b \in Blocks, Write(b) PROVE Inv' BY <2>4, WriteStep
  <2>5. ASSUME NEW b \in Blocks, NEW aligned \in BOOLEAN, Free(b, aligned) PROVE Inv'
    BY <2>5, FreeStep
  <2>6. CASE Destroy BY <2>6, DestroyStep
  <2>7. CASE UNCHANGED vars
    <3> USE <2>7 DEF vars
    <3>1. Owned' = Owned BY DEF Owned
    <3>2. TypeOK' BY <3>1 DEF TypeOK
    <3>3. PICK c \in [1..free_count -> Owned \ held] : IsChain(c, Owned \ held)
      BY DEF ChainIsFree
    <3>4. IsChain(c, Owned \ held)' BY <3>1, <3>3 DEF IsChain
    <3>5. ChainIsFree' BY <3>1, <3>3, <3>4 DEF ChainIsFree
    <3> QED BY <3>2, <3>5
  <2> QED BY <2>1, <2>2, <2>3, <2>4, <2>5, <2>6, <2>7 DEF Next
<1> QED BY <1>1, <1>2, PTL DEF Spec

\* Type correctness, for any pages, sizes and growth.
THEOREM Typing == Spec => []TypeOK
BY Invariance, PTL DEF Inv

\* The free chain always holds exactly the blocks that no caller has
\* (malloc_mem_pool, free_mem_pool).
THEOREM ChainIsComplete == Spec => []ChainIsFree
BY Invariance, PTL DEF Inv

\* Every step of the pool is one of a store of blocks, or none.
THEOREM Implements == Spec => ImplementsStore
<1>1. Init => Store!Init BY DEF Init, Store!Init, Owned
<1>2. Inv /\ Inv' /\ [Next]_vars => [Store!Next]_<<Owned, held>>
  <2> SUFFICES ASSUME Inv, Inv', [Next]_vars PROVE [Store!Next]_<<Owned, held>> OBVIOUS
  <2> USE DEF Inv, Store!Next
  <2>1. ASSUME NEW p \in Pages, NEW n \in 1..MaxCount, NEW growth \in 0..MaxGrowth,
               Create(p, n, growth)
        PROVE  Store!Open(Owned')
    BY <2>1 DEF Create, Store!Open, Owned, TypeOK
  <2>2. CASE Malloc
    <3>1. free_ptr \in Owned \ held /\ Owned' = Owned /\ free_ptr \in held'
      BY <2>2, ChainFacts DEF Malloc, Owned
    <3>2. Store!Take(free_ptr, {}) BY <2>2, <3>1 DEF Malloc, Store!Take
    <3> QED BY <3>1, <3>2
  <2>3. ASSUME NEW p \in Pages, MallocGrows(p) PROVE Store!Next
    <3>1. PICK n \in 1..MaxCount : n = auto_increment
      BY <2>3, PoolAssumption DEF MallocGrows, TypeOK
    <3>2. /\ Owned' = Owned \cup PageBlocks(p, n)
          /\ Owned \cap PageBlocks(p, n) = {}
      BY <2>3, <3>1, OwnedGrows DEF MallocGrows
    <3>3. <<p, 1>> \in PageBlocks(p, n) /\ held' = held \cup {<<p, 1>>}
      BY <2>3, <3>1, PoolAssumption DEF MallocGrows, PageBlocks
    <3>4. <<p, 1>> \notin held BY <3>2, <3>3 DEF TypeOK
    <3>5. Store!Take(<<p, 1>>, PageBlocks(p, n)) BY <3>2, <3>3, <3>4 DEF Store!Take
    <3> QED BY <3>2, <3>3, <3>5
  <2>4. ASSUME NEW b \in Blocks, Write(b) PROVE UNCHANGED <<Owned, held>>
    BY <2>4 DEF Write, Owned
  <2>5. ASSUME NEW b \in Blocks, NEW aligned \in BOOLEAN, Free(b, aligned)
        PROVE  Store!Next
    <3>1. b \in held /\ Store!Give(b)
      BY <2>5 DEF Free, Freeable, Accepts, Store!Give, Owned
    <3> QED BY <3>1
  <2>6. CASE Destroy BY <2>6 DEF Destroy, Store!Close, Owned
  <2>7. CASE UNCHANGED vars BY <2>7 DEF vars, Owned
  <2> QED BY <2>1, <2>2, <2>3, <2>4, <2>5, <2>6, <2>7 DEF Next
<1> QED BY <1>1, <1>2, Invariance, PTL DEF Spec, ImplementsStore, Store!Spec

Count == IsFiniteSet(held) /\ CountsAddUp

\* free_count and block_total agree with the number of blocks that are out.
THEOREM Counts == Spec => []CountsAddUp
<1>1. Init => Count BY FS_EmptySet DEF Init, Count, CountsAddUp
<1>2. Inv /\ Inv' /\ Count /\ [Next]_vars => Count'
  <2> SUFFICES ASSUME Inv, Inv', Count, [Next]_vars PROVE Count' OBVIOUS
  <2> USE DEF Inv, Count
  <2>0. /\ Cardinality(held) \in Nat /\ free_count \in Nat /\ block_total \in Nat
        /\ pages = {} => held = {}
    BY FS_CardinalityType DEF TypeOK, Owned
  <2>1. ASSUME NEW p \in Pages, NEW n \in 1..MaxCount, NEW growth \in 0..MaxGrowth,
               Create(p, n, growth)
        PROVE  Count'
    <3>1. held' = {} /\ n \in Nat BY <2>0, <2>1, PoolAssumption DEF Create
    <3>2. block_total' = free_count' + 0 BY <2>1, <3>1 DEF Create
    <3> QED BY <3>1, <3>2, FS_EmptySet DEF CountsAddUp
  <2>2. CASE Malloc
    <3>1. free_ptr \notin held /\ free_ptr \in Owned BY <2>2, ChainFacts DEF Malloc
    <3>2. pages # {} BY <3>1 DEF Owned
    <3>3. IsFiniteSet(held') /\ Cardinality(held') = Cardinality(held) + 1
      BY <2>2, <3>1, FS_AddElement DEF Malloc
    <3> QED BY <2>0, <2>2, <3>2, <3>3 DEF Malloc, CountsAddUp
  <2>3. ASSUME NEW p \in Pages, MallocGrows(p) PROVE Count'
    <3>1. PICK n \in 1..MaxCount : n = auto_increment
      BY <2>3, PoolAssumption DEF MallocGrows, TypeOK
    <3>2. Owned \cap PageBlocks(p, n) = {} BY <2>3, <3>1, OwnedGrows DEF MallocGrows
    <3>3. <<p, 1>> \in PageBlocks(p, n)
      BY <3>1, PoolAssumption DEF PageBlocks
    <3>4. <<p, 1>> \notin held BY <3>2, <3>3 DEF TypeOK
    <3>5. IsFiniteSet(held') /\ Cardinality(held') = Cardinality(held) + 1
      BY <2>3, <3>4, FS_AddElement DEF MallocGrows
    <3>6. pages # {} BY <2>3, PoolAssumption DEF MallocGrows, TypeOK
    <3>7. n \in Nat BY PoolAssumption
    <3> QED BY <2>0, <2>3, <3>1, <3>5, <3>6, <3>7 DEF MallocGrows, CountsAddUp
  <2>4. ASSUME NEW b \in Blocks, Write(b) PROVE Count'
    BY <2>4 DEF Write, CountsAddUp
  <2>5. ASSUME NEW b \in Blocks, NEW aligned \in BOOLEAN, Free(b, aligned) PROVE Count'
    <3>1. b \in held BY <2>5 DEF Free, Freeable, Accepts
    <3>2. IsFiniteSet(held') /\ Cardinality(held') = Cardinality(held) - 1
      BY <2>5, <3>1, FS_RemoveElement DEF Free
    <3> QED BY <2>0, <2>5, <3>2 DEF Free, CountsAddUp
  <2>6. CASE Destroy BY <2>6, FS_EmptySet DEF Destroy, CountsAddUp
  <2>7. CASE UNCHANGED vars BY <2>7 DEF vars, CountsAddUp
  <2> QED BY <2>1, <2>2, <2>3, <2>4, <2>5, <2>6, <2>7 DEF Next
<1> QED BY <1>1, <1>2, Invariance, PTL DEF Spec, Count
-----------------------------------------------------------------------------
(***************************************************************************)
(* MmPool: the pool of equal blocks, of any number of them.                *)
(***************************************************************************)
\* The words can be followed from the free pointer up to MaxBlocks times.
LEMMA Following ==
    \E f : f = [k \in 0 .. MaxBlocks |-> IF k = 0 THEN m_free_ptr ELSE firstWord[f[k - 1]]]
<1> DEFINE Ends(m) == \E f : f = [k \in 0 .. m |-> IF k = 0 THEN m_free_ptr ELSE firstWord[f[k - 1]]]
           S == {m \in 0 .. MaxBlocks : Ends(m)}
<1>1. Ends(0)
  <2>1. PICK f : f = [k \in 0 .. 0 |-> m_free_ptr]  OBVIOUS
  <2>2. f = [k \in 0 .. 0 |-> IF k = 0 THEN m_free_ptr ELSE firstWord[f[k - 1]]]  BY <2>1
  <2> QED  BY <2>2
<1>2. ASSUME NEW m \in S, m < MaxBlocks PROVE m + 1 \in S
  <2>1. PICK f : f = [k \in 0 .. m |-> IF k = 0 THEN m_free_ptr ELSE firstWord[f[k - 1]]]  BY <1>2
  <2>2. PICK g : g = [k \in 0 .. m + 1 |-> IF k <= m THEN f[k] ELSE firstWord[f[m]]]  OBVIOUS
  <2>3. \A k \in 0 .. m + 1 : g[k] = IF k = 0 THEN m_free_ptr ELSE firstWord[g[k - 1]]
    <3> TAKE k \in 0 .. m + 1
    <3>1. CASE k = 0  BY <2>1, <2>2, <3>1
    <3>2. CASE k # 0 /\ k <= m
      <4>1. k \in 0 .. m /\ k - 1 \in 0 .. m + 1 /\ k - 1 <= m  BY <3>2
      <4> QED  BY <2>1, <2>2, <3>2, <4>1
    <3>3. CASE k = m + 1
      <4>1. k # 0 /\ k - 1 = m /\ ~(k <= m) /\ m \in 0 .. m + 1 /\ m <= m  BY <3>3
      <4> QED  BY <2>2, <4>1
    <3> QED  BY <3>1, <3>2, <3>3
  <2>4. g = [k \in 0 .. m + 1 |-> IF k = 0 THEN m_free_ptr ELSE firstWord[g[k - 1]]]
    BY <2>2, <2>3
  <2>5. m + 1 \in 0 .. MaxBlocks  BY <1>2, BlockAssumption
  <2> QED  BY <2>4, <2>5
<1>3. S = 0 .. MaxBlocks
  <2>1. S \subseteq 0 .. MaxBlocks /\ 0 \in S  BY <1>1, BlockAssumption
  <2> HIDE DEF S
  <2> QED  BY <1>2, <2>1, UpTo, BlockAssumption
<1>4. MaxBlocks \in S
  <2>1. MaxBlocks \in 0 .. MaxBlocks  BY BlockAssumption
  <2> HIDE DEF S
  <2> QED  BY <1>3, <2>1
<1> QED  BY <1>4

\* What ReachedIn computes.
LEMMA ReachedInSteps ==
    /\ ReachedIn(0) = m_free_ptr
    /\ \A n \in 0 .. MaxBlocks - 1 : ReachedIn(n + 1) = firstWord[ReachedIn(n)]
<1> DEFINE Follows(f) == f = [k \in 0 .. MaxBlocks |-> IF k = 0 THEN m_free_ptr ELSE firstWord[f[k - 1]]]
           at == CHOOSE f : Follows(f)
<1>1. \A n : ReachedIn(n) = at[n]
  BY DEF ReachedIn
<1>2. Follows(at)
  <2>1. \E f : Follows(f)  BY Following
  <2> QED  BY <2>1
<1> HIDE DEF at
<1>3. at[0] = m_free_ptr  BY <1>2, BlockAssumption
<1>4. ASSUME NEW n \in 0 .. MaxBlocks - 1 PROVE at[n + 1] = firstWord[at[n]]
  <2>1. n + 1 \in 0 .. MaxBlocks /\ n + 1 # 0 /\ (n + 1) - 1 = n  BY BlockAssumption
  <2> QED  BY <1>2, <2>1
<1> QED  BY <1>1, <1>3, <1>4

\* The blocks that neither a caller has nor mem_free refused.
Unclaimed == (0 .. m_block_count - 1) \ (taken \cup refused)

MmTypeOK ==
    /\ m_block_count \in 0 .. MaxBlocks /\ m_free_count \in Nat
    /\ m_free_ptr \in 0 .. MaxBlocks \cup {NoBlock}
    /\ inMemory \in BOOLEAN
    /\ inMemory => /\ m_block_count # 0
                   /\ firstWord \in [0 .. m_block_count - 1 -> 0 .. MaxBlocks \cup {NoBlock}]
    /\ ~inMemory => taken = {} /\ refused = {}
    /\ taken \subseteq 0 .. m_block_count - 1 /\ refused \subseteq 0 .. m_block_count - 1
    /\ taken \cap refused = {}

\* c is the chain of the free blocks, all of those that are unclaimed.
Threads(c) ==
    /\ \A b \in Unclaimed : \E k \in 0 .. m_free_count - 1 : c[k] = b
    /\ \A j, k \in 0 .. m_free_count - 1 : c[j] = c[k] => j = k
    /\ m_free_count # 0 => m_free_ptr = c[0]
    /\ \A k \in 0 .. m_free_count - 2 : firstWord[c[k]] = c[k + 1]

AllAreThreaded == \E c \in [0 .. m_free_count - 1 -> Unclaimed] : Threads(c)

MmInv == MmTypeOK /\ (inMemory => AllAreThreaded)

\* mem_create threads all blocks in order; the last word names the end of the memory.
LEMMA MmCreateKeeps ==
    ASSUME MmInv, NEW n \in 1 .. MaxBlocks, mem_create(n)
    PROVE  MmInv'
<1>1. /\ m_block_count' = n /\ m_free_count' = n /\ m_free_ptr' = 0
      /\ firstWord' = [b \in 0 .. n - 1 |-> b + 1] /\ ~inMemory /\ inMemory' = TRUE
      /\ n \in Nat /\ n > 0 /\ n <= MaxBlocks /\ MaxBlocks \in Nat
  BY BlockAssumption DEF mem_create
<1>2. taken' = {} /\ refused' = {}
  BY <1>1 DEF mem_create, MmInv, MmTypeOK
<1>3. firstWord' \in [0 .. n - 1 -> 0 .. MaxBlocks \cup {NoBlock}]
  <2>1. \A b \in 0 .. n - 1 : b + 1 \in 0 .. MaxBlocks  BY <1>1
  <2> QED  BY <1>1, <2>1
<1>4. MmTypeOK'
  BY <1>1, <1>2, <1>3 DEF MmTypeOK
<1>5. Unclaimed' = 0 .. n - 1
  BY <1>1, <1>2 DEF Unclaimed
<1>6. PICK c : c = [k \in 0 .. n - 1 |-> k]
  OBVIOUS
<1>7. c \in [0 .. m_free_count' - 1 -> Unclaimed']
  BY <1>1, <1>5, <1>6
<1>8. Threads(c)'
  <2>1. \A b \in 0 .. n - 1 : c[b] = b  BY <1>6
  <2>2. c[0] = 0  BY <1>1, <2>1
  <2>3. \A k \in 0 .. n - 2 : firstWord'[c[k]] = c[k + 1]
    <3> TAKE k \in 0 .. n - 2
    <3>1. k \in 0 .. n - 1 /\ k + 1 \in 0 .. n - 1  BY <1>1
    <3> QED  BY <1>1, <2>1, <3>1
  <2> QED  BY <1>1, <1>5, <2>1, <2>2, <2>3 DEF Threads
<1> QED  BY <1>4, <1>7, <1>8 DEF MmInv, AllAreThreaded

\* mem_alloc takes the first block off the chain.
LEMMA MmAllocKeeps ==
    ASSUME MmInv, mem_alloc
    PROVE  MmInv'
<1>1. PICK n \in Nat : n = m_free_count
  BY DEF MmInv, MmTypeOK
<1>2. PICK c \in [0 .. n - 1 -> Unclaimed] : Threads(c)
  BY <1>1 DEF mem_alloc, MmInv, AllAreThreaded
<1>3. /\ n > 0 /\ 0 \in 0 .. n - 1 /\ n - 1 \in Nat
      /\ \A b \in Unclaimed : \E k \in 0 .. n - 1 : c[k] = b
      /\ \A j, k \in 0 .. n - 1 : c[j] = c[k] => j = k
      /\ m_free_ptr = c[0] /\ c[0] \in Unclaimed
      /\ \A k \in 0 .. n - 2 : firstWord[c[k]] = c[k + 1]
  BY <1>1, <1>2 DEF mem_alloc, Threads
<1>4. /\ m_free_ptr' = firstWord[m_free_ptr] /\ m_free_count' = n - 1
      /\ taken' = taken \cup {c[0]}
      /\ inMemory /\ UNCHANGED <<m_block_count, inMemory, firstWord, refused>>
  BY <1>1, <1>3 DEF mem_alloc
<1>5. /\ MmTypeOK /\ m_block_count \in Nat /\ c[0] \in 0 .. m_block_count - 1
      /\ c[0] \notin taken /\ c[0] \notin refused
  BY <1>3, BlockAssumption DEF MmInv, MmTypeOK, Unclaimed
<1>6. MmTypeOK'
  <2>1. m_block_count # 0 /\ c[0] \in 0 .. m_block_count - 1  BY <1>5
  <2>2. m_free_ptr' \in 0 .. MaxBlocks \cup {NoBlock}
    BY <1>3, <1>4, <1>5, <2>1 DEF MmTypeOK
  <2>3. /\ taken' \subseteq 0 .. m_block_count' - 1 /\ refused' \subseteq 0 .. m_block_count' - 1
        /\ taken' \cap refused' = {}
    BY <1>4, <1>5 DEF MmTypeOK
  <2>4. /\ inMemory' /\ inMemory' \in BOOLEAN /\ m_block_count' # 0
        /\ firstWord' \in [0 .. m_block_count' - 1 -> 0 .. MaxBlocks \cup {NoBlock}]
    BY <1>4, <1>5 DEF MmTypeOK
  <2>5. m_block_count' \in 0 .. MaxBlocks /\ m_free_count' \in Nat
    BY <1>3, <1>4, <1>5 DEF MmTypeOK
  <2> QED  BY <2>2, <2>3, <2>4, <2>5 DEF MmTypeOK
<1>7. Unclaimed' = Unclaimed \ {c[0]}
  BY <1>4 DEF Unclaimed
<1>8. PICK d : d = [k \in 0 .. (n - 1) - 1 |-> c[k + 1]]
  OBVIOUS
<1>9. \A k \in 0 .. (n - 1) - 1 : /\ k + 1 \in 0 .. n - 1 /\ k + 1 # 0 /\ d[k] = c[k + 1]
                                  /\ c[k + 1] \in Unclaimed /\ c[k + 1] # c[0]
  BY <1>1, <1>3, <1>8
<1>10. d \in [0 .. m_free_count' - 1 -> Unclaimed']
  BY <1>4, <1>7, <1>8, <1>9
<1>11. Threads(d)'
  <2>1. \A b \in Unclaimed' : \E k \in 0 .. (n - 1) - 1 : d[k] = b
    <3> TAKE b \in Unclaimed'
    <3>1. PICK k \in 0 .. n - 1 : c[k] = b /\ k # 0  BY <1>3, <1>7
    <3>2. k - 1 \in 0 .. (n - 1) - 1 /\ (k - 1) + 1 = k  BY <3>1
    <3> QED  BY <1>9, <3>1, <3>2
  <2>2. \A j, k \in 0 .. (n - 1) - 1 : d[j] = d[k] => j = k
    <3> TAKE j, k \in 0 .. (n - 1) - 1
    <3>1. d[j] = d[k] => j + 1 = k + 1  BY <1>3, <1>9
    <3> QED  BY <3>1
  <2>3. n - 1 # 0 => m_free_ptr' = d[0]
    <3>1. n - 1 # 0 => 0 \in 0 .. n - 2 /\ 0 \in 0 .. (n - 1) - 1 /\ 0 + 1 = 1  BY <1>3
    <3>2. n - 1 # 0 => firstWord[c[0]] = c[1] /\ d[0] = c[1]  BY <1>3, <1>9, <3>1
    <3> QED  BY <1>3, <1>4, <3>2
  <2>4. \A k \in 0 .. (n - 1) - 2 : firstWord[d[k]] = d[k + 1]
    <3> TAKE k \in 0 .. (n - 1) - 2
    <3>1. /\ k \in 0 .. (n - 1) - 1 /\ k + 1 \in 0 .. (n - 1) - 1 /\ k + 1 \in 0 .. n - 2
      BY <1>3
    <3> QED  BY <1>3, <1>9, <3>1
  <2> QED  BY <1>4, <2>1, <2>2, <2>3, <2>4 DEF Threads
<1> QED  BY <1>6, <1>10, <1>11 DEF MmInv, AllAreThreaded

\* The caller writes into a block that is not in the chain.
LEMMA MmFillKeeps ==
    ASSUME MmInv, NEW b \in taken, FillBlock(b)
    PROVE  MmInv'
<1>1. /\ firstWord' = [firstWord EXCEPT ![b] = NoBlock]
      /\ UNCHANGED <<m_block_count, m_free_count, m_free_ptr, inMemory, taken, refused>>
  BY DEF FillBlock
<1>2. /\ inMemory /\ m_block_count \in Nat /\ m_block_count # 0 /\ b \in 0 .. m_block_count - 1
      /\ firstWord \in [0 .. m_block_count - 1 -> 0 .. MaxBlocks \cup {NoBlock}]
  BY BlockAssumption DEF MmInv, MmTypeOK
<1>3. MmTypeOK'
  BY <1>1, <1>2 DEF MmInv, MmTypeOK
<1>4. \A a \in Unclaimed : firstWord'[a] = firstWord[a]
  BY <1>1, <1>2 DEF Unclaimed
<1>5. PICK c \in [0 .. m_free_count - 1 -> Unclaimed] : Threads(c)
  BY <1>2 DEF MmInv, AllAreThreaded
<1>6. \A k \in 0 .. m_free_count - 2 : c[k] \in Unclaimed
  BY <1>5 DEF MmInv, MmTypeOK
<1>7. Unclaimed' = Unclaimed
  BY <1>1 DEF Unclaimed
<1>8. Threads(c)'
  BY <1>1, <1>4, <1>5, <1>6, <1>7 DEF Threads
<1> QED  BY <1>1, <1>3, <1>5, <1>7, <1>8 DEF MmInv, AllAreThreaded

\* mem_free puts a block in front of the chain, or refuses it.
LEMMA MmFreeKeeps ==
    ASSUME MmInv, NEW b \in taken, mem_free(b)
    PROVE  MmInv'
<1>1. PICK n \in Nat : n = m_free_count
  BY DEF MmInv, MmTypeOK
<1>2. PICK c \in [0 .. n - 1 -> Unclaimed] : Threads(c)
  <2>1. inMemory  BY DEF MmInv, MmTypeOK
  <2> QED  BY <1>1, <2>1 DEF MmInv, AllAreThreaded
<1>3. /\ \A a \in Unclaimed : \E k \in 0 .. n - 1 : c[k] = a
      /\ \A j, k \in 0 .. n - 1 : c[j] = c[k] => j = k
      /\ n # 0 => m_free_ptr = c[0]
      /\ \A k \in 0 .. n - 2 : firstWord[c[k]] = c[k + 1]
  BY <1>1, <1>2 DEF Threads
<1>4. /\ MmTypeOK /\ m_block_count \in Nat /\ m_block_count # 0 /\ m_block_count <= MaxBlocks
      /\ inMemory /\ b \in 0 .. m_block_count - 1
      /\ b \notin refused /\ b \notin Unclaimed
      /\ firstWord \in [0 .. m_block_count - 1 -> 0 .. MaxBlocks \cup {NoBlock}]
  BY BlockAssumption DEF MmInv, MmTypeOK, Unclaimed
<1>5. taken' = taken \ {b} /\ m_block_count' = m_block_count /\ inMemory' = inMemory
  BY DEF mem_free
<1>6. CASE InBounds(b)
  <2>1. /\ firstWord' = [firstWord EXCEPT ![b] = m_free_ptr]
        /\ m_free_ptr' = b /\ m_free_count' = n + 1 /\ refused' = refused
    BY <1>1, <1>6 DEF mem_free
  <2>2. MmTypeOK'
    <3>1. m_free_ptr' \in 0 .. MaxBlocks \cup {NoBlock}
      BY <1>4, <2>1, BlockAssumption
    <3>2. firstWord' \in [0 .. m_block_count - 1 -> 0 .. MaxBlocks \cup {NoBlock}]
      BY <1>4, <2>1 DEF MmTypeOK
    <3>3. /\ taken' \subseteq 0 .. m_block_count - 1 /\ refused' \subseteq 0 .. m_block_count - 1
          /\ taken' \cap refused' = {}
      BY <1>4, <1>5, <2>1 DEF MmTypeOK
    <3> QED  BY <1>4, <1>5, <2>1, <3>1, <3>2, <3>3 DEF MmTypeOK
  <2>3. Unclaimed' = Unclaimed \cup {b}
    BY <1>4, <1>5, <2>1 DEF Unclaimed
  <2>4. PICK d : d = [k \in 0 .. (n + 1) - 1 |-> IF k = 0 THEN b ELSE c[k - 1]]
    OBVIOUS
  <2>5. /\ 0 \in 0 .. (n + 1) - 1 /\ d[0] = b
        /\ \A k \in 0 .. n - 1 : k + 1 \in 0 .. (n + 1) - 1 /\ d[k + 1] = c[k]
        /\ \A k \in 0 .. (n + 1) - 1 : k # 0 => /\ k - 1 \in 0 .. n - 1 /\ (k - 1) + 1 = k
                                                /\ d[k] = c[k - 1] /\ d[k] \in Unclaimed
    BY <1>1, <1>2, <2>4
  <2>6. d \in [0 .. m_free_count' - 1 -> Unclaimed']
    <3>1. \A k \in 0 .. (n + 1) - 1 : d[k] \in Unclaimed \cup {b}  BY <2>5
    <3> QED  BY <2>1, <2>3, <2>4, <3>1
  <2>7. \A a \in Unclaimed' : \E k \in 0 .. (n + 1) - 1 : d[k] = a
    <3> TAKE a \in Unclaimed'
    <3>1. CASE a = b  BY <2>5, <3>1
    <3>2. CASE a \in Unclaimed
      <4>1. PICK k \in 0 .. n - 1 : c[k] = a  BY <1>3, <3>2
      <4> QED  BY <2>5, <4>1
    <3> QED  BY <2>3, <3>1, <3>2
  <2>8. \A j, k \in 0 .. (n + 1) - 1 : d[j] = d[k] => j = k
    <3> TAKE j, k \in 0 .. (n + 1) - 1
    <3> HAVE d[j] = d[k]
    <3>1. CASE j = 0  BY <1>4, <2>5, <3>1
    <3>2. CASE k = 0  BY <1>4, <2>5, <3>2
    <3>3. CASE j # 0 /\ k # 0
      <4>1. j - 1 = k - 1  BY <1>3, <2>5, <3>3
      <4> QED  BY <4>1
    <3> QED  BY <3>1, <3>2, <3>3
  <2>9. \A k \in 0 .. (n + 1) - 2 : firstWord'[d[k]] = d[k + 1]
    <3> TAKE k \in 0 .. (n + 1) - 2
    <3>1. k \in 0 .. n - 1 /\ d[k + 1] = c[k]  BY <1>1, <2>5
    <3>2. CASE k = 0
      <4>1. n # 0 /\ firstWord'[b] = m_free_ptr  BY <1>4, <2>1, <3>1
      <4> QED  BY <1>3, <2>5, <3>1, <3>2, <4>1
    <3>3. CASE k # 0
      <4>1. PICK j \in 0 .. n - 2 : j = k - 1 /\ j + 1 = k  BY <3>1, <3>3
      <4>2. j \in 0 .. n - 1 /\ d[k] = c[j] /\ c[j] \in Unclaimed  BY <1>2, <2>5, <4>1
      <4>3. firstWord'[c[j]] = firstWord[c[j]]
        <5>1. c[j] # b /\ c[j] \in 0 .. m_block_count - 1  BY <1>4, <4>2 DEF Unclaimed
        <5> QED  BY <1>4, <2>1, <5>1
      <4> QED  BY <1>3, <3>1, <4>1, <4>2, <4>3
    <3> QED  BY <3>2, <3>3
  <2>10. Threads(d)'
    <3>1. m_free_count' # 0 => m_free_ptr' = d[0]  BY <2>1, <2>5
    <3> QED  BY <2>1, <2>7, <2>8, <2>9, <3>1 DEF Threads
  <2> QED  BY <2>2, <2>6, <2>10 DEF MmInv, AllAreThreaded
<1>7. CASE ~InBounds(b)
  <2>1. /\ refused' = refused \cup {b}
        /\ UNCHANGED <<firstWord, m_free_ptr, m_free_count>>
    BY <1>7 DEF mem_free
  <2>2. Unclaimed' = Unclaimed
    BY <1>4, <1>5, <2>1 DEF Unclaimed
  <2>3. /\ taken' \subseteq 0 .. m_block_count - 1 /\ refused' \subseteq 0 .. m_block_count - 1
        /\ taken' \cap refused' = {}
    BY <1>4, <1>5, <2>1 DEF MmTypeOK
  <2>4. MmTypeOK'
    BY <1>4, <1>5, <2>1, <2>3 DEF MmTypeOK
  <2>5. Threads(c)'
    BY <1>2, <1>5, <2>1, <2>2 DEF Threads
  <2> QED  BY <1>1, <1>2, <2>1, <2>2, <2>4, <2>5 DEF MmInv, AllAreThreaded
<1> QED  BY <1>6, <1>7

\* Every operation of mm_pool.h preserves the types and the chain.
THEOREM MmInvariance == MmSpec => []MmInv
<1>1. MmInit => MmInv
  <2> SUFFICES ASSUME MmInit PROVE MmInv  OBVIOUS
  <2>1. MmTypeOK
    <3>1. ~inMemory /\ inMemory \in BOOLEAN /\ taken = {} /\ refused = {}
      BY DEF MmInit
    <3>2. /\ m_block_count \in 0 .. MaxBlocks /\ m_free_count \in Nat
          /\ m_free_ptr \in 0 .. MaxBlocks \cup {NoBlock}
      BY BlockAssumption DEF MmInit
    <3> QED  BY <3>1, <3>2 DEF MmTypeOK
  <2> QED  BY <2>1 DEF MmInit, MmInv
<1>2. MmInv /\ [MmNext]_mmVars => MmInv'
  <2> SUFFICES ASSUME MmInv, [MmNext]_mmVars PROVE MmInv'  OBVIOUS
  <2>1. ASSUME NEW n \in 1 .. MaxBlocks, mem_create(n) PROVE MmInv'
    BY <2>1, MmCreateKeeps
  <2>2. CASE mem_destory
    <3>1. MmTypeOK'  BY <2>2, BlockAssumption DEF mem_destory, MmInv, MmTypeOK
    <3> QED  BY <2>2, <3>1 DEF mem_destory, MmInv
  <2>3. CASE mem_alloc
    BY <2>3, MmAllocKeeps
  <2>4. ASSUME NEW b \in taken, FillBlock(b) PROVE MmInv'
    BY <2>4, MmFillKeeps
  <2>5. ASSUME NEW b \in taken, mem_free(b) PROVE MmInv'
    BY <2>5, MmFreeKeeps
  <2>6. CASE UNCHANGED mmVars
    BY <2>6 DEF mmVars, MmInv, MmTypeOK, AllAreThreaded, Threads, Unclaimed
  <2> QED  BY <2>1, <2>2, <2>3, <2>4, <2>5, <2>6 DEF MmNext
<1> QED  BY <1>1, <1>2, PTL DEF MmSpec

\* ReachedIn walks along the chain.
LEMMA ChainIsReached ==
    ASSUME MmTypeOK, NEW c \in [0 .. m_free_count - 1 -> Unclaimed], Threads(c),
           m_free_count <= MaxBlocks
    PROVE  \A k \in 0 .. m_free_count - 1 : ReachedIn(k) = c[k]
<1> DEFINE S == {k \in 0 .. m_free_count - 1 : ReachedIn(k) = c[k]}
<1>1. CASE m_free_count = 0
  BY <1>1
<1>2. CASE m_free_count # 0
  <2>1. m_free_count \in Nat /\ m_free_count - 1 \in Nat  BY <1>2 DEF MmTypeOK
  <2>2. 0 \in S  BY <1>2, <2>1, ReachedInSteps DEF Threads
  <2>3. ASSUME NEW k \in S, k < m_free_count - 1 PROVE k + 1 \in S
    <3>1. /\ k \in 0 .. m_free_count - 2 /\ k \in 0 .. MaxBlocks - 1
          /\ k + 1 \in 0 .. m_free_count - 1
      BY <2>1, <2>3, BlockAssumption
    <3>2. ReachedIn(k + 1) = firstWord[ReachedIn(k)]  BY <3>1, ReachedInSteps
    <3> QED  BY <3>1, <3>2 DEF Threads
  <2>4. S = 0 .. m_free_count - 1
    <3> HIDE DEF S
    <3>1. S \subseteq 0 .. m_free_count - 1  BY DEF S
    <3> QED  BY <2>1, <2>2, <2>3, <3>1, UpTo
  <2> QED  BY <2>4
<1> QED  BY <1>1, <1>2

\* The next m_free_count answers of mem_alloc are different blocks that nobody has, all of
\* those that mem_free did not refuse.
THEOREM MmChainIsFreeSafety == MmSpec => []MmChainIsFree
<1>1. MmInv => MmChainIsFree
  <2> SUFFICES ASSUME MmInv, inMemory
               PROVE  LET chain == {ReachedIn(n) : n \in 0 .. m_free_count - 1} IN
                      /\ Cardinality(chain) = m_free_count
                      /\ chain = (0 .. m_block_count - 1) \ (taken \cup refused)
                      /\ m_free_count = 0 => taken \cup refused = 0 .. m_block_count - 1
    BY DEF MmChainIsFree
  <2>1. PICK n \in Nat : n = m_free_count
    BY DEF MmInv, MmTypeOK
  <2>2. PICK c \in [0 .. n - 1 -> Unclaimed] : Threads(c)
    BY <2>1 DEF MmInv, AllAreThreaded
  <2>3. /\ \A b \in Unclaimed : \E k \in 0 .. n - 1 : c[k] = b
        /\ \A j, k \in 0 .. n - 1 : c[j] = c[k] => j = k
    BY <2>1, <2>2 DEF Threads
  <2>4. IsFiniteSet(0 .. n - 1) /\ Cardinality(0 .. n - 1) = n
    BY <2>1, FS_Interval
  <2>5. c \in Surjection(0 .. n - 1, Unclaimed) /\ c \in Injection(0 .. n - 1, Unclaimed)
    BY <2>2, <2>3 DEF Surjection, Injection, IsInjective
  <2>6. IsFiniteSet(Unclaimed) /\ Cardinality(Unclaimed) = n
    BY <2>4, <2>5, FS_Surjection
  <2>7. n <= MaxBlocks
    <3>1. m_block_count \in Nat /\ m_block_count <= MaxBlocks
      BY BlockAssumption DEF MmInv, MmTypeOK
    <3>2. IsFiniteSet(0 .. m_block_count - 1) /\ Cardinality(0 .. m_block_count - 1) = m_block_count
      <4>1. PICK m \in Nat : m = m_block_count  BY <3>1
      <4>2. IsFiniteSet(0 .. m - 1) /\ Cardinality(0 .. m - 1) = m  BY FS_Interval
      <4> QED  BY <4>1, <4>2
    <3>3. PICK S : S = 0 .. m_block_count - 1
      OBVIOUS
    <3>4. PICK T \in SUBSET S : T = Unclaimed
      BY <3>3 DEF Unclaimed
    <3>5. IsFiniteSet(S)
      BY <3>2, <3>3
    <3>6. Cardinality(T) <= Cardinality(S)
      BY <3>5, FS_Subset
    <3> QED  BY <2>1, <2>6, <3>1, <3>2, <3>3, <3>4, <3>6, BlockAssumption
  <2>8. \A k \in 0 .. n - 1 : ReachedIn(k) = c[k]
    BY <2>1, <2>2, <2>7, ChainIsReached DEF MmInv
  <2>9. {ReachedIn(k) : k \in 0 .. n - 1} = Unclaimed
    BY <2>2, <2>3, <2>8
  <2>10. n = 0 => Unclaimed = {}
    BY <2>3
  <2> QED  BY <2>1, <2>6, <2>9, <2>10 DEF Unclaimed, MmInv, MmTypeOK
<1> QED  BY <1>1, MmInvariance, PTL
-----------------------------------------------------------------------------
(***************************************************************************)
(* FifoList: the list is the queue, for any nodes.                         *)
(***************************************************************************)
FifoTypeOK ==
    /\ listHead \in Nodes \cup {nullptr} /\ tatil \in Nodes \cup {nullptr}
    /\ link \in [Nodes -> Nodes \cup {nullptr}]
    /\ popped \subseteq Nodes /\ line \in Seq(Nodes)

\* No node is in the list twice, and none is there that a caller has.
NodesAreOnce ==
    /\ \A i, j \in 1 .. Len(line) : line[i] = line[j] => i = j
    /\ \A i \in 1 .. Len(line) : line[i] \notin popped

FifoInv == FifoTypeOK /\ NodesAreOnce /\ FifoIsQueue

\* What the parts of the invariant say of an empty list and of one that is not.
LEMMA QueueFacts ==
    ASSUME FifoInv
    PROVE  /\ Len(line) \in Nat /\ \A i \in 1 .. Len(line) : line[i] \in Nodes
           /\ listHead = nullptr => line = <<>> /\ Len(line) = 0
           /\ listHead # nullptr => /\ Len(line) > 0 /\ listHead = line[1]
                                    /\ tatil = line[Len(line)] /\ link[tatil] = nullptr
                                    /\ tatil \in Nodes
           /\ \A i \in 1 .. Len(line) - 1 : link[line[i]] = line[i + 1]
<1>1. Len(line) \in Nat /\ \A i \in 1 .. Len(line) : line[i] \in Nodes
  BY DEF FifoInv, FifoTypeOK
<1>2. listHead = nullptr => line = <<>> /\ Len(line) = 0
  BY DEF FifoInv, FifoIsQueue, IsEmpty
<1>3. ASSUME listHead # nullptr
      PROVE  /\ Len(line) > 0 /\ listHead = line[1] /\ tatil = line[Len(line)]
             /\ link[tatil] = nullptr /\ tatil \in Nodes
             /\ \A i \in 1 .. Len(line) - 1 : link[line[i]] = line[i + 1]
  <2>1. line # <<>> /\ line \in Seq(Nodes)  BY <1>3 DEF FifoInv, FifoIsQueue, IsEmpty, FifoTypeOK
  <2>2. Len(line) > 0  BY <2>1
  <2>3. /\ listHead = line[1] /\ tatil = line[Len(line)] /\ link[tatil] = nullptr
        /\ \A i \in 1 .. Len(line) - 1 : link[line[i]] = line[i + 1]
    BY <1>3 DEF FifoInv, FifoIsQueue, IsEmpty, Last
  <2> QED  BY <1>1, <2>2, <2>3
<1> QED  BY <1>1, <1>2, <1>3

\* push_back writes through tatil only while the list has nodes.
LEMMA PushKeeps ==
    ASSUME FifoInv, NEW n \in Nodes, PushBack(n)
    PROVE  FifoInv'
<1> DEFINE length == Len(line)
<1>1. /\ length \in Nat /\ FifoTypeOK /\ NodesAreOnce /\ n # nullptr
      /\ \A i \in 1 .. length : line[i] \in Nodes
      /\ \A i \in 1 .. length - 1 : link[line[i]] = line[i + 1]
  BY QueueFacts, NodeAssumption DEF FifoInv
<1>2. n \notin popped /\ \A i \in 1 .. length : line[i] # n
  BY <1>1 DEF PushBack, Allocated, ToSet, FifoTypeOK
<1>3. /\ tatil' = n /\ popped' = popped /\ line' = Append(line, n)
      /\ listHead' = IF listHead = nullptr THEN n ELSE listHead
      /\ listHead = nullptr => link' = [link EXCEPT ![n] = nullptr]
      /\ listHead # nullptr => link' = [link EXCEPT ![n] = nullptr, ![tatil] = n]
  BY DEF PushBack
<1>4. /\ line' \in Seq(Nodes) /\ Len(line') = length + 1 /\ line' # <<>>
      /\ \A i \in 1 .. length : line'[i] = line[i]
      /\ line'[length + 1] = n
  BY <1>1, <1>3 DEF FifoTypeOK
<1> HIDE DEF length
<1>5. FifoTypeOK'
  BY <1>1, <1>3, <1>4 DEF FifoTypeOK
<1>6. NodesAreOnce'
  BY <1>1, <1>2, <1>3, <1>4 DEF NodesAreOnce, length
<1>7. CASE listHead = nullptr
  <2>1. length = 0 /\ link'[n] = nullptr  BY <1>1, <1>3, <1>7, QueueFacts DEF length, FifoTypeOK
  <2>2. Last(line') = n /\ line'[1] = n  BY <1>4, <2>1 DEF Last
  <2>3. FifoIsQueue'  BY <1>1, <1>3, <1>4, <1>7, <2>1, <2>2 DEF FifoIsQueue, IsEmpty
  <2> QED  BY <1>5, <1>6, <2>3 DEF FifoInv
<1>8. CASE listHead # nullptr
  <2>1. length > 0 /\ tatil = line[length] /\ tatil \in Nodes /\ listHead = line[1]
    BY <1>8, QueueFacts DEF length
  <2>2. tatil # n /\ link'[n] = nullptr /\ link'[tatil] = n
        /\ \A m \in Nodes : m # n /\ m # tatil => link'[m] = link[m]
    BY <1>1, <1>2, <1>3, <1>8, <2>1 DEF FifoTypeOK
  <2>3. Last(line') = n /\ line'[1] = line[1]  BY <1>1, <1>4, <2>1 DEF Last
  <2>4. \A i \in 1 .. length : link'[line'[i]] = line'[i + 1]
    <3> TAKE i \in 1 .. length
    <3>1. CASE i = length  BY <1>4, <2>1, <2>2, <3>1
    <3>2. CASE i # length
      <4>1. i \in 1 .. length - 1 /\ i + 1 \in 1 .. length /\ length \in 1 .. length  BY <1>1, <2>1, <3>2
      <4>2. line[i] # tatil /\ line[i] # n /\ line[i] \in Nodes
        BY <1>1, <1>2, <2>1, <3>2, <4>1 DEF NodesAreOnce, length
      <4>3. link'[line[i]] = line[i + 1]  BY <1>1, <2>2, <4>1, <4>2
      <4> QED  BY <1>4, <4>1, <4>3
    <3> QED  BY <3>1, <3>2
  <2>5. 1 .. Len(line') - 1 = 1 .. length  BY <1>1, <1>4
  <2>6. FifoIsQueue'
    BY <1>3, <1>4, <1>8, <2>1, <2>2, <2>3, <2>4, <2>5 DEF FifoIsQueue, IsEmpty
  <2> QED  BY <1>5, <1>6, <2>6 DEF FifoInv
<1> QED  BY <1>7, <1>8

\* pop_front leaves tatil alone, also when it hands out the last node.
LEMMA PopKeeps ==
    ASSUME FifoInv, PopFront
    PROVE  FifoInv'
<1> DEFINE length == Len(line)
<1>1. /\ length \in Nat /\ length > 0 /\ FifoTypeOK /\ NodesAreOnce
      /\ \A i \in 1 .. length : line[i] \in Nodes
      /\ \A i \in 1 .. length - 1 : link[line[i]] = line[i + 1]
      /\ listHead = line[1] /\ tatil = line[length] /\ link[tatil] = nullptr
  BY QueueFacts DEF FifoInv, PopFront
<1>2. /\ listHead' = link[listHead] /\ popped' = popped \cup {listHead}
      /\ line' = Tail(line) /\ tatil' = tatil /\ link' = link
  BY DEF PopFront
<1>3. /\ line' \in Seq(Nodes) /\ Len(line') = length - 1
      /\ \A i \in 1 .. length - 1 : line'[i] = line[i + 1]
  <2>1. line \in Seq(Nodes) /\ line # <<>>  BY <1>1 DEF FifoTypeOK
  <2>2. line' \in Seq(Nodes) /\ Len(line') = length - 1  BY <1>2, <2>1
  <2>3. \A i \in 1 .. length - 1 : line'[i] = line[i + 1]  BY <1>2, <2>1
  <2> QED  BY <2>2, <2>3
<1> HIDE DEF length
<1>4. listHead \in Nodes /\ 1 \in 1 .. length  BY <1>1
<1>5. FifoTypeOK'
  BY <1>1, <1>2, <1>3, <1>4 DEF FifoTypeOK
<1>6. NodesAreOnce'
  <2>1. \A i \in 1 .. length - 1 : i + 1 \in 1 .. length /\ i + 1 # 1  BY <1>1
  <2>2. \A i \in 1 .. length - 1 : line[i + 1] \notin popped /\ line[i + 1] # listHead
    BY <1>1, <1>4, <2>1 DEF NodesAreOnce, length
  <2>3. \A i, j \in 1 .. length - 1 : line[i + 1] = line[j + 1] => i = j
    <3> TAKE i, j \in 1 .. length - 1
    <3>1. line[i + 1] = line[j + 1] => i + 1 = j + 1  BY <1>1, <2>1 DEF NodesAreOnce, length
    <3> QED  BY <1>1, <3>1
  <2> QED  BY <1>1, <1>2, <1>3, <2>2, <2>3 DEF NodesAreOnce
<1>7. FifoIsQueue'
  <2>1. CASE length = 1
    <3>1. line' = <<>>  BY <1>3, <2>1
    <3>2. listHead' = nullptr  BY <1>1, <1>2, <2>1
    <3> QED  BY <3>1, <3>2 DEF FifoIsQueue, IsEmpty
  <2>2. CASE length # 1
    <3>1. /\ 1 \in 1 .. length - 1 /\ length - 1 \in 1 .. length - 1
          /\ (length - 1) + 1 = length /\ 2 \in 1 .. length
      BY <1>1, <2>2
    <3>2. listHead' = line'[1] /\ listHead' \in Nodes  BY <1>1, <1>2, <1>3, <3>1
    <3>3. Last(line') = tatil  BY <1>1, <1>3, <3>1 DEF Last
    <3>4. \A i \in 1 .. Len(line') - 1 : link[line'[i]] = line'[i + 1]
      <4> TAKE i \in 1 .. Len(line') - 1
      <4>1. i \in 1 .. length - 1 /\ i + 1 \in 1 .. length - 1 /\ (i + 1) + 1 \in 1 .. length
        BY <1>1, <1>3
      <4> QED  BY <1>1, <1>3, <4>1
    <3>5. listHead' # nullptr /\ line' # <<>>  BY <1>1, <1>3, <2>2, <3>2, NodeAssumption
    <3> QED  BY <1>1, <1>2, <3>2, <3>3, <3>4, <3>5 DEF FifoIsQueue, IsEmpty
  <2> QED  BY <2>1, <2>2
<1> QED  BY <1>5, <1>6, <1>7 DEF FifoInv

\* What the memory of a freed node holds does not matter to the list.
LEMMA FreeNodeKeeps ==
    ASSUME FifoInv, NEW n \in Nodes, FreeNode(n)
    PROVE  FifoInv'
<1>1. PICK v \in Nodes \cup {nullptr} : link' = [link EXCEPT ![n] = v]
  BY DEF FreeNode
<1>2. /\ n \in popped /\ popped' = popped \ {n}
      /\ UNCHANGED <<listHead, tatil, line>>
  BY DEF FreeNode
<1>3. FifoTypeOK' /\ NodesAreOnce'
  BY <1>1, <1>2 DEF FifoInv, FifoTypeOK, NodesAreOnce
<1>4. \A i \in 1 .. Len(line) : line[i] \in Nodes /\ line[i] # n
  BY <1>2, QueueFacts DEF FifoInv, NodesAreOnce
<1>5. \A m \in Nodes : m # n => link'[m] = link[m]
  BY <1>1 DEF FifoInv, FifoTypeOK
<1>6. \A i \in 1 .. Len(line) - 1 : link'[line[i]] = line[i + 1]
  <2> TAKE i \in 1 .. Len(line) - 1
  <2>1. i \in 1 .. Len(line)  BY QueueFacts
  <2> QED  BY <1>4, <1>5, <2>1, QueueFacts
<1>7. ~IsEmpty => link'[tatil] = nullptr
  <2> SUFFICES ASSUME ~IsEmpty PROVE link'[tatil] = nullptr  OBVIOUS
  <2>1. Len(line) \in 1 .. Len(line) /\ tatil = line[Len(line)] /\ link[tatil] = nullptr
    BY QueueFacts DEF IsEmpty
  <2> QED  BY <1>4, <1>5, <2>1
<1>8. FifoIsQueue'
  BY <1>2, <1>6, <1>7 DEF FifoInv, FifoIsQueue, IsEmpty
<1> QED  BY <1>3, <1>8 DEF FifoInv

\* Every operation of the list preserves the invariant.
THEOREM FifoInvariance == FifoSpec => []FifoInv
<1>1. FifoInit => FifoInv
  BY DEF FifoInit, FifoInv, FifoTypeOK, NodesAreOnce, FifoIsQueue, IsEmpty
<1>2. FifoInv /\ [FifoNext]_fifoVars => FifoInv'
  <2> SUFFICES ASSUME FifoInv, [FifoNext]_fifoVars PROVE FifoInv'  OBVIOUS
  <2>1. ASSUME NEW n \in Nodes, PushBack(n) PROVE FifoInv'  BY <2>1, PushKeeps
  <2>2. ASSUME NEW n \in Nodes, FreeNode(n) PROVE FifoInv'  BY <2>2, FreeNodeKeeps
  <2>3. CASE PopFront  BY <2>3, PopKeeps
  <2>4. CASE ClearList
    BY <2>4 DEF ClearList, FifoInv, FifoTypeOK, NodesAreOnce, FifoIsQueue, IsEmpty
  <2>5. CASE UNCHANGED fifoVars
    BY <2>5 DEF fifoVars, FifoInv, FifoTypeOK, NodesAreOnce, FifoIsQueue, IsEmpty
  <2> QED  BY <2>1, <2>2, <2>3, <2>4, <2>5 DEF FifoNext
<1> QED  BY <1>1, <1>2, PTL DEF FifoSpec

\* The list is the queue of what was pushed, and tatil is its last node whenever
\* push_back writes through it.
THEOREM FifoIsQueueSafety == FifoSpec => []FifoIsQueue
BY FifoInvariance, PTL DEF FifoInv
-----------------------------------------------------------------------------
(***************************************************************************)
(* FbarrayFile: an array in use is not cleared, for any processes and      *)
(* files.                                                                  *)
(***************************************************************************)
Steps == {"idle", "init_lock", "unlock", "share", "init_map", "clear", "attach_lock", "attach_map",
          "destroy_open", "destroy_lock", "unlink"}

FfTypeOK ==
    /\ name \in Files \cup {NoFile}
    /\ file \in [Procs -> Files \cup {NoFile}]
    /\ lock \in [Procs -> {"none", "shared", "exclusive"}]
    /\ mapped \subseteq Procs /\ step \in [Procs -> Steps]
    /\ before \in [Procs -> SUBSET Procs]

\* The lock of a process is that of the step it is at, and so is the file.
LockFitsStep ==
    \A p \in Procs :
        /\ step[p] \in {"unlock", "unlink"} => lock[p] = "exclusive"
        /\ step[p] \in {"init_map", "attach_map", "clear"} => lock[p] = "shared"
        /\ step[p] \in {"init_lock", "share", "attach_lock", "destroy_open", "destroy_lock"}
               => lock[p] = "none"
        /\ step[p] = "clear" => p \in mapped
        /\ p \in mapped => step[p] \in {"idle", "clear"} /\ lock[p] = "shared"
        /\ step[p] = "idle" /\ p \notin mapped => lock[p] = "none"
        /\ step[p] \notin {"idle", "destroy_open"} => file[p] # NoFile
        /\ lock[p] # "none" => file[p] # NoFile

\* An exclusive lock excludes all others.
LocksExclude ==
    \A p, q \in Procs : p # q /\ file[p] = file[q] /\ lock[p] = "exclusive" => lock[q] = "none"

\* Who had the array in use before has it still, but another file than the one that an
\* exclusive lock was obtained for.
OthersKeepTheirs ==
    \A p \in Procs : \A q \in before[p] :
        /\ q \in mapped
        /\ step[p] \in {"unlock", "share", "init_map", "clear"} => file[q] # file[p]

\* What is locked has the name, until that comes too late.
LockedIsNamed == ~late => \A p \in Procs : lock[p] # "none" => file[p] = name

FfInv == FfTypeOK /\ LockFitsStep /\ LocksExclude /\ OthersKeepTheirs /\ LockedIsNamed /\ erased = {}

\* A call to flock, that of a process which has no lock and goes on with the one it asked for.
LEMMA FlockKeeps ==
    ASSUME FfInv, NEW p \in Procs, NEW mode \in {"shared", "exclusive"}, NEW goal \in Steps,
           \/ step[p] = "init_lock" /\ mode = "exclusive" /\ goal = "unlock"
           \/ step[p] = "share" /\ mode = "shared" /\ goal = "init_map"
           \/ step[p] = "attach_lock" /\ mode = "shared" /\ goal = "attach_map"
           \/ step[p] = "destroy_lock" /\ mode = "exclusive" /\ goal = "unlink",
           Flock(p, mode, goal)
    PROVE  FfInv'
<1>1. /\ FfTypeOK /\ LockFitsStep /\ LocksExclude /\ OthersKeepTheirs /\ LockedIsNamed /\ erased = {}
      /\ lock[p] = "none" /\ p \notin mapped /\ file[p] # NoFile
      /\ UNCHANGED <<name, mapped, known, before, erased>>
  BY DEF FfInv, LockFitsStep, Flock
<1>2. CASE /\ ~Refused(p, mode) /\ lock' = [lock EXCEPT ![p] = mode]
           /\ late' = (late \/ file[p] # name)
           /\ Goto(p, goal) /\ UNCHANGED file
  <2>1. \A q \in Procs : /\ lock'[q] = IF q = p THEN mode ELSE lock[q]
                         /\ step'[q] = IF q = p THEN goal ELSE step[q]
    BY <1>1, <1>2 DEF FfTypeOK, Goto
  <2>2. FfTypeOK'
    BY <1>1, <1>2 DEF FfTypeOK, Goto
  <2>3. LockFitsStep'
    BY <1>1, <1>2, <2>1 DEF LockFitsStep
  <2>4. LocksExclude'
    BY <1>1, <1>2, <2>1 DEF LocksExclude, Refused, FfTypeOK
  <2>5. OthersKeepTheirs'
    <3>1. \A q \in before[p] : q \in Procs /\ q \in mapped /\ q # p /\ lock[q] = "shared"
      BY <1>1 DEF OthersKeepTheirs, LockFitsStep, FfTypeOK
    <3>2. step[p] = "init_lock" => \A q \in before[p] : file[q] # file[p]
      BY <1>2, <3>1 DEF Refused
    <3> QED  BY <1>1, <1>2, <2>1, <3>2 DEF OthersKeepTheirs
  <2>6. LockedIsNamed'
    BY <1>1, <1>2, <2>1 DEF LockedIsNamed
  <2> QED  BY <1>1, <2>2, <2>3, <2>4, <2>5, <2>6 DEF FfInv
<1>3. CASE Refused(p, mode) /\ Close(p) /\ Goto(p, "idle") /\ UNCHANGED late
  <2>1. \A q \in Procs : /\ lock'[q] = IF q = p THEN "none" ELSE lock[q]
                         /\ file'[q] = IF q = p THEN NoFile ELSE file[q]
                         /\ step'[q] = IF q = p THEN "idle" ELSE step[q]
    BY <1>1, <1>3 DEF FfTypeOK, Goto, Close
  <2>2. FfTypeOK'
    BY <1>1, <1>3 DEF FfTypeOK, Goto, Close, Steps
  <2>3. LockFitsStep' /\ LocksExclude'
    BY <1>1, <2>1 DEF LockFitsStep, LocksExclude
  <2>4. OthersKeepTheirs' /\ LockedIsNamed'
    BY <1>1, <1>3, <2>1 DEF OthersKeepTheirs, LockedIsNamed, FfTypeOK
  <2> QED  BY <1>1, <2>2, <2>3, <2>4 DEF FfInv
<1> QED  BY <1>2, <1>3 DEF Flock


\* The step of a call that maps the array, under the shared lock.
LEMMA ResizeAndMapKeeps ==
    ASSUME FfInv, NEW p \in Procs, NEW goal \in {"clear", "idle"},
           step[p] = IF goal = "clear" THEN "init_map" ELSE "attach_map",
           resize_and_map(p, goal)
    PROVE  FfInv'
<1>1. /\ FfTypeOK /\ LockFitsStep /\ LocksExclude /\ OthersKeepTheirs /\ LockedIsNamed /\ erased = {}
      /\ lock[p] = "shared" /\ p \notin mapped /\ file[p] # NoFile
      /\ UNCHANGED <<name, known, before, erased, late>>
  BY DEF FfInv, LockFitsStep, resize_and_map
<1>2. CASE mapped' = mapped \cup {p} /\ Goto(p, goal) /\ UNCHANGED <<file, lock>>
  <2>1. \A q \in Procs : step'[q] = IF q = p THEN goal ELSE step[q]
    BY <1>1, <1>2 DEF FfTypeOK, Goto
  <2>2. FfTypeOK'
    BY <1>1, <1>2 DEF FfTypeOK, Goto, Steps
  <2>3. LockFitsStep' /\ LocksExclude'
    BY <1>1, <1>2, <2>1 DEF LockFitsStep, LocksExclude
  <2>4. OthersKeepTheirs' /\ LockedIsNamed'
    BY <1>1, <1>2, <2>1 DEF OthersKeepTheirs, LockedIsNamed
  <2> QED  BY <1>1, <2>2, <2>3, <2>4 DEF FfInv
<1>3. CASE Close(p) /\ Goto(p, "idle") /\ UNCHANGED mapped
  <2>1. \A q \in Procs : /\ lock'[q] = IF q = p THEN "none" ELSE lock[q]
                         /\ file'[q] = IF q = p THEN NoFile ELSE file[q]
                         /\ step'[q] = IF q = p THEN "idle" ELSE step[q]
    BY <1>1, <1>3 DEF FfTypeOK, Goto, Close
  <2>2. FfTypeOK'
    BY <1>1, <1>3 DEF FfTypeOK, Goto, Close, Steps
  <2>3. LockFitsStep' /\ LocksExclude'
    BY <1>1, <1>3, <2>1 DEF LockFitsStep, LocksExclude
  <2>4. OthersKeepTheirs' /\ LockedIsNamed'
    BY <1>1, <1>3, <2>1 DEF OthersKeepTheirs, LockedIsNamed, FfTypeOK
  <2> QED  BY <1>1, <2>2, <2>3, <2>4 DEF FfInv
<1> QED  BY <1>2, <1>3 DEF resize_and_map

\* The steps of rte_fbarray_init outside flock and the mapping.
LEMMA InitKeeps ==
    ASSUME FfInv, NEW p \in Procs, rte_fbarray_init_file(p) \/ Unlock(p) \/ InitData(p)
    PROVE  FfInv'
<1>1. FfTypeOK /\ LockFitsStep /\ LocksExclude /\ OthersKeepTheirs /\ LockedIsNamed /\ erased = {}
  BY DEF FfInv
<1>2. CASE rte_fbarray_init_file(p)
  <2>1. PICK f \in Files : /\ IF name = NoFile THEN \A q \in Procs : file[q] # f ELSE f = name
                           /\ name' = f /\ file' = [file EXCEPT ![p] = f]
    BY <1>2 DEF rte_fbarray_init_file
  <2>2. /\ step[p] = "idle" /\ p \notin mapped /\ lock[p] = "none"
        /\ before' = [before EXCEPT ![p] = {q \in mapped : step[q] = "idle"}]
        /\ step' = [step EXCEPT ![p] = "init_lock"]
        /\ UNCHANGED <<lock, mapped, known, erased, late>>
    BY <1>1, <1>2 DEF rte_fbarray_init_file, Goto, LockFitsStep
  <2>3. \A q \in Procs : /\ file'[q] = IF q = p THEN f ELSE file[q]
                         /\ step'[q] = IF q = p THEN "init_lock" ELSE step[q]
    BY <1>1, <2>1, <2>2 DEF FfTypeOK
  <2>4. \A q \in Procs : before'[q] = IF q = p THEN {r \in mapped : step[r] = "idle"} ELSE before[q]
    BY <1>1, <2>2 DEF FfTypeOK
  <2>5. FfTypeOK'
    <3>1. step' \in [Procs -> Steps] /\ file' \in [Procs -> Files \cup {NoFile}]
      BY <1>1, <2>1, <2>2 DEF FfTypeOK, Steps
    <3>2. before' \in [Procs -> SUBSET Procs]
      BY <1>1, <2>2 DEF FfTypeOK
    <3> QED  BY <1>1, <2>1, <2>2, <3>1, <3>2 DEF FfTypeOK
  <2>6. LockFitsStep' /\ LocksExclude'
    BY <1>1, <2>2, <2>3, FileAssumption DEF LockFitsStep, LocksExclude
  <2>7. OthersKeepTheirs'
    <3> SUFFICES ASSUME NEW r \in Procs, NEW q \in before'[r]
                 PROVE  /\ q \in mapped'
                        /\ step'[r] \in {"unlock", "share", "init_map", "clear"} => file'[q] # file'[r]
      BY DEF OthersKeepTheirs
    <3>1. CASE r = p
      <4>1. before'[r] = {t \in mapped : step[t] = "idle"}  BY <2>4, <3>1
      <4>2. q \in mapped'  BY <2>2, <4>1
      <4>3. step'[r] = "init_lock"  BY <2>3, <3>1
      <4> QED  BY <4>2, <4>3
    <3>2. CASE r # p
      <4>1. q \in before[r] /\ q \in mapped /\ q \in Procs /\ q # p
        BY <1>1, <2>2, <2>4, <3>2 DEF OthersKeepTheirs, FfTypeOK
      <4> QED  BY <1>1, <2>2, <2>3, <3>2, <4>1 DEF OthersKeepTheirs
    <3> QED  BY <3>1, <3>2
  <2>8. LockedIsNamed'
    <3>1. ASSUME ~late, NEW q \in Procs, lock[q] # "none" PROVE q # p /\ file[q] = name /\ name # NoFile
      BY <1>1, <2>2, <3>1 DEF LockedIsNamed, LockFitsStep
    <3> QED  BY <2>1, <2>2, <2>3, <3>1 DEF LockedIsNamed
  <2> QED  BY <1>1, <2>2, <2>5, <2>6, <2>7, <2>8 DEF FfInv
<1>3. CASE Unlock(p)
  <2>1. /\ step[p] = "unlock" /\ p \notin mapped /\ file[p] # NoFile
        /\ lock' = [lock EXCEPT ![p] = "none"] /\ step' = [step EXCEPT ![p] = "share"]
        /\ UNCHANGED <<name, file, mapped, known, before, erased, late>>
    BY <1>1, <1>3 DEF Unlock, Goto, LockFitsStep
  <2>2. \A q \in Procs : /\ lock'[q] = IF q = p THEN "none" ELSE lock[q]
                         /\ step'[q] = IF q = p THEN "share" ELSE step[q]
    BY <1>1, <2>1 DEF FfTypeOK
  <2>3. FfTypeOK'
    BY <1>1, <2>1 DEF FfTypeOK, Steps
  <2>4. LockFitsStep' /\ LocksExclude'
    BY <1>1, <2>1, <2>2 DEF LockFitsStep, LocksExclude
  <2>5. OthersKeepTheirs' /\ LockedIsNamed'
    BY <1>1, <2>1, <2>2 DEF OthersKeepTheirs, LockedIsNamed
  <2> QED  BY <1>1, <2>1, <2>3, <2>4, <2>5 DEF FfInv
<1>4. CASE InitData(p)
  <2>1. /\ step[p] = "clear" /\ p \in mapped /\ lock[p] = "shared"
        /\ erased' = erased \cup {q \in before[p] : file[q] = file[p]}
        /\ step' = [step EXCEPT ![p] = "idle"]
        /\ UNCHANGED <<name, file, lock, mapped, before, late>>
    BY <1>1, <1>4 DEF InitData, Goto, LockFitsStep
  <2>2. erased' = {}
    BY <1>1, <2>1 DEF OthersKeepTheirs
  <2>3. \A q \in Procs : step'[q] = IF q = p THEN "idle" ELSE step[q]
    BY <1>1, <2>1 DEF FfTypeOK
  <2>4. FfTypeOK'
    BY <1>1, <2>1 DEF FfTypeOK, Steps
  <2>5. LockFitsStep' /\ LocksExclude'
    BY <1>1, <2>1, <2>3 DEF LockFitsStep, LocksExclude
  <2>6. OthersKeepTheirs' /\ LockedIsNamed'
    BY <1>1, <2>1, <2>3 DEF OthersKeepTheirs, LockedIsNamed
  <2> QED  BY <2>2, <2>4, <2>5, <2>6 DEF FfInv
<1> QED  BY <1>2, <1>3, <1>4

\* A process that has no lock opens the file of the name (attach and destroy).
LEMMA OpenKeeps ==
    ASSUME FfInv, NEW p \in Procs, NEW goal \in {"attach_lock", "destroy_lock", "idle"},
           lock[p] = "none", p \notin mapped, goal # "idle" => name # NoFile,
           file' = [file EXCEPT ![p] = name], step' = [step EXCEPT ![p] = goal],
           UNCHANGED <<name, lock, mapped, before, erased, late>>
    PROVE  FfInv'
<1>1. FfTypeOK /\ LockFitsStep /\ LocksExclude /\ OthersKeepTheirs /\ LockedIsNamed /\ erased = {}
  BY DEF FfInv
<1>2. \A q \in Procs : /\ file'[q] = IF q = p THEN name ELSE file[q]
                       /\ step'[q] = IF q = p THEN goal ELSE step[q]
  BY <1>1 DEF FfTypeOK
<1>3. FfTypeOK'
  BY <1>1 DEF FfTypeOK, Steps
<1>4. LockFitsStep' /\ LocksExclude'
  BY <1>1, <1>2 DEF LockFitsStep, LocksExclude
<1>5. OthersKeepTheirs'
  <2> SUFFICES ASSUME NEW r \in Procs, NEW q \in before[r]
               PROVE  /\ q \in mapped
                      /\ step'[r] \in {"unlock", "share", "init_map", "clear"} => file'[q] # file'[r]
    BY DEF OthersKeepTheirs
  <2>1. q \in mapped /\ q \in Procs /\ q # p
    BY <1>1 DEF OthersKeepTheirs, FfTypeOK
  <2> QED  BY <1>1, <1>2, <2>1 DEF OthersKeepTheirs
<1>6. LockedIsNamed'
  BY <1>1, <1>2 DEF LockedIsNamed
<1> QED  BY <1>1, <1>3, <1>4, <1>5, <1>6 DEF FfInv

\* A process gives its array up (detach and destroy).
LEMMA UnmapKeeps ==
    ASSUME FfInv, NEW p \in Procs, NEW goal \in {"idle", "destroy_open"}, step[p] = "idle",
           Unmap(p), step' = [step EXCEPT ![p] = goal], UNCHANGED <<name, late>>
    PROVE  FfInv'
<1>1. FfTypeOK /\ LockFitsStep /\ LocksExclude /\ OthersKeepTheirs /\ LockedIsNamed /\ erased = {}
  BY DEF FfInv
<1>2. /\ mapped' = mapped \ {p} /\ erased' = {}
      /\ \A q \in Procs : /\ lock'[q] = IF q = p THEN "none" ELSE lock[q]
                          /\ file'[q] = IF q = p THEN NoFile ELSE file[q]
                          /\ step'[q] = IF q = p THEN goal ELSE step[q]
                          /\ before'[q] = before[q] \ {p}
  BY <1>1 DEF Unmap, Close, FfTypeOK
<1>3. FfTypeOK'
  BY <1>1 DEF FfTypeOK, Unmap, Close, Steps
<1>4. LockFitsStep' /\ LocksExclude'
  BY <1>1, <1>2 DEF LockFitsStep, LocksExclude
<1>5. OthersKeepTheirs'
  <2> SUFFICES ASSUME NEW r \in Procs, NEW q \in before'[r]
               PROVE  /\ q \in mapped'
                      /\ step'[r] \in {"unlock", "share", "init_map", "clear"} => file'[q] # file'[r]
    BY DEF OthersKeepTheirs
  <2>1. q \in before[r] /\ q \in mapped /\ q \in Procs /\ q # p
    BY <1>1, <1>2 DEF OthersKeepTheirs, FfTypeOK
  <2> QED  BY <1>1, <1>2, <2>1 DEF OthersKeepTheirs
<1>6. LockedIsNamed'
  BY <1>1, <1>2 DEF LockedIsNamed
<1> QED  BY <1>2, <1>3, <1>4, <1>5, <1>6 DEF FfInv

\* rte_fbarray_destroy unlinks the name under the exclusive lock.
LEMMA UnlinkKeeps ==
    ASSUME FfInv, NEW p \in Procs, DestroyUnlink(p)
    PROVE  FfInv'
<1>1. /\ FfTypeOK /\ LockFitsStep /\ LocksExclude /\ OthersKeepTheirs /\ LockedIsNamed /\ erased = {}
      /\ step[p] = "unlink" /\ lock[p] = "exclusive" /\ p \notin mapped
  BY DEF FfInv, DestroyUnlink, LockFitsStep
<1>2. /\ name' = NoFile /\ UNCHANGED <<mapped, before, erased, late>>
      /\ \A q \in Procs : /\ lock'[q] = IF q = p THEN "none" ELSE lock[q]
                          /\ file'[q] = IF q = p THEN NoFile ELSE file[q]
                          /\ step'[q] = IF q = p THEN "idle" ELSE step[q]
  BY <1>1 DEF DestroyUnlink, Close, Goto, FfTypeOK
<1>3. FfTypeOK'
  BY <1>1 DEF FfTypeOK, DestroyUnlink, Close, Goto, Steps
<1>4. LockFitsStep' /\ LocksExclude'
  BY <1>1, <1>2 DEF LockFitsStep, LocksExclude
<1>5. OthersKeepTheirs'
  <2> SUFFICES ASSUME NEW r \in Procs, NEW q \in before[r]
               PROVE  /\ q \in mapped
                      /\ step'[r] \in {"unlock", "share", "init_map", "clear"} => file'[q] # file'[r]
    BY <1>2 DEF OthersKeepTheirs
  <2>1. q \in mapped /\ q \in Procs /\ q # p
    BY <1>1 DEF OthersKeepTheirs, FfTypeOK
  <2> QED  BY <1>1, <1>2, <2>1 DEF OthersKeepTheirs
<1>6. LockedIsNamed'
  BY <1>1, <1>2 DEF LockedIsNamed, LocksExclude
<1> QED  BY <1>1, <1>2, <1>3, <1>4, <1>5, <1>6 DEF FfInv

\* Every step of rte_fbarray_init, _attach, _detach and _destroy preserves the locks.
THEOREM FfInvariance == FfSpec => []FfInv
<1>1. FfInit => FfInv
  BY FileAssumption DEF FfInit, FfInv, FfTypeOK, Steps, LockFitsStep, LocksExclude, OthersKeepTheirs,
                          LockedIsNamed
<1>2. FfInv /\ [FfNext]_ffVars => FfInv'
  <2> SUFFICES ASSUME FfInv, [FfNext]_ffVars PROVE FfInv'  OBVIOUS
  <2>1. CASE UNCHANGED ffVars
    BY <2>1 DEF ffVars, FfInv, FfTypeOK, LockFitsStep, LocksExclude, OthersKeepTheirs, LockedIsNamed
  <2>2. ASSUME NEW p \in Procs, rte_fbarray_init_file(p) \/ Unlock(p) \/ InitData(p) PROVE FfInv'
    BY <2>2, InitKeeps
  <2>3. ASSUME NEW p \in Procs, InitLock(p) \/ Share(p) \/ AttachLock(p) \/ DestroyLock(p) PROVE FfInv'
    <3>1. CASE InitLock(p)     BY <3>1, FlockKeeps DEF InitLock, Steps
    <3>2. CASE Share(p)        BY <3>2, FlockKeeps DEF Share, Steps
    <3>3. CASE AttachLock(p)   BY <3>3, FlockKeeps DEF AttachLock, Steps
    <3>4. CASE DestroyLock(p)  BY <3>4, FlockKeeps DEF DestroyLock, Steps
    <3> QED  BY <2>3, <3>1, <3>2, <3>3, <3>4
  <2>4. ASSUME NEW p \in Procs, InitMap(p) \/ AttachMap(p) PROVE FfInv'
    <3>1. CASE InitMap(p)    BY <3>1, ResizeAndMapKeeps DEF InitMap
    <3>2. CASE AttachMap(p)  BY <3>2, ResizeAndMapKeeps DEF AttachMap
    <3> QED  BY <2>4, <3>1, <3>2
  <2>5. ASSUME NEW p \in Procs, rte_fbarray_attach(p) PROVE FfInv'
    <3>1. lock[p] = "none"  BY <2>5 DEF FfInv, LockFitsStep, rte_fbarray_attach
    <3> QED  BY <2>5, <3>1, OpenKeeps DEF rte_fbarray_attach, Goto
  <2>6. ASSUME NEW p \in Procs, DestroyOpen(p) PROVE FfInv'
    <3>1. lock[p] = "none" /\ p \notin mapped  BY <2>6 DEF FfInv, LockFitsStep, DestroyOpen
    <3>2. CASE name = NoFile  BY <2>6, <3>1, <3>2, OpenKeeps DEF DestroyOpen, Goto
    <3>3. CASE name # NoFile  BY <2>6, <3>1, <3>3, OpenKeeps DEF DestroyOpen, Goto
    <3> QED  BY <3>2, <3>3
  <2>7. ASSUME NEW p \in Procs, rte_fbarray_detach(p) PROVE FfInv'
    <3>1. step' = [step EXCEPT ![p] = "idle"]
      BY <2>7 DEF rte_fbarray_detach, FfInv, FfTypeOK
    <3> QED  BY <2>7, <3>1, UnmapKeeps DEF rte_fbarray_detach
  <2>8. ASSUME NEW p \in Procs, rte_fbarray_destroy(p) PROVE FfInv'
    BY <2>8, UnmapKeeps DEF rte_fbarray_destroy, Goto
  <2>9. ASSUME NEW p \in Procs, DestroyUnlink(p) PROVE FfInv'
    BY <2>9, UnlinkKeeps
  <2> QED  BY <2>1, <2>2, <2>3, <2>4, <2>5, <2>6, <2>7, <2>8, <2>9 DEF FfNext
<1> QED  BY <1>1, <1>2, PTL DEF FfSpec

\* No array in use is cleared by a later rte_fbarray_init, and all users share the file
\* that has the name until one has locked a file without it.
THEOREM ArraysAreKeptSafety == FfSpec => []ArraysAreKept
<1>1. FfInv => ArraysAreKept
  BY DEF FfInv, LockFitsStep, LockedIsNamed, ArraysAreKept, FfTypeOK
<1> QED  BY <1>1, FfInvariance, PTL
-----------------------------------------------------------------------------
(***************************************************************************)
(* SysQueue: any heads and items.  Linked says what each cell of a list    *)
(* holds; InsertsInto, RemovesFrom and JoinsInto say what the macros write *)
(* (a lemma for each), InsertLinks, RemoveLinks and JoinLinks that this    *)
(* links the list the user expects, and the *Apart lemmas that it leaves   *)
(* the other lists linked.                                                 *)
(***************************************************************************)
\* What follows the last item, and the i-th item.
EndOf(k, h)         == IF k = "CIRCLEQ" THEN h ELSE NULL
ItemAt(k, h, s, i)  == IF i \in 1 .. Len(s) THEN s[i] ELSE EndOf(k, h)
\* The cell that leads from the i-th item to the next one, the head's being the first, and
\* the cell that leads from the i-th item to the one before it, the head's being the last.
Fore(h, s, i) == IF i = 0 THEN first(h) ELSE next(s[i])
Rear(h, s, i) == IF i = Len(s) + 1 THEN last(h) ELSE prev(s[i])

\* What a list of this kind keeps there, and of how many cells.
BackOf(k, h, s, i) == IF k = "CIRCLEQ" THEN ItemAt(k, h, s, i - 1) ELSE Fore(h, s, i - 1)
HasBack(k, n, i)   == \/ k \in {"TAILQ", "CIRCLEQ"}
                      \/ k = "LIST" /\ i <= n
                      \/ k \in {"STAILQ", "SIMPLEQ"} /\ i = n + 1

\* The memory holds the list s of the head h.
Linked(m, k, h, s) ==
    /\ \A i \in 0 .. Len(s) : m[Fore(h, s, i)] = ItemAt(k, h, s, i + 1)
    /\ \A i \in 1 .. Len(s) + 1 : HasBack(k, Len(s), i) => m[Rear(h, s, i)] = BackOf(k, h, s, i)

\* s2 is s with e behind its p-th item.
Inserted(s, s2, p, e) ==
    /\ s2 \in Seq(Items) /\ Len(s2) = Len(s) + 1 /\ s2[p + 1] = e
    /\ \A i \in 1 .. p : s2[i] = s[i]
    /\ \A i \in p + 1 .. Len(s) : s2[i + 1] = s[i]

\* The cells of an insertion: those of e, and the two that lead to each other so far.
InsertsInto(m, m2, k, h, s, p, e) ==
    \A c \in QueueCells :
        /\ c = next(e) => m2[c] = ItemAt(k, h, s, p + 1)
        /\ c = Fore(h, s, p) => m2[c] = e
        /\ c = prev(e) /\ k \in {"LIST", "TAILQ", "CIRCLEQ"} => m2[c] = BackOf(k, h, s, p + 1)
        /\ c = Rear(h, s, p + 1) /\ HasBack(k, Len(s), p + 1)
              => m2[c] = IF k = "CIRCLEQ" THEN e ELSE next(e)
        /\ c \notin {next(e), prev(e), Fore(h, s, p), Rear(h, s, p + 1)} => m2[c] = m[c]

\* An item is in the list once.
Once(s) == \A i, j \in 1 .. Len(s) : s[i] = s[j] => i = j

\* Different cells.
LEMMA CellsDiffer ==
    ASSUME NEW h \in Heads, NEW s \in Seq(Items), Once(s)
    PROVE  /\ \A i \in 0 .. Len(s) : Fore(h, s, i) \in QueueCells
           /\ \A i \in 1 .. Len(s) + 1 : Rear(h, s, i) \in QueueCells
           /\ \A i, j \in 0 .. Len(s) : Fore(h, s, i) = Fore(h, s, j) => i = j
           /\ \A i, j \in 1 .. Len(s) + 1 : Rear(h, s, i) = Rear(h, s, j) => i = j
           /\ \A i \in 0 .. Len(s), j \in 1 .. Len(s) + 1 : Fore(h, s, i) # Rear(h, s, j)
<1>1. \A i \in 1 .. Len(s) : s[i] \in Items
  OBVIOUS
<1>2. \A i \in 0 .. Len(s) : Fore(h, s, i) \in QueueCells
  BY <1>1 DEF Fore, QueueCells
<1>3. \A i \in 1 .. Len(s) + 1 : Rear(h, s, i) \in QueueCells
  BY <1>1 DEF Rear, QueueCells
<1>4. \A i, j \in 0 .. Len(s) : Fore(h, s, i) = Fore(h, s, j) => i = j
  BY DEF Fore, first, next, Once
<1>5. \A i, j \in 1 .. Len(s) + 1 : Rear(h, s, i) = Rear(h, s, j) => i = j
  BY DEF Rear, last, prev, Once
<1>6. \A i \in 0 .. Len(s), j \in 1 .. Len(s) + 1 : Fore(h, s, i) # Rear(h, s, j)
  BY DEF Fore, Rear, first, next, last, prev
<1> QED  BY <1>2, <1>3, <1>4, <1>5, <1>6

\* The cells of an item that is in no list.
LEMMA SpareCells ==
    ASSUME NEW h \in Heads, NEW s \in Seq(Items), NEW e \in Items, \A i \in 1 .. Len(s) : s[i] # e
    PROVE  /\ next(e) \in QueueCells /\ prev(e) \in QueueCells /\ next(e) # prev(e)
           /\ \A i \in 0 .. Len(s) : Fore(h, s, i) \notin {next(e), prev(e)}
           /\ \A i \in 1 .. Len(s) + 1 : Rear(h, s, i) \notin {next(e), prev(e)}
<1>1. next(e) \in QueueCells /\ prev(e) \in QueueCells /\ next(e) # prev(e)
  BY DEF QueueCells, next, prev
<1>2. \A i \in 0 .. Len(s) : Fore(h, s, i) \notin {next(e), prev(e)}
  BY DEF Fore, first, next, prev
<1>3. \A i \in 1 .. Len(s) + 1 : Rear(h, s, i) \notin {next(e), prev(e)}
  BY DEF Rear, last, next, prev
<1> QED  BY <1>1, <1>2, <1>3

\* The cells of the longer list are those of the shorter one and of the item.
CellsShifted(k, h, s, s2, p, e) ==
    /\ \A i \in 0 .. p : Fore(h, s2, i) = Fore(h, s, i)
    /\ Fore(h, s2, p + 1) = next(e)
    /\ \A i \in p + 1 .. Len(s) : Fore(h, s2, i + 1) = Fore(h, s, i)
    /\ \A i \in 1 .. p : Rear(h, s2, i) = Rear(h, s, i)
    /\ Rear(h, s2, p + 1) = prev(e)
    /\ \A i \in p + 1 .. Len(s) + 1 : Rear(h, s2, i + 1) = Rear(h, s, i)
    /\ \A i \in 0 .. p : ItemAt(k, h, s2, i) = ItemAt(k, h, s, i)
    /\ ItemAt(k, h, s2, p + 1) = e
    /\ \A i \in p + 1 .. Len(s) + 1 : ItemAt(k, h, s2, i + 1) = ItemAt(k, h, s, i)

\* So they are.
LEMMA CellsShift ==
    ASSUME NEW h, NEW s \in Seq(Items), NEW s2, NEW p \in 0 .. Len(s), NEW e, Inserted(s, s2, p, e), NEW k
    PROVE  CellsShifted(k, h, s, s2, p, e)
<1>1. \A i \in 0 .. p : Fore(h, s2, i) = Fore(h, s, i)
  BY DEF Inserted, Fore
<1>2. Fore(h, s2, p + 1) = next(e)
  BY DEF Inserted, Fore
<1>3. \A i \in p + 1 .. Len(s) : Fore(h, s2, i + 1) = Fore(h, s, i)
  BY DEF Inserted, Fore
<1>4. \A i \in 1 .. p : Rear(h, s2, i) = Rear(h, s, i)
  BY DEF Inserted, Rear
<1>5. Rear(h, s2, p + 1) = prev(e)
  BY DEF Inserted, Rear
<1>6. \A i \in p + 1 .. Len(s) + 1 : Rear(h, s2, i + 1) = Rear(h, s, i)
  BY DEF Inserted, Rear
<1>7. \A i \in 0 .. p : ItemAt(k, h, s2, i) = ItemAt(k, h, s, i)
  BY DEF Inserted, ItemAt
<1>8. ItemAt(k, h, s2, p + 1) = e
  BY DEF Inserted, ItemAt
<1>9. \A i \in p + 1 .. Len(s) + 1 : ItemAt(k, h, s2, i + 1) = ItemAt(k, h, s, i)
  BY DEF Inserted, ItemAt
<1> QED  BY <1>1, <1>2, <1>3, <1>4, <1>5, <1>6, <1>7, <1>8, <1>9 DEF CellsShifted

\* An insertion links the longer list.
LEMMA InsertLinks ==
    ASSUME NEW k \in QueueKinds, NEW h \in Heads, NEW s \in Seq(Items), Once(s), NEW s2,
           NEW p \in 0 .. Len(s), NEW e \in Items, \A i \in 1 .. Len(s) : s[i] # e,
           Inserted(s, s2, p, e), NEW m, NEW m2, Linked(m, k, h, s), InsertsInto(m, m2, k, h, s, p, e)
    PROVE  Linked(m2, k, h, s2)
<1> DEFINE n == Len(s)
<1>0. CellsShifted(k, h, s, s2, p, e)
  BY CellsShift
<1>1. n \in Nat /\ Len(s2) = n + 1
  BY DEF Inserted
<1>2. \A i \in 0 .. n : i # p => m2[Fore(h, s, i)] = ItemAt(k, h, s, i + 1)
  <2> SUFFICES ASSUME NEW i \in 0 .. n, i # p PROVE m2[Fore(h, s, i)] = ItemAt(k, h, s, i + 1)
    OBVIOUS
  <2>1. Fore(h, s, i) \in QueueCells /\ Fore(h, s, i) \notin {next(e), prev(e), Fore(h, s, p), Rear(h,
        s, p + 1)}
    BY CellsDiffer, SpareCells, <1>1
  <2>2. m2[Fore(h, s, i)] = m[Fore(h, s, i)]
    BY <2>1 DEF InsertsInto
  <2> QED  BY <2>2 DEF Linked
<1>3. m2[Fore(h, s, p)] = e /\ m2[next(e)] = ItemAt(k, h, s, p + 1)
  BY CellsDiffer, SpareCells DEF InsertsInto
<1>4. \A i \in 1 .. n + 1 : HasBack(k, n, i) /\ i # p + 1 => m2[Rear(h, s, i)] = BackOf(k, h, s, i)
  <2> SUFFICES ASSUME NEW i \in 1 .. n + 1, i # p + 1, HasBack(k, n, i) PROVE m2[Rear(h, s,
                      i)] = BackOf(k, h, s, i)
    OBVIOUS
  <2>1. Rear(h, s, i) \in QueueCells /\ Rear(h, s, i) \notin {next(e), prev(e), Fore(h, s, p), Rear(h,
        s, p + 1)}
    BY CellsDiffer, SpareCells, <1>1
  <2>2. m2[Rear(h, s, i)] = m[Rear(h, s, i)]
    BY <2>1 DEF InsertsInto
  <2> QED  BY <2>2 DEF Linked
<1>5. HasBack(k, n, p + 1) => m2[Rear(h, s, p + 1)] = IF k = "CIRCLEQ" THEN e ELSE next(e)
  BY CellsDiffer, <1>1 DEF InsertsInto
<1>6. k \in {"LIST", "TAILQ", "CIRCLEQ"} => m2[prev(e)] = BackOf(k, h, s, p + 1)
  BY SpareCells DEF InsertsInto
<1>7. \A i \in 0 .. n + 1 : m2[Fore(h, s2, i)] = ItemAt(k, h, s2, i + 1)
  <2> SUFFICES ASSUME NEW i \in 0 .. n + 1 PROVE m2[Fore(h, s2, i)] = ItemAt(k, h, s2, i + 1)
    OBVIOUS
  <2>1. CASE i < p
    <3>1. i \in 0 .. p /\ i + 1 \in 0 .. p /\ i \in 0 .. n /\ i # p
      BY <1>1, <2>1
    <3>2. Fore(h, s2, i) = Fore(h, s, i) /\ ItemAt(k, h, s2, i + 1) = ItemAt(k, h, s, i + 1)
      BY <3>1, <1>0 DEF CellsShifted
    <3> QED  BY <3>1, <3>2, <1>2
  <2>2. CASE i = p
    <3>1. Fore(h, s2, i) = Fore(h, s, p) /\ ItemAt(k, h, s2, i + 1) = e
      BY <2>2, <1>0 DEF CellsShifted
    <3> QED  BY <3>1, <1>3
  <2>3. CASE i = p + 1
    <3>1. Fore(h, s2, i) = next(e) /\ ItemAt(k, h, s2, i + 1) = ItemAt(k, h, s, p + 1)
      BY <2>3, <1>1, <1>0 DEF CellsShifted
    <3> QED  BY <3>1, <1>3
  <2>4. CASE i > p + 1
    <3>1. PICK j \in p + 1 .. n : i = j + 1
      BY <2>4, <1>1
    <3>2. j \in 0 .. n /\ j # p /\ j + 1 \in p + 1 .. n + 1
      BY <1>1
    <3>3. Fore(h, s2, i) = Fore(h, s, j) /\ ItemAt(k, h, s2, i + 1) = ItemAt(k, h, s, j + 1)
      BY <3>1, <3>2, <1>0 DEF CellsShifted
    <3> QED  BY <3>2, <3>3, <1>2
  <2> QED  BY <2>1, <2>2, <2>3, <2>4, <1>1
<1>8. \A i \in 1 .. n + 2 : HasBack(k, n + 1, i) => m2[Rear(h, s2, i)] = BackOf(k, h, s2, i)
  <2> SUFFICES ASSUME NEW i \in 1 .. n + 2, HasBack(k, n + 1, i) PROVE m2[Rear(h, s2, i)] = BackOf(k,
                      h, s2, i)
    OBVIOUS
  <2>1. CASE i < p + 1
    <3>1. i \in 1 .. p /\ i \in 1 .. n + 1 /\ i # p + 1 /\ i - 1 \in 0 .. p
      BY <1>1, <2>1
    <3>2. HasBack(k, n, i)
      BY <3>1, <1>1 DEF HasBack
    <3>3. Rear(h, s2, i) = Rear(h, s, i) /\ BackOf(k, h, s2, i) = BackOf(k, h, s, i)
      BY <3>1, <1>0 DEF CellsShifted, BackOf
    <3> QED  BY <3>1, <3>2, <3>3, <1>4
  <2>2. CASE i = p + 1
    <3>1. k \in {"LIST", "TAILQ", "CIRCLEQ"}
      BY <2>2, <1>1 DEF HasBack
    <3>2. p \in 0 .. p /\ i - 1 = p /\ (p + 1) - 1 = p
      BY <2>2
    <3>3. Rear(h, s2, i) = prev(e) /\ BackOf(k, h, s2, i) = BackOf(k, h, s, p + 1)
      BY <3>2, <2>2, <1>0 DEF CellsShifted, BackOf
    <3> QED  BY <3>1, <3>3, <1>6
  <2>3. CASE i = p + 2
    <3>1. HasBack(k, n, p + 1)
      BY <2>3, <1>1 DEF HasBack
    <3>2. p + 1 \in p + 1 .. n + 1 /\ i - 1 = p + 1 /\ i = (p + 1) + 1
      BY <2>3, <1>1
    <3>3. Rear(h, s2, i) = Rear(h, s, p + 1)
      BY <3>2, <1>0 DEF CellsShifted
    <3>4. BackOf(k, h, s2, i) = IF k = "CIRCLEQ" THEN e ELSE next(e)
      BY <3>2, <1>0 DEF CellsShifted, BackOf
    <3> QED  BY <3>1, <3>3, <3>4, <1>5
  <2>4. CASE i > p + 2
    <3>1. PICK j \in p + 2 .. n + 1 : i = j + 1
      BY <2>4, <1>1
    <3>2. j \in p + 1 .. n + 1 /\ j \in 1 .. n + 1 /\ j # p + 1 /\ i - 1 = (j - 1) + 1
          /\ j - 1 \in p + 1 .. n
          /\ j - 1 \in p + 1 .. n + 1
      BY <3>1, <1>1
    <3>3. HasBack(k, n, j)
      BY <3>1, <1>1 DEF HasBack
    <3>4. Rear(h, s2, i) = Rear(h, s, j)
      BY <3>1, <3>2, <1>0 DEF CellsShifted
    <3>5. BackOf(k, h, s2, i) = BackOf(k, h, s, j)
      <4>1. ItemAt(k, h, s2, i - 1) = ItemAt(k, h, s, j - 1)
        BY <3>2, <1>0 DEF CellsShifted
      <4>2. Fore(h, s2, i - 1) = Fore(h, s, j - 1)
        BY <3>2, <1>0 DEF CellsShifted
      <4> QED  BY <4>1, <4>2 DEF BackOf
    <3> QED  BY <3>2, <3>3, <3>4, <3>5, <1>4
  <2> QED  BY <2>1, <2>2, <2>3, <2>4, <1>1
<1> QED  BY <1>1, <1>7, <1>8 DEF Linked

\* s2 is s without its p-th item.
Removed(s, s2, p) ==
    /\ s2 \in Seq(Items) /\ Len(s2) = Len(s) - 1
    /\ \A i \in 1 .. p - 1 : s2[i] = s[i]
    /\ \A i \in p + 1 .. Len(s) : s2[i - 1] = s[i]

\* The cells of a removal: the two that lead to the item are led past it.
RemovesFrom(m, m2, k, h, s, p) ==
    \A c \in QueueCells :
        /\ c = Fore(h, s, p - 1) => m2[c] = ItemAt(k, h, s, p + 1)
        /\ c = Rear(h, s, p + 1) /\ HasBack(k, Len(s), p + 1) => m2[c] = BackOf(k, h, s, p)
        /\ c \notin {next(s[p]), prev(s[p]), Fore(h, s, p - 1), Rear(h, s, p + 1)} => m2[c] = m[c]

\* The cells of the shorter list are those of the longer one but for those of the item.
CellsClosed(k, h, s, s2, p) ==
    /\ \A i \in 0 .. p - 1 : Fore(h, s2, i) = Fore(h, s, i)
    /\ \A i \in p + 1 .. Len(s) : Fore(h, s2, i - 1) = Fore(h, s, i)
    /\ \A i \in 1 .. p - 1 : Rear(h, s2, i) = Rear(h, s, i)
    /\ \A i \in p + 1 .. Len(s) + 1 : Rear(h, s2, i - 1) = Rear(h, s, i)
    /\ \A i \in 0 .. p - 1 : ItemAt(k, h, s2, i) = ItemAt(k, h, s, i)
    /\ \A i \in p + 1 .. Len(s) + 1 : ItemAt(k, h, s2, i - 1) = ItemAt(k, h, s, i)

\* So they are.
LEMMA CellsClose ==
    ASSUME NEW k, NEW h, NEW s \in Seq(Items), NEW s2, NEW p \in 1 .. Len(s), Removed(s, s2, p)
    PROVE  CellsClosed(k, h, s, s2, p)
<1>1. \A i \in 0 .. p - 1 : Fore(h, s2, i) = Fore(h, s, i)
  BY DEF Removed, Fore
<1>2. \A i \in p + 1 .. Len(s) : Fore(h, s2, i - 1) = Fore(h, s, i)
  BY DEF Removed, Fore
<1>3. \A i \in 1 .. p - 1 : Rear(h, s2, i) = Rear(h, s, i)
  BY DEF Removed, Rear
<1>4. \A i \in p + 1 .. Len(s) + 1 : Rear(h, s2, i - 1) = Rear(h, s, i)
  BY DEF Removed, Rear
<1>5. \A i \in 0 .. p - 1 : ItemAt(k, h, s2, i) = ItemAt(k, h, s, i)
  BY DEF Removed, ItemAt
<1>6. \A i \in p + 1 .. Len(s) + 1 : ItemAt(k, h, s2, i - 1) = ItemAt(k, h, s, i)
  BY DEF Removed, ItemAt
<1> QED  BY <1>1, <1>2, <1>3, <1>4, <1>5, <1>6 DEF CellsClosed

\* A removal links the shorter list.
LEMMA RemoveLinks ==
    ASSUME NEW k \in QueueKinds, NEW h \in Heads, NEW s \in Seq(Items), Once(s), NEW s2,
           NEW p \in 1 .. Len(s), Removed(s, s2, p),
           NEW m, NEW m2, Linked(m, k, h, s), RemovesFrom(m, m2, k, h, s, p)
    PROVE  Linked(m2, k, h, s2)
<1> DEFINE n == Len(s)
<1>0. CellsClosed(k, h, s, s2, p)
  BY CellsClose
<1>1. n \in Nat /\ Len(s2) = n - 1 /\ p \in 1 .. n
  BY DEF Removed
<1>2. next(s[p]) = Fore(h, s, p) /\ prev(s[p]) = Rear(h, s, p)
  BY <1>1 DEF Fore, Rear
<1>3. \A i \in 0 .. n : i # p - 1 /\ i # p => m2[Fore(h, s, i)] = ItemAt(k, h, s, i + 1)
  <2> SUFFICES ASSUME NEW i \in 0 .. n, i # p - 1, i # p PROVE m2[Fore(h, s, i)] = ItemAt(k, h, s, i + 1)
    OBVIOUS
  <2>1. /\ Fore(h, s, i) \in QueueCells
        /\ Fore(h, s, i) \notin {next(s[p]), prev(s[p]), Fore(h, s, p - 1), Rear(h, s, p + 1)}
    BY CellsDiffer, <1>1, <1>2
  <2>2. m2[Fore(h, s, i)] = m[Fore(h, s, i)]
    BY <2>1 DEF RemovesFrom
  <2> QED  BY <2>2 DEF Linked
<1>4. m2[Fore(h, s, p - 1)] = ItemAt(k, h, s, p + 1)
  BY CellsDiffer, <1>1 DEF RemovesFrom
<1>5. \A i \in 1 .. n + 1 : HasBack(k, n, i) /\ i # p + 1 /\ i # p => m2[Rear(h, s, i)] = BackOf(k, h,
      s, i)
  <2> SUFFICES ASSUME NEW i \in 1 .. n + 1, i # p + 1, i # p, HasBack(k, n, i)
               PROVE  m2[Rear(h, s, i)] = BackOf(k, h, s, i)
    OBVIOUS
  <2>1. /\ Rear(h, s, i) \in QueueCells
        /\ Rear(h, s, i) \notin {next(s[p]), prev(s[p]), Fore(h, s, p - 1), Rear(h, s, p + 1)}
    BY CellsDiffer, <1>1, <1>2
  <2>2. m2[Rear(h, s, i)] = m[Rear(h, s, i)]
    BY <2>1 DEF RemovesFrom
  <2> QED  BY <2>2 DEF Linked
<1>6. HasBack(k, n, p + 1) => m2[Rear(h, s, p + 1)] = BackOf(k, h, s, p)
  BY CellsDiffer, <1>1 DEF RemovesFrom
<1>7. \A i \in 0 .. n - 1 : m2[Fore(h, s2, i)] = ItemAt(k, h, s2, i + 1)
  <2> SUFFICES ASSUME NEW i \in 0 .. n - 1 PROVE m2[Fore(h, s2, i)] = ItemAt(k, h, s2, i + 1)
    OBVIOUS
  <2>1. CASE i < p - 1
    <3>1. i \in 0 .. p - 1 /\ i + 1 \in 0 .. p - 1 /\ i \in 0 .. n /\ i # p /\ i # p - 1
      BY <1>1, <2>1
    <3>2. Fore(h, s2, i) = Fore(h, s, i) /\ ItemAt(k, h, s2, i + 1) = ItemAt(k, h, s, i + 1)
      BY <3>1, <1>0 DEF CellsClosed
    <3> QED  BY <3>1, <3>2, <1>3
  <2>2. CASE i = p - 1
    <3>1. i \in 0 .. p - 1 /\ p + 1 \in p + 1 .. n + 1 /\ i + 1 = (p + 1) - 1
      BY <1>1, <2>2
    <3>2. Fore(h, s2, i) = Fore(h, s, p - 1) /\ ItemAt(k, h, s2, i + 1) = ItemAt(k, h, s, p + 1)
      BY <3>1, <2>2, <1>0 DEF CellsClosed
    <3> QED  BY <3>2, <1>4
  <2>3. CASE i > p - 1
    <3>1. PICK j \in p + 1 .. n : i = j - 1
      BY <2>3, <1>1
    <3>2. j \in 0 .. n /\ j # p /\ j # p - 1 /\ j + 1 \in p + 1 .. n + 1 /\ i + 1 = (j + 1) - 1
      BY <1>1, <3>1
    <3>3. Fore(h, s2, i) = Fore(h, s, j) /\ ItemAt(k, h, s2, i + 1) = ItemAt(k, h, s, j + 1)
      BY <3>1, <3>2, <1>0 DEF CellsClosed
    <3> QED  BY <3>2, <3>3, <1>3
  <2> QED  BY <2>1, <2>2, <2>3, <1>1
<1>8. \A i \in 1 .. n : HasBack(k, n - 1, i) => m2[Rear(h, s2, i)] = BackOf(k, h, s2, i)
  <2> SUFFICES ASSUME NEW i \in 1 .. n, HasBack(k, n - 1, i) PROVE m2[Rear(h, s2, i)] = BackOf(k, h,
                      s2, i)
    OBVIOUS
  <2>1. CASE i < p
    <3>1. i \in 1 .. p - 1 /\ i \in 1 .. n + 1 /\ i # p + 1 /\ i # p /\ i - 1 \in 0 .. p - 1
      BY <1>1, <2>1
    <3>2. HasBack(k, n, i)
      BY <3>1, <1>1 DEF HasBack
    <3>3. Rear(h, s2, i) = Rear(h, s, i) /\ BackOf(k, h, s2, i) = BackOf(k, h, s, i)
      BY <3>1, <1>0 DEF CellsClosed, BackOf
    <3> QED  BY <3>1, <3>2, <3>3, <1>5
  <2>2. CASE i = p
    <3>1. HasBack(k, n, p + 1)
      BY <2>2, <1>1 DEF HasBack
    <3>2. p + 1 \in p + 1 .. n + 1 /\ i = (p + 1) - 1 /\ i - 1 \in 0 .. p - 1 /\ i - 1 = p - 1
      BY <2>2, <1>1
    <3>3. Rear(h, s2, i) = Rear(h, s, p + 1)
      BY <3>2, <1>0 DEF CellsClosed
    <3>4. BackOf(k, h, s2, i) = BackOf(k, h, s, p)
      BY <3>2, <1>0 DEF CellsClosed, BackOf
    <3> QED  BY <3>1, <3>3, <3>4, <1>6
  <2>3. CASE i > p
    <3>1. PICK j \in p + 2 .. n + 1 : i = j - 1
      BY <2>3, <1>1
    <3>2. /\ j \in p + 1 .. n + 1 /\ j \in 1 .. n + 1 /\ j # p + 1 /\ j # p
          /\ j - 1 \in p + 1 .. n /\ j - 1 \in p + 1 .. n + 1 /\ i - 1 = (j - 1) - 1
      BY <3>1, <1>1
    <3>3. HasBack(k, n, j)
      BY <3>1, <1>1 DEF HasBack
    <3>4. Rear(h, s2, i) = Rear(h, s, j)
      BY <3>1, <3>2, <1>0 DEF CellsClosed
    <3>5. BackOf(k, h, s2, i) = BackOf(k, h, s, j)
      <4>1. ItemAt(k, h, s2, i - 1) = ItemAt(k, h, s, j - 1)
        BY <3>2, <1>0 DEF CellsClosed
      <4>2. Fore(h, s2, i - 1) = Fore(h, s, j - 1)
        BY <3>2, <1>0 DEF CellsClosed
      <4> QED  BY <4>1, <4>2 DEF BackOf
    <3> QED  BY <3>2, <3>3, <3>4, <3>5, <1>5
  <2> QED  BY <2>1, <2>2, <2>3, <1>1
<1> QED  BY <1>1, <1>7, <1>8 DEF Linked

\* The memory is what it holds in each cell.
IsMem(m) == m = [c \in QueueCells |-> m[c]]

\* The place behind the p-th item, f and r the cells that lead over it.
Place(m, k, h, s, p, e, f, r, x) ==
    /\ f = Fore(h, s, p) /\ r = Rear(h, s, p + 1) /\ x = ItemAt(k, h, s, p + 1)
    /\ {f, r, next(e), prev(e)} \subseteq QueueCells
    /\ f # r /\ f # next(e) /\ f # prev(e) /\ r # next(e) /\ r # prev(e) /\ next(e) # prev(e)
    /\ m[f] = x /\ (HasBack(k, Len(s), p + 1) => m[r] = BackOf(k, h, s, p + 1))
    /\ p < Len(s) => x = s[p + 1] /\ r = prev(x) /\ x \in Items /\ x # NULL /\ x \notin Heads
    /\ p = Len(s) => x = EndOf(k, h) /\ r = last(h)
    /\ p = 0 => f = first(h)
    /\ p > 0 => f = next(s[p]) /\ s[p] \in Items

\* There is one.
LEMMA PlaceIs ==
    ASSUME NEW k, NEW h \in Heads, NEW s \in Seq(Items), Once(s), NEW p \in 0 .. Len(s),
           NEW e \in Items, \A i \in 1 .. Len(s) : s[i] # e, NEW m, Linked(m, k, h, s)
    PROVE  \E f, r, x : Place(m, k, h, s, p, e, f, r, x)
<1>1. PICK f, r, x : f = Fore(h, s, p) /\ r = Rear(h, s, p + 1) /\ x = ItemAt(k, h, s, p + 1)
  OBVIOUS
<1>2. p + 1 \in 1 .. Len(s) + 1 /\ Len(s) \in Nat
  OBVIOUS
<1>3. {f, r, next(e), prev(e)} \subseteq QueueCells
  BY <1>1, <1>2, CellsDiffer, SpareCells
<1>4. f # r /\ f # next(e) /\ f # prev(e) /\ r # next(e) /\ r # prev(e) /\ next(e) # prev(e)
  BY <1>1, <1>2, CellsDiffer, SpareCells
<1>5. m[f] = x /\ (HasBack(k, Len(s), p + 1) => m[r] = BackOf(k, h, s, p + 1))
  BY <1>1, <1>2 DEF Linked
<1>6. p < Len(s) => x = s[p + 1] /\ r = prev(x) /\ x \in Items /\ x # NULL /\ x \notin Heads
  BY <1>1, <1>2, QueueAssumption DEF ItemAt, Rear
<1>7. p = Len(s) => x = EndOf(k, h) /\ r = last(h)
  BY <1>1, <1>2 DEF ItemAt, Rear
<1>8. p = 0 => f = first(h)
  BY <1>1 DEF Fore
<1>9. p > 0 => f = next(s[p]) /\ s[p] \in Items
  BY <1>1 DEF Fore
<1> QED  BY <1>1, <1>3, <1>4, <1>5, <1>6, <1>7, <1>8, <1>9 DEF Place

\* What the four writes of an insertion come to.
LEMMA FourWrites ==
    ASSUME NEW k, NEW h, NEW s \in Seq(Items), NEW p \in 0 .. Len(s), NEW e, NEW m, IsMem(m),
           NEW f, NEW r, NEW x, Place(m, k, h, s, p, e, f, r, x), NEW m2, IsMem(m2),
           m2[next(e)] = x, m2[f] = e,
           k \in {"LIST", "TAILQ", "CIRCLEQ"} => m2[prev(e)] = BackOf(k, h, s, p + 1),
           HasBack(k, Len(s), p + 1) => m2[r] = IF k = "CIRCLEQ" THEN e ELSE next(e),
           \A c \in QueueCells : c \notin {next(e), prev(e), f, r} => m2[c] = m[c]
    PROVE  InsertsInto(m, m2, k, h, s, p, e)
  BY DEF InsertsInto, Place

\* What an insertion behind the p-th item of the list s starts from.
CanInsert(m, k, h, s, p, e) ==
    /\ h \in Heads /\ s \in Seq(Items) /\ Once(s) /\ p \in 0 .. Len(s)
    /\ e \in Items /\ (\A i \in 1 .. Len(s) : s[i] # e)
    /\ IsMem(m) /\ Linked(m, k, h, s)

\* It finds its place; what is last, and what is before the place in a circular queue.
LEMMA PlaceFound ==
    ASSUME NEW k, NEW m, NEW h, NEW s, NEW p, NEW e, CanInsert(m, k, h, s, p, e)
    PROVE  /\ \E f, r, x : Place(m, k, h, s, p, e, f, r, x)
           /\ k \in {"STAILQ", "SIMPLEQ", "TAILQ"} => m[last(h)] = Fore(h, s, Len(s))
           /\ k = "CIRCLEQ" => m[last(h)] = ItemAt(k, h, s, Len(s)) /\ m[first(h)] = ItemAt(k, h, s, 1)
<1>1. /\ h \in Heads /\ s \in Seq(Items) /\ Once(s) /\ p \in 0 .. Len(s)
      /\ e \in Items /\ (\A i \in 1 .. Len(s) : s[i] # e)
      /\ IsMem(m) /\ Linked(m, k, h, s) /\ Len(s) \in Nat
  BY DEF CanInsert
<1>2. \E f, r, x : Place(m, k, h, s, p, e, f, r, x)
  BY <1>1, PlaceIs
<1>3. Rear(h, s, Len(s) + 1) = last(h) /\ Fore(h, s, 0) = first(h)
  BY DEF Rear, Fore
<1>4. HasBack(k, Len(s), Len(s) + 1) => m[last(h)] = BackOf(k, h, s, Len(s) + 1)
  BY <1>1, <1>3 DEF Linked
<1>5. m[first(h)] = ItemAt(k, h, s, 1)
  BY <1>1, <1>3 DEF Linked
<1> QED  BY <1>1, <1>2, <1>4, <1>5 DEF HasBack, BackOf

\* LIST_INSERT_HEAD.
LEMMA ListInsertHead ==
    ASSUME NEW m, NEW h, NEW s, NEW p, NEW e, CanInsert(m, "LIST", h, s, p, e), p = 0,
           NEW m2, m2 = LIST_INSERT_HEAD(m, h, e)
    PROVE  IsMem(m2) /\ InsertsInto(m, m2, "LIST", h, s, p, e)
<1>1. PICK f, r, x : Place(m, "LIST", h, s, p, e, f, r, x)
  BY PlaceFound
<1>2. /\ s \in Seq(Items) /\ p \in 0 .. Len(s) /\ Len(s) \in Nat /\ IsMem(m) /\ h \in Heads
      /\ \A i \in 1 .. Len(s) : s[i] \in Items
  BY DEF CanInsert
<1>3. first(h) = f /\ m[f] = x /\ (x # NULL <=> p < Len(s)) /\ (x # NULL => prev(x) = r)
  BY <1>1, <1>2, PlaceFound, QueueAssumption DEF Place, EndOf, HasBack, BackOf, ItemAt, Fore
<1>4. m2 = [[IF x # NULL THEN [[m EXCEPT ![next(e)] = x] EXCEPT ![r] = next(e)] ELSE [m
      EXCEPT ![next(e)] = x]
              EXCEPT ![f] = e] EXCEPT ![prev(e)] = f]
  BY <1>3 DEF LIST_INSERT_HEAD, PutIf, Put
<1>5. BackOf("LIST", h, s, p + 1) = f
  BY <1>1, <1>2, <1>3 DEF Place, BackOf, ItemAt, EndOf
<1>6. /\ IsMem(m2) /\ m2[next(e)] = x /\ m2[f] = e /\ m2[prev(e)] = f
      /\ p < Len(s) => m2[r] = next(e)
      /\ \A c \in QueueCells : c \notin {next(e), prev(e), f, r} => m2[c] = m[c]
  BY <1>1, <1>2, <1>3, <1>4 DEF Place, IsMem
<1> QED  BY <1>1, <1>2, <1>5, <1>6, FourWrites DEF HasBack

\* LIST_INSERT_AFTER.
LEMMA ListInsertAfter ==
    ASSUME NEW m, NEW h, NEW s, NEW p, NEW e, CanInsert(m, "LIST", h, s, p, e), p # 0,
           NEW m2, m2 = LIST_INSERT_AFTER(m, s[p], e)
    PROVE  IsMem(m2) /\ InsertsInto(m, m2, "LIST", h, s, p, e)
<1>1. PICK f, r, x : Place(m, "LIST", h, s, p, e, f, r, x)
  BY PlaceFound
<1>2. /\ s \in Seq(Items) /\ p \in 0 .. Len(s) /\ Len(s) \in Nat /\ IsMem(m) /\ h \in Heads
      /\ \A i \in 1 .. Len(s) : s[i] \in Items
  BY DEF CanInsert
<1>3. next(s[p]) = f /\ m[f] = x /\ (x # NULL <=> p < Len(s)) /\ (x # NULL => prev(x) = r)
  BY <1>1, <1>2, PlaceFound, QueueAssumption DEF Place, EndOf, HasBack, BackOf, ItemAt, Fore
<1>4. m2 = [[IF x # NULL THEN [[m EXCEPT ![next(e)] = x] EXCEPT ![r] = next(e)] ELSE [m
      EXCEPT ![next(e)] = x]
              EXCEPT ![f] = e] EXCEPT ![prev(e)] = f]
  BY <1>3 DEF LIST_INSERT_AFTER, PutIf, Put
<1>5. BackOf("LIST", h, s, p + 1) = f
  BY <1>1, <1>2, <1>3 DEF Place, BackOf, ItemAt, EndOf
<1>6. /\ IsMem(m2) /\ m2[next(e)] = x /\ m2[f] = e /\ m2[prev(e)] = f
      /\ p < Len(s) => m2[r] = next(e)
      /\ \A c \in QueueCells : c \notin {next(e), prev(e), f, r} => m2[c] = m[c]
  BY <1>1, <1>2, <1>3, <1>4 DEF Place, IsMem
<1> QED  BY <1>1, <1>2, <1>5, <1>6, FourWrites DEF HasBack

\* LIST_INSERT_BEFORE and TAILQ_INSERT_BEFORE.
LEMMA ItemInsertBefore ==
    ASSUME NEW k \in {"LIST", "TAILQ"}, NEW m, NEW h, NEW s, NEW p, NEW e, CanInsert(m, k, h, s, p,
           e), p # Len(s),
           NEW m2, m2 = LIST_INSERT_BEFORE(m, s[p + 1], e)
    PROVE  IsMem(m2) /\ InsertsInto(m, m2, k, h, s, p, e)
<1>1. PICK f, r, x : Place(m, k, h, s, p, e, f, r, x)
  BY PlaceFound
<1>2. /\ s \in Seq(Items) /\ p \in 0 .. Len(s) /\ Len(s) \in Nat /\ IsMem(m) /\ h \in Heads
      /\ \A i \in 1 .. Len(s) : s[i] \in Items
  BY DEF CanInsert
<1>3. s[p + 1] = x /\ prev(x) = r /\ m[r] = f
  BY <1>1, <1>2, PlaceFound, QueueAssumption DEF Place, EndOf, HasBack, BackOf, ItemAt, Fore
<1>4. m2 = [[[[m EXCEPT ![prev(e)] = f] EXCEPT ![next(e)] = x] EXCEPT ![f] = e] EXCEPT ![r] = next(e)]
  BY <1>3 DEF LIST_INSERT_BEFORE
<1>5. BackOf(k, h, s, p + 1) = f
  BY <1>1, <1>2, <1>3 DEF Place, BackOf, ItemAt, EndOf
<1>6. /\ IsMem(m2) /\ m2[next(e)] = x /\ m2[f] = e /\ m2[prev(e)] = f
      /\ m2[r] = next(e)
      /\ \A c \in QueueCells : c \notin {next(e), prev(e), f, r} => m2[c] = m[c]
  BY <1>1, <1>2, <1>3, <1>4 DEF Place, IsMem
<1> QED  BY <1>1, <1>2, <1>5, <1>6, FourWrites

\* SLIST_INSERT_HEAD.
LEMMA SlistInsertHead ==
    ASSUME NEW m, NEW h, NEW s, NEW p, NEW e, CanInsert(m, "SLIST", h, s, p, e), p = 0,
           NEW m2, m2 = SLIST_INSERT_HEAD(m, h, e)
    PROVE  IsMem(m2) /\ InsertsInto(m, m2, "SLIST", h, s, p, e)
<1>1. PICK f, r, x : Place(m, "SLIST", h, s, p, e, f, r, x)
  BY PlaceFound
<1>2. /\ s \in Seq(Items) /\ p \in 0 .. Len(s) /\ Len(s) \in Nat /\ IsMem(m) /\ h \in Heads
      /\ \A i \in 1 .. Len(s) : s[i] \in Items
  BY DEF CanInsert
<1>3. first(h) = f /\ m[f] = x
  BY <1>1, <1>2, PlaceFound, QueueAssumption DEF Place, EndOf, HasBack, BackOf, ItemAt, Fore
<1>4. m2 = [[m EXCEPT ![next(e)] = x] EXCEPT ![f] = e]
  BY <1>3 DEF SLIST_INSERT_HEAD
<1>5. /\ IsMem(m2) /\ m2[next(e)] = x /\ m2[f] = e
      /\ TRUE
      /\ \A c \in QueueCells : c \notin {next(e), prev(e), f, r} => m2[c] = m[c]
  BY <1>1, <1>2, <1>3, <1>4 DEF Place, IsMem
<1> QED  BY <1>1, <1>2, <1>5, FourWrites DEF HasBack

\* SLIST_INSERT_AFTER.
LEMMA SlistInsertAfter ==
    ASSUME NEW m, NEW h, NEW s, NEW p, NEW e, CanInsert(m, "SLIST", h, s, p, e), p # 0,
           NEW m2, m2 = SLIST_INSERT_AFTER(m, s[p], e)
    PROVE  IsMem(m2) /\ InsertsInto(m, m2, "SLIST", h, s, p, e)
<1>1. PICK f, r, x : Place(m, "SLIST", h, s, p, e, f, r, x)
  BY PlaceFound
<1>2. /\ s \in Seq(Items) /\ p \in 0 .. Len(s) /\ Len(s) \in Nat /\ IsMem(m) /\ h \in Heads
      /\ \A i \in 1 .. Len(s) : s[i] \in Items
  BY DEF CanInsert
<1>3. next(s[p]) = f /\ m[f] = x
  BY <1>1, <1>2, PlaceFound, QueueAssumption DEF Place, EndOf, HasBack, BackOf, ItemAt, Fore
<1>4. m2 = [[m EXCEPT ![next(e)] = x] EXCEPT ![f] = e]
  BY <1>3 DEF SLIST_INSERT_AFTER
<1>5. /\ IsMem(m2) /\ m2[next(e)] = x /\ m2[f] = e
      /\ TRUE
      /\ \A c \in QueueCells : c \notin {next(e), prev(e), f, r} => m2[c] = m[c]
  BY <1>1, <1>2, <1>3, <1>4 DEF Place, IsMem
<1> QED  BY <1>1, <1>2, <1>5, FourWrites DEF HasBack

\* STAILQ_INSERT_HEAD and SIMPLEQ_INSERT_HEAD.
LEMMA StailqInsertHead ==
    ASSUME NEW k \in {"STAILQ", "SIMPLEQ"}, NEW m, NEW h, NEW s, NEW p, NEW e, CanInsert(m, k, h, s,
           p, e), p = 0,
           NEW m2, m2 = STAILQ_INSERT_HEAD(m, h, e)
    PROVE  IsMem(m2) /\ InsertsInto(m, m2, k, h, s, p, e)
<1>1. PICK f, r, x : Place(m, k, h, s, p, e, f, r, x)
  BY PlaceFound
<1>2. /\ s \in Seq(Items) /\ p \in 0 .. Len(s) /\ Len(s) \in Nat /\ IsMem(m) /\ h \in Heads
      /\ \A i \in 1 .. Len(s) : s[i] \in Items
  BY DEF CanInsert
<1>3. first(h) = f /\ m[f] = x /\ (x = NULL <=> p = Len(s)) /\ (x = NULL => last(h) = r)
  BY <1>1, <1>2, PlaceFound, QueueAssumption DEF Place, EndOf, HasBack, BackOf, ItemAt, Fore
<1>4. m2 = [IF x = NULL THEN [[m EXCEPT ![next(e)] = x] EXCEPT ![r] = next(e)] ELSE [m
      EXCEPT ![next(e)] = x]
              EXCEPT ![f] = e]
  BY <1>3 DEF STAILQ_INSERT_HEAD, PutIf, Put
<1>5. /\ IsMem(m2) /\ m2[next(e)] = x /\ m2[f] = e
      /\ p = Len(s) => m2[r] = next(e)
      /\ \A c \in QueueCells : c \notin {next(e), prev(e), f, r} => m2[c] = m[c]
  BY <1>1, <1>2, <1>3, <1>4 DEF Place, IsMem
<1> QED  BY <1>1, <1>2, <1>5, FourWrites DEF HasBack

\* STAILQ_INSERT_AFTER and SIMPLEQ_INSERT_AFTER.
LEMMA StailqInsertAfter ==
    ASSUME NEW k \in {"STAILQ", "SIMPLEQ"}, NEW m, NEW h, NEW s, NEW p, NEW e, CanInsert(m, k, h, s,
           p, e), p # 0,
           NEW m2, m2 = STAILQ_INSERT_AFTER(m, h, s[p], e)
    PROVE  IsMem(m2) /\ InsertsInto(m, m2, k, h, s, p, e)
<1>1. PICK f, r, x : Place(m, k, h, s, p, e, f, r, x)
  BY PlaceFound
<1>2. /\ s \in Seq(Items) /\ p \in 0 .. Len(s) /\ Len(s) \in Nat /\ IsMem(m) /\ h \in Heads
      /\ \A i \in 1 .. Len(s) : s[i] \in Items
  BY DEF CanInsert
<1>3. next(s[p]) = f /\ m[f] = x /\ (x = NULL <=> p = Len(s)) /\ (x = NULL => last(h) = r)
  BY <1>1, <1>2, PlaceFound, QueueAssumption DEF Place, EndOf, HasBack, BackOf, ItemAt, Fore
<1>4. m2 = [IF x = NULL THEN [[m EXCEPT ![next(e)] = x] EXCEPT ![r] = next(e)] ELSE [m
      EXCEPT ![next(e)] = x]
              EXCEPT ![f] = e]
  BY <1>3 DEF STAILQ_INSERT_AFTER, PutIf, Put
<1>5. /\ IsMem(m2) /\ m2[next(e)] = x /\ m2[f] = e
      /\ p = Len(s) => m2[r] = next(e)
      /\ \A c \in QueueCells : c \notin {next(e), prev(e), f, r} => m2[c] = m[c]
  BY <1>1, <1>2, <1>3, <1>4 DEF Place, IsMem
<1> QED  BY <1>1, <1>2, <1>5, FourWrites DEF HasBack

\* STAILQ_INSERT_TAIL and SIMPLEQ_INSERT_TAIL.
LEMMA StailqInsertTail ==
    ASSUME NEW k \in {"STAILQ", "SIMPLEQ"}, NEW m, NEW h, NEW s, NEW p, NEW e, CanInsert(m, k, h, s,
           p, e), p = Len(s),
           NEW m2, m2 = STAILQ_INSERT_TAIL(m, h, e)
    PROVE  IsMem(m2) /\ InsertsInto(m, m2, k, h, s, p, e)
<1>1. PICK f, r, x : Place(m, k, h, s, p, e, f, r, x)
  BY PlaceFound
<1>2. /\ s \in Seq(Items) /\ p \in 0 .. Len(s) /\ Len(s) \in Nat /\ IsMem(m) /\ h \in Heads
      /\ \A i \in 1 .. Len(s) : s[i] \in Items
  BY DEF CanInsert
<1>3. last(h) = r /\ m[r] = f /\ x = NULL
  BY <1>1, <1>2, PlaceFound, QueueAssumption DEF Place, EndOf, HasBack, BackOf, ItemAt, Fore
<1>4. m2 = [[[m EXCEPT ![next(e)] = x] EXCEPT ![f] = e] EXCEPT ![r] = next(e)]
  <2> DEFINE a == [m EXCEPT ![next(e)] = x]
  <2>1. a[last(h)] = f
    BY <1>1, <1>2, <1>3 DEF Place, IsMem
  <2>2. m2 = Put(Put(a, a[last(h)], e), last(h), next(e))
    BY <1>3 DEF STAILQ_INSERT_TAIL, Put
  <2> QED  BY <1>3, <2>1, <2>2 DEF Put
<1>5. /\ IsMem(m2) /\ m2[next(e)] = x /\ m2[f] = e
      /\ m2[r] = next(e)
      /\ \A c \in QueueCells : c \notin {next(e), prev(e), f, r} => m2[c] = m[c]
  BY <1>1, <1>2, <1>3, <1>4 DEF Place, IsMem
<1> QED  BY <1>1, <1>2, <1>5, FourWrites

\* TAILQ_INSERT_HEAD.
LEMMA TailqInsertHead ==
    ASSUME NEW m, NEW h, NEW s, NEW p, NEW e, CanInsert(m, "TAILQ", h, s, p, e), p = 0,
           NEW m2, m2 = TAILQ_INSERT_HEAD(m, h, e)
    PROVE  IsMem(m2) /\ InsertsInto(m, m2, "TAILQ", h, s, p, e)
<1>1. PICK f, r, x : Place(m, "TAILQ", h, s, p, e, f, r, x)
  BY PlaceFound
<1>2. /\ s \in Seq(Items) /\ p \in 0 .. Len(s) /\ Len(s) \in Nat /\ IsMem(m) /\ h \in Heads
      /\ \A i \in 1 .. Len(s) : s[i] \in Items
  BY DEF CanInsert
<1>3. first(h) = f /\ m[f] = x /\ (IF x # NULL THEN prev(x) ELSE last(h)) = r
  BY <1>1, <1>2, PlaceFound, QueueAssumption DEF Place, EndOf, HasBack, BackOf, ItemAt, Fore
<1>4. m2 = [[[[m EXCEPT ![next(e)] = x] EXCEPT ![r] = next(e)] EXCEPT ![f] = e] EXCEPT ![prev(e)] = f]
  BY <1>3 DEF TAILQ_INSERT_HEAD, TailqFollow, Put
<1>5. BackOf("TAILQ", h, s, p + 1) = f
  BY <1>1, <1>2, <1>3 DEF Place, BackOf, ItemAt, EndOf
<1>6. /\ IsMem(m2) /\ m2[next(e)] = x /\ m2[f] = e /\ m2[prev(e)] = f
      /\ m2[r] = next(e)
      /\ \A c \in QueueCells : c \notin {next(e), prev(e), f, r} => m2[c] = m[c]
  BY <1>1, <1>2, <1>3, <1>4 DEF Place, IsMem
<1> QED  BY <1>1, <1>2, <1>5, <1>6, FourWrites

\* TAILQ_INSERT_AFTER.
LEMMA TailqInsertAfter ==
    ASSUME NEW m, NEW h, NEW s, NEW p, NEW e, CanInsert(m, "TAILQ", h, s, p, e), p # 0,
           NEW m2, m2 = TAILQ_INSERT_AFTER(m, h, s[p], e)
    PROVE  IsMem(m2) /\ InsertsInto(m, m2, "TAILQ", h, s, p, e)
<1>1. PICK f, r, x : Place(m, "TAILQ", h, s, p, e, f, r, x)
  BY PlaceFound
<1>2. /\ s \in Seq(Items) /\ p \in 0 .. Len(s) /\ Len(s) \in Nat /\ IsMem(m) /\ h \in Heads
      /\ \A i \in 1 .. Len(s) : s[i] \in Items
  BY DEF CanInsert
<1>3. next(s[p]) = f /\ m[f] = x /\ (IF x # NULL THEN prev(x) ELSE last(h)) = r
  BY <1>1, <1>2, PlaceFound, QueueAssumption DEF Place, EndOf, HasBack, BackOf, ItemAt, Fore
<1>4. m2 = [[[[m EXCEPT ![next(e)] = x] EXCEPT ![r] = next(e)] EXCEPT ![f] = e] EXCEPT ![prev(e)] = f]
  BY <1>3 DEF TAILQ_INSERT_AFTER, TailqFollow, Put
<1>5. BackOf("TAILQ", h, s, p + 1) = f
  BY <1>1, <1>2, <1>3 DEF Place, BackOf, ItemAt, EndOf
<1>6. /\ IsMem(m2) /\ m2[next(e)] = x /\ m2[f] = e /\ m2[prev(e)] = f
      /\ m2[r] = next(e)
      /\ \A c \in QueueCells : c \notin {next(e), prev(e), f, r} => m2[c] = m[c]
  BY <1>1, <1>2, <1>3, <1>4 DEF Place, IsMem
<1> QED  BY <1>1, <1>2, <1>5, <1>6, FourWrites

\* TAILQ_INSERT_TAIL.
LEMMA TailqInsertTail ==
    ASSUME NEW m, NEW h, NEW s, NEW p, NEW e, CanInsert(m, "TAILQ", h, s, p, e), p = Len(s),
           NEW m2, m2 = TAILQ_INSERT_TAIL(m, h, e)
    PROVE  IsMem(m2) /\ InsertsInto(m, m2, "TAILQ", h, s, p, e)
<1>1. PICK f, r, x : Place(m, "TAILQ", h, s, p, e, f, r, x)
  BY PlaceFound
<1>2. /\ s \in Seq(Items) /\ p \in 0 .. Len(s) /\ Len(s) \in Nat /\ IsMem(m) /\ h \in Heads
      /\ \A i \in 1 .. Len(s) : s[i] \in Items
  BY DEF CanInsert
<1>3. last(h) = r /\ m[r] = f /\ x = NULL
  BY <1>1, <1>2, PlaceFound, QueueAssumption DEF Place, EndOf, HasBack, BackOf, ItemAt, Fore
<1>4. m2 = [[[[m EXCEPT ![next(e)] = x] EXCEPT ![prev(e)] = f] EXCEPT ![f] = e] EXCEPT ![r] = next(e)]
  <2> DEFINE a == [[m EXCEPT ![next(e)] = x] EXCEPT ![prev(e)] = f]
  <2>1. a[last(h)] = f
    BY <1>1, <1>2, <1>3 DEF Place, IsMem
  <2>2. m2 = Put(Put(a, a[last(h)], e), last(h), next(e))
    BY <1>3 DEF TAILQ_INSERT_TAIL
  <2> QED  BY <1>3, <2>1, <2>2 DEF Put
<1>5. BackOf("TAILQ", h, s, p + 1) = f
  BY <1>1, <1>2, <1>3 DEF Place, BackOf, ItemAt, EndOf
<1>6. /\ IsMem(m2) /\ m2[next(e)] = x /\ m2[f] = e /\ m2[prev(e)] = f
      /\ m2[r] = next(e)
      /\ \A c \in QueueCells : c \notin {next(e), prev(e), f, r} => m2[c] = m[c]
  BY <1>1, <1>2, <1>3, <1>4 DEF Place, IsMem
<1> QED  BY <1>1, <1>2, <1>5, <1>6, FourWrites

\* CIRCLEQ_INSERT_AFTER.
LEMMA CircleqInsertAfter ==
    ASSUME NEW m, NEW h, NEW s, NEW p, NEW e, CanInsert(m, "CIRCLEQ", h, s, p, e), p # 0,
           NEW m2, m2 = CIRCLEQ_INSERT_AFTER(m, h, s[p], e)
    PROVE  IsMem(m2) /\ InsertsInto(m, m2, "CIRCLEQ", h, s, p, e)
<1>1. PICK f, r, x : Place(m, "CIRCLEQ", h, s, p, e, f, r, x)
  BY PlaceFound
<1>2. /\ s \in Seq(Items) /\ p \in 0 .. Len(s) /\ Len(s) \in Nat /\ IsMem(m) /\ h \in Heads
      /\ \A i \in 1 .. Len(s) : s[i] \in Items
  BY DEF CanInsert
<1>3. next(s[p]) = f /\ m[f] = x /\ PrevOf(h, x) = r
  BY <1>1, <1>2, PlaceFound, QueueAssumption DEF Place, EndOf, HasBack, BackOf, ItemAt, Fore, PrevOf
<1>4. m2 = [[[[m EXCEPT ![next(e)] = x] EXCEPT ![prev(e)] = s[p]] EXCEPT ![r] = e] EXCEPT ![f] = e]
  BY <1>3 DEF CIRCLEQ_INSERT_AFTER
<1>5. BackOf("CIRCLEQ", h, s, p + 1) = s[p]
  BY <1>1, <1>2, <1>3 DEF Place, BackOf, ItemAt, EndOf
<1>6. /\ IsMem(m2) /\ m2[next(e)] = x /\ m2[f] = e /\ m2[prev(e)] = s[p]
      /\ m2[r] = e
      /\ \A c \in QueueCells : c \notin {next(e), prev(e), f, r} => m2[c] = m[c]
  BY <1>1, <1>2, <1>3, <1>4 DEF Place, IsMem
<1> QED  BY <1>1, <1>2, <1>5, <1>6, FourWrites

\* CIRCLEQ_INSERT_BEFORE.
LEMMA CircleqInsertBefore ==
    ASSUME NEW m, NEW h, NEW s, NEW p, NEW e, CanInsert(m, "CIRCLEQ", h, s, p, e), p # Len(s),
           NEW m2, m2 = CIRCLEQ_INSERT_BEFORE(m, h, s[p + 1], e)
    PROVE  IsMem(m2) /\ InsertsInto(m, m2, "CIRCLEQ", h, s, p, e)
<1>1. PICK f, r, x : Place(m, "CIRCLEQ", h, s, p, e, f, r, x)
  BY PlaceFound
<1>2. /\ s \in Seq(Items) /\ p \in 0 .. Len(s) /\ Len(s) \in Nat /\ IsMem(m) /\ h \in Heads
      /\ \A i \in 1 .. Len(s) : s[i] \in Items
  BY DEF CanInsert
<1>3. s[p + 1] = x /\ prev(x) = r /\ m[r] = ItemAt("CIRCLEQ", h, s, p) /\ NextOf(h, ItemAt("CIRCLEQ",
      h, s, p)) = f
  BY <1>1, <1>2, PlaceFound, QueueAssumption DEF Place, EndOf, HasBack, BackOf, ItemAt, Fore, NextOf
<1>4. m2 = [[[[m EXCEPT ![next(e)] = x] EXCEPT ![prev(e)] = ItemAt("CIRCLEQ", h, s, p)]
      EXCEPT ![f] = e] EXCEPT ![r] = e]
  BY <1>3 DEF CIRCLEQ_INSERT_BEFORE
<1>5. BackOf("CIRCLEQ", h, s, p + 1) = ItemAt("CIRCLEQ", h, s, p)
  BY <1>1, <1>2, <1>3 DEF Place, BackOf, ItemAt, EndOf
<1>6. /\ IsMem(m2) /\ m2[next(e)] = x /\ m2[f] = e /\ m2[prev(e)] = ItemAt("CIRCLEQ", h, s, p)
      /\ m2[r] = e
      /\ \A c \in QueueCells : c \notin {next(e), prev(e), f, r} => m2[c] = m[c]
  BY <1>1, <1>2, <1>3, <1>4 DEF Place, IsMem
<1> QED  BY <1>1, <1>2, <1>5, <1>6, FourWrites

\* CIRCLEQ_INSERT_HEAD.
LEMMA CircleqInsertHead ==
    ASSUME NEW m, NEW h, NEW s, NEW p, NEW e, CanInsert(m, "CIRCLEQ", h, s, p, e), p = 0,
           NEW m2, m2 = CIRCLEQ_INSERT_HEAD(m, h, e)
    PROVE  IsMem(m2) /\ InsertsInto(m, m2, "CIRCLEQ", h, s, p, e)
<1>1. PICK f, r, x : Place(m, "CIRCLEQ", h, s, p, e, f, r, x)
  BY PlaceFound
<1>2. /\ s \in Seq(Items) /\ p \in 0 .. Len(s) /\ Len(s) \in Nat /\ IsMem(m) /\ h \in Heads
      /\ \A i \in 1 .. Len(s) : s[i] \in Items
  BY DEF CanInsert
<1>3. first(h) = f /\ m[f] = x /\ (IF m[last(h)] = h THEN last(h) ELSE prev(x)) = r
  <2>1. first(h) = f /\ m[f] = x /\ (p < Len(s) => prev(x) = r) /\ (p = Len(s) => last(h) = r)
    BY <1>1 DEF Place
  <2>2. m[last(h)] = ItemAt("CIRCLEQ", h, s, Len(s))
    BY PlaceFound
  <2>3. m[last(h)] = h <=> p = Len(s)
    BY <1>2, <2>2, QueueAssumption DEF ItemAt, EndOf
  <2> QED  BY <1>2, <2>1, <2>3
<1>4. m2 = [[[[m EXCEPT ![next(e)] = x] EXCEPT ![prev(e)] = h] EXCEPT ![r] = e] EXCEPT ![f] = e]
  BY <1>3 DEF CIRCLEQ_INSERT_HEAD, Put
<1>5. BackOf("CIRCLEQ", h, s, p + 1) = h
  BY <1>1, <1>2, <1>3 DEF Place, BackOf, ItemAt, EndOf
<1>6. /\ IsMem(m2) /\ m2[next(e)] = x /\ m2[f] = e /\ m2[prev(e)] = h
      /\ m2[r] = e
      /\ \A c \in QueueCells : c \notin {next(e), prev(e), f, r} => m2[c] = m[c]
  BY <1>1, <1>2, <1>3, <1>4 DEF Place, IsMem
<1> QED  BY <1>1, <1>2, <1>5, <1>6, FourWrites

\* CIRCLEQ_INSERT_TAIL.
LEMMA CircleqInsertTail ==
    ASSUME NEW m, NEW h, NEW s, NEW p, NEW e, CanInsert(m, "CIRCLEQ", h, s, p, e), p = Len(s),
           NEW m2, m2 = CIRCLEQ_INSERT_TAIL(m, h, e)
    PROVE  IsMem(m2) /\ InsertsInto(m, m2, "CIRCLEQ", h, s, p, e)
<1>1. PICK f, r, x : Place(m, "CIRCLEQ", h, s, p, e, f, r, x)
  BY PlaceFound
<1>2. /\ s \in Seq(Items) /\ p \in 0 .. Len(s) /\ Len(s) \in Nat /\ IsMem(m) /\ h \in Heads
      /\ \A i \in 1 .. Len(s) : s[i] \in Items
  BY DEF CanInsert
<1>3. last(h) = r /\ x = h /\ m[r] = ItemAt("CIRCLEQ", h, s, p)
      /\ (IF m[first(h)] = h THEN first(h) ELSE next(ItemAt("CIRCLEQ", h, s, p))) = f
  BY <1>1, <1>2, PlaceFound, QueueAssumption DEF Place, EndOf, HasBack, BackOf, ItemAt, Fore
<1>4. m2 = [[[[m EXCEPT ![next(e)] = x] EXCEPT ![prev(e)] = ItemAt("CIRCLEQ", h, s, p)]
      EXCEPT ![f] = e] EXCEPT ![r] = e]
  BY <1>3 DEF CIRCLEQ_INSERT_TAIL, Put
<1>5. BackOf("CIRCLEQ", h, s, p + 1) = ItemAt("CIRCLEQ", h, s, p)
  BY <1>1, <1>2, <1>3 DEF Place, BackOf, ItemAt, EndOf
<1>6. /\ IsMem(m2) /\ m2[next(e)] = x /\ m2[f] = e /\ m2[prev(e)] = ItemAt("CIRCLEQ", h, s, p)
      /\ m2[r] = e
      /\ \A c \in QueueCells : c \notin {next(e), prev(e), f, r} => m2[c] = m[c]
  BY <1>1, <1>2, <1>3, <1>4 DEF Place, IsMem
<1> QED  BY <1>1, <1>2, <1>5, <1>6, FourWrites

\* What the removal of the p-th item of the list s starts from: nothing else leads to it.
CanRemove(m, k, h, s, p) ==
    /\ h \in Heads /\ s \in Seq(Items) /\ Once(s) /\ p \in 1 .. Len(s)
    /\ IsMem(m) /\ Linked(m, k, h, s)
    /\ \A c \in Items : m[next(c)] = s[p] => p # 1 /\ c = s[p - 1]

\* The item e at its place, f and r the cells that lead to it, x what follows and b what is behind.
Gap(m, k, h, s, p, e, f, r, x, b) ==
    /\ f = Fore(h, s, p - 1) /\ r = Rear(h, s, p + 1) /\ x = ItemAt(k, h, s, p + 1) /\ b = BackOf(k,
       h, s, p)
    /\ e = s[p] /\ e \in Items /\ {f, r, next(e), prev(e)} \subseteq QueueCells
    /\ f # r /\ f # next(e) /\ f # prev(e) /\ r # next(e) /\ r # prev(e) /\ next(e) # prev(e)
    /\ m[f] = e /\ m[next(e)] = x /\ (HasBack(k, Len(s), p) => m[prev(e)] = b)
    /\ p < Len(s) => r = prev(x) /\ x \in Items /\ x # NULL /\ x \notin Heads
    /\ p = Len(s) => x = EndOf(k, h) /\ r = last(h)
    /\ p = 1 => f = first(h) /\ ItemAt(k, h, s, p - 1) = EndOf(k, h)
    /\ p # 1 => /\ f = next(s[p - 1]) /\ ItemAt(k, h, s, p - 1) = s[p - 1] /\ s[p - 1] \in Items
                /\ s[p - 1] \notin Heads /\ m[first(h)] # e /\ Before(m, e) = s[p - 1]

\* It finds the item.
LEMMA GapFound ==
    ASSUME NEW k, NEW m, NEW h, NEW s, NEW p, CanRemove(m, k, h, s, p)
    PROVE  \E e, f, r, x, b : Gap(m, k, h, s, p, e, f, r, x, b)
<1>1. /\ h \in Heads /\ s \in Seq(Items) /\ Once(s) /\ p \in 1 .. Len(s) /\ Len(s) \in Nat
      /\ IsMem(m) /\ Linked(m, k, h, s) /\ \A i \in 1 .. Len(s) : s[i] \in Items
  BY DEF CanRemove
<1>2. PICK e, f, r, x, b : /\ f = Fore(h, s, p - 1) /\ r = Rear(h, s, p + 1) /\ x = ItemAt(k, h, s, p + 1)
                           /\ b = BackOf(k, h, s, p) /\ e = s[p]
  OBVIOUS
<1>3. next(e) = Fore(h, s, p) /\ prev(e) = Rear(h, s, p) /\ e \in Items
  BY <1>1, <1>2 DEF Fore, Rear
<1>4. p - 1 \in 0 .. Len(s) /\ p \in 0 .. Len(s) /\ p + 1 \in 1 .. Len(s) + 1 /\ p \in 1 .. Len(s) + 1
      /\ p - 1 # p /\ p # p + 1 /\ (p - 1) + 1 = p
  BY <1>1
<1>5. {f, r, next(e), prev(e)} \subseteq QueueCells
  BY <1>1, <1>2, <1>3, <1>4, CellsDiffer
<1>6. f # r /\ f # next(e) /\ f # prev(e) /\ r # next(e) /\ r # prev(e) /\ next(e) # prev(e)
  BY <1>1, <1>2, <1>3, <1>4, CellsDiffer
<1>7. m[f] = e
  BY <1>1, <1>2, <1>4 DEF Linked, ItemAt
<1>8. m[next(e)] = x /\ (HasBack(k, Len(s), p) => m[prev(e)] = b)
  BY <1>1, <1>2, <1>3, <1>4 DEF Linked
<1>9. p < Len(s) => r = prev(x) /\ x \in Items /\ x # NULL /\ x \notin Heads
  BY <1>1, <1>2, QueueAssumption DEF ItemAt, Rear
<1>10. p = Len(s) => x = EndOf(k, h) /\ r = last(h)
  BY <1>1, <1>2 DEF ItemAt, Rear
<1>11. p = 1 => f = first(h) /\ ItemAt(k, h, s, p - 1) = EndOf(k, h)
  BY <1>2 DEF Fore, ItemAt
<1>12. ASSUME p # 1
       PROVE  /\ f = next(s[p - 1]) /\ ItemAt(k, h, s, p - 1) = s[p - 1] /\ s[p - 1] \in Items
              /\ s[p - 1] \notin Heads /\ m[first(h)] # e /\ Before(m, e) = s[p - 1]
  <2>1. p - 1 \in 1 .. Len(s) /\ 0 \in 0 .. Len(s) /\ 1 \in 1 .. Len(s) /\ 0 + 1 = 1
    BY <1>1, <1>12
  <2>2. f = next(s[p - 1]) /\ ItemAt(k, h, s, p - 1) = s[p - 1] /\ s[p - 1] \in Items
        /\ s[p - 1] \notin Heads
    BY <1>1, <1>2, <1>12, <2>1, QueueAssumption DEF Fore, ItemAt
  <2>3. m[first(h)] = s[1]
    BY <1>1, <2>1 DEF Linked, Fore, ItemAt
  <2>4. s[1] # e
    BY <1>1, <1>2, <1>12, <2>1 DEF Once
  <2>5. \A c \in Items : m[next(c)] = e => c = s[p - 1]
    BY <1>2, <1>12 DEF CanRemove
  <2>6. Before(m, e) = s[p - 1]
    BY <1>7, <2>2, <2>5 DEF Before
  <2> QED  BY <2>2, <2>3, <2>4, <2>6
<1> QED  BY <1>2, <1>3, <1>5, <1>6, <1>7, <1>8, <1>9, <1>10, <1>11, <1>12 DEF Gap

\* What the two writes of a removal come to.
LEMMA TwoWrites ==
    ASSUME NEW k, NEW h, NEW s, NEW p, NEW e, NEW m, NEW f, NEW r, NEW x, NEW b,
           Gap(m, k, h, s, p, e, f, r, x, b), NEW m2, IsMem(m2), m2[f] = x,
           HasBack(k, Len(s), p + 1) => m2[r] = b,
           \A c \in QueueCells : c \notin {f, r} => m2[c] = m[c]
    PROVE  RemovesFrom(m, m2, k, h, s, p)
  BY DEF RemovesFrom, Gap

\* What is freed matters no more.
LEMMA FreedRemoves ==
    ASSUME NEW k, NEW m, NEW h, NEW s, NEW p, CanRemove(m, k, h, s, p),
           NEW a, IsMem(a), RemovesFrom(m, a, k, h, s, p), NEW m2, m2 = Freed(a, s[p])
    PROVE  IsMem(m2) /\ RemovesFrom(m, m2, k, h, s, p) /\ m2[next(s[p])] = Junk
<1>1. PICK e, f, r, x, b : Gap(m, k, h, s, p, e, f, r, x, b)
  BY GapFound
<1>2. /\ IsMem(m2) /\ m2[next(e)] = Junk /\ e = s[p]
      /\ \A c \in QueueCells : c \notin {next(e), prev(e)} => m2[c] = a[c]
  BY <1>1 DEF Gap, Freed, IsMem
<1> QED  BY <1>1, <1>2 DEF RemovesFrom, Gap

\* LIST_REMOVE.
LEMMA ListRemove ==
    ASSUME NEW m, NEW h, NEW s, NEW p, CanRemove(m, "LIST", h, s, p),
           NEW m2, m2 = LIST_REMOVE(m, h, s[p])
    PROVE  IsMem(m2) /\ RemovesFrom(m, m2, "LIST", h, s, p)
<1>1. PICK e, f, r, x, b : Gap(m, "LIST", h, s, p, e, f, r, x, b)
  BY GapFound
<1>2. /\ s \in Seq(Items) /\ p \in 1 .. Len(s) /\ Len(s) \in Nat /\ IsMem(m) /\ h \in Heads /\ e = s[p]
  BY <1>1 DEF CanRemove, Gap
<1>3. m[next(e)] = x /\ m[prev(e)] = f /\ b = f /\ (x # NULL <=> p < Len(s)) /\ (x # NULL => prev(x) = r)
  BY <1>1, <1>2, QueueAssumption DEF Gap, EndOf, HasBack, BackOf
<1>4. m2 = [IF x # NULL THEN [m EXCEPT ![r] = f] ELSE m EXCEPT ![f] = x]
  BY <1>2, <1>3 DEF LIST_REMOVE, PutIf, Put
<1>5. /\ IsMem(m2) /\ m2[f] = x
      /\ p < Len(s) => m2[r] = b
      /\ \A c \in QueueCells : c \notin {f, r} => m2[c] = m[c]
  BY <1>1, <1>2, <1>3, <1>4 DEF Gap, IsMem
<1> QED  BY <1>1, <1>2, <1>3, <1>5, TwoWrites DEF HasBack

\* SLIST_REMOVE_HEAD.
LEMMA SlistRemoveHead ==
    ASSUME NEW m, NEW h, NEW s, NEW p, CanRemove(m, "SLIST", h, s, p), p = 1,
           NEW m2, m2 = SLIST_REMOVE_HEAD(m, h)
    PROVE  IsMem(m2) /\ RemovesFrom(m, m2, "SLIST", h, s, p)
<1>1. PICK e, f, r, x, b : Gap(m, "SLIST", h, s, p, e, f, r, x, b)
  BY GapFound
<1>2. /\ s \in Seq(Items) /\ p \in 1 .. Len(s) /\ Len(s) \in Nat /\ IsMem(m) /\ h \in Heads /\ e = s[p]
  BY <1>1 DEF CanRemove, Gap
<1>3. m[next(e)] = x /\ first(h) = f /\ m[f] = e
  BY <1>1, <1>2, QueueAssumption DEF Gap, EndOf, HasBack, BackOf
<1>4. m2 = [m EXCEPT ![f] = x]
  BY <1>2, <1>3 DEF SLIST_REMOVE_HEAD, Put
<1>5. /\ IsMem(m2) /\ m2[f] = x
      /\ TRUE
      /\ \A c \in QueueCells : c \notin {f, r} => m2[c] = m[c]
  BY <1>1, <1>2, <1>3, <1>4 DEF Gap, IsMem
<1> QED  BY <1>1, <1>2, <1>3, <1>5, TwoWrites DEF HasBack

\* SLIST_REMOVE.
LEMMA SlistRemove ==
    ASSUME NEW m, NEW h, NEW s, NEW p, CanRemove(m, "SLIST", h, s, p),
           NEW m2, m2 = SLIST_REMOVE(m, h, s[p])
    PROVE  IsMem(m2) /\ RemovesFrom(m, m2, "SLIST", h, s, p)
<1>1. PICK e, f, r, x, b : Gap(m, "SLIST", h, s, p, e, f, r, x, b)
  BY GapFound
<1>2. /\ s \in Seq(Items) /\ p \in 1 .. Len(s) /\ Len(s) \in Nat /\ IsMem(m) /\ h \in Heads /\ e = s[p]
  BY <1>1 DEF CanRemove, Gap
<1>3. m[next(e)] = x /\ m[f] = e /\ (IF m[first(h)] = e THEN first(h) ELSE next(Before(m, e))) = f
  BY <1>1, <1>2, QueueAssumption DEF Gap, EndOf, HasBack, BackOf
<1>4. m2 = [m EXCEPT ![f] = x]
  BY <1>2, <1>3 DEF SLIST_REMOVE, SLIST_REMOVE_HEAD, Put
<1>5. /\ IsMem(m2) /\ m2[f] = x
      /\ TRUE
      /\ \A c \in QueueCells : c \notin {f, r} => m2[c] = m[c]
  BY <1>1, <1>2, <1>3, <1>4 DEF Gap, IsMem
<1> QED  BY <1>1, <1>2, <1>3, <1>5, TwoWrites DEF HasBack

\* STAILQ_REMOVE_HEAD and SIMPLEQ_REMOVE_HEAD.
LEMMA StailqRemoveHead ==
    ASSUME NEW k \in {"STAILQ", "SIMPLEQ"}, NEW m, NEW h, NEW s, NEW p, CanRemove(m, k, h, s, p), p = 1,
           NEW m2, m2 = STAILQ_REMOVE_HEAD(m, h)
    PROVE  IsMem(m2) /\ RemovesFrom(m, m2, k, h, s, p)
<1>1. PICK e, f, r, x, b : Gap(m, k, h, s, p, e, f, r, x, b)
  BY GapFound
<1>2. /\ s \in Seq(Items) /\ p \in 1 .. Len(s) /\ Len(s) \in Nat /\ IsMem(m) /\ h \in Heads /\ e = s[p]
  BY <1>1 DEF CanRemove, Gap
<1>3. m[next(e)] = x /\ first(h) = f /\ m[f] = e /\ b = f /\ (x = NULL <=> p = Len(s))
      /\ (x = NULL => last(h) = r)
  <2>1. m[next(e)] = x /\ first(h) = f /\ m[f] = e /\ b = f
    BY <1>1 DEF Gap, BackOf
  <2>2. (x = NULL <=> p = Len(s)) /\ (x = NULL => last(h) = r)
    <3>1. EndOf(k, h) = NULL
      BY DEF EndOf
    <3>2. (p = Len(s) => x = NULL /\ r = last(h)) /\ (p < Len(s) => x # NULL /\ p # Len(s))
      BY <1>1, <1>2, <3>1 DEF Gap
    <3>3. \A n \in Nat : \A i \in 1 .. n : i < n \/ i = n
      OBVIOUS
    <3>4. p < Len(s) \/ p = Len(s)
      BY <1>2, <3>3, Zenon
    <3> QED  BY <3>2, <3>4
  <2> QED  BY <2>1, <2>2
<1>4. m2 = IF x = NULL THEN [[m EXCEPT ![f] = x] EXCEPT ![r] = f] ELSE [m EXCEPT ![f] = x]
  BY <1>2, <1>3 DEF STAILQ_REMOVE_HEAD, Put, PutIf
<1>5. /\ IsMem(m2) /\ m2[f] = x
      /\ p = Len(s) => m2[r] = b
      /\ \A c \in QueueCells : c \notin {f, r} => m2[c] = m[c]
  BY <1>1, <1>2, <1>3, <1>4 DEF Gap, IsMem
<1>6. HasBack(k, Len(s), p + 1) => p = Len(s)
  BY <1>2 DEF HasBack
<1> QED  BY <1>1, <1>3, <1>5, <1>6, TwoWrites

\* STAILQ_REMOVE and SIMPLEQ_REMOVE.
LEMMA StailqRemove ==
    ASSUME NEW k \in {"STAILQ", "SIMPLEQ"}, NEW m, NEW h, NEW s, NEW p, CanRemove(m, k, h, s, p),
           NEW m2, m2 = STAILQ_REMOVE(m, h, s[p])
    PROVE  IsMem(m2) /\ RemovesFrom(m, m2, k, h, s, p)
<1>1. PICK e, f, r, x, b : Gap(m, k, h, s, p, e, f, r, x, b)
  BY GapFound
<1>2. /\ s \in Seq(Items) /\ p \in 1 .. Len(s) /\ Len(s) \in Nat /\ IsMem(m) /\ h \in Heads /\ e = s[p]
  BY <1>1 DEF CanRemove, Gap
<1>3. m[next(e)] = x /\ m[f] = e /\ b = f /\ (x = NULL <=> p = Len(s)) /\ (x = NULL => last(h) = r)
      /\ (IF m[first(h)] = e THEN first(h) ELSE next(Before(m, e))) = f
  BY <1>1, <1>2, QueueAssumption DEF Gap, EndOf, HasBack, BackOf
<1>4. m2 = IF x = NULL THEN [[m EXCEPT ![f] = x] EXCEPT ![r] = f] ELSE [m EXCEPT ![f] = x]
  BY <1>2, <1>3 DEF STAILQ_REMOVE, STAILQ_REMOVE_HEAD, Put, PutIf
<1>5. /\ IsMem(m2) /\ m2[f] = x
      /\ p = Len(s) => m2[r] = b
      /\ \A c \in QueueCells : c \notin {f, r} => m2[c] = m[c]
  BY <1>1, <1>2, <1>3, <1>4 DEF Gap, IsMem
<1> QED  BY <1>1, <1>2, <1>3, <1>5, TwoWrites DEF HasBack

\* TAILQ_REMOVE.
LEMMA TailqRemove ==
    ASSUME NEW m, NEW h, NEW s, NEW p, CanRemove(m, "TAILQ", h, s, p),
           NEW m2, m2 = TAILQ_REMOVE(m, h, s[p])
    PROVE  IsMem(m2) /\ RemovesFrom(m, m2, "TAILQ", h, s, p)
<1>1. PICK e, f, r, x, b : Gap(m, "TAILQ", h, s, p, e, f, r, x, b)
  BY GapFound
<1>2. /\ s \in Seq(Items) /\ p \in 1 .. Len(s) /\ Len(s) \in Nat /\ IsMem(m) /\ h \in Heads /\ e = s[p]
  BY <1>1 DEF CanRemove, Gap
<1>3. m[next(e)] = x /\ m[prev(e)] = f /\ b = f /\ (IF x # NULL THEN prev(x) ELSE last(h)) = r
  BY <1>1, <1>2, QueueAssumption DEF Gap, EndOf, HasBack, BackOf
<1>4. m2 = [[m EXCEPT ![r] = f] EXCEPT ![f] = x]
  BY <1>2, <1>3 DEF TAILQ_REMOVE, TailqFollow, Put
<1>5. /\ IsMem(m2) /\ m2[f] = x
      /\ m2[r] = b
      /\ \A c \in QueueCells : c \notin {f, r} => m2[c] = m[c]
  BY <1>1, <1>2, <1>3, <1>4 DEF Gap, IsMem
<1> QED  BY <1>1, <1>2, <1>3, <1>5, TwoWrites

\* CIRCLEQ_REMOVE.
LEMMA CircleqRemove ==
    ASSUME NEW m, NEW h, NEW s, NEW p, CanRemove(m, "CIRCLEQ", h, s, p),
           NEW m2, m2 = CIRCLEQ_REMOVE(m, h, s[p])
    PROVE  IsMem(m2) /\ RemovesFrom(m, m2, "CIRCLEQ", h, s, p)
<1>1. PICK e, f, r, x, b : Gap(m, "CIRCLEQ", h, s, p, e, f, r, x, b)
  BY GapFound
<1>2. /\ s \in Seq(Items) /\ p \in 1 .. Len(s) /\ Len(s) \in Nat /\ IsMem(m) /\ h \in Heads /\ e = s[p]
  BY <1>1 DEF CanRemove, Gap
<1>3. m[next(e)] = x /\ m[prev(e)] = b /\ PrevOf(h, x) = r /\ NextOf(h, b) = f
  BY <1>1, <1>2, QueueAssumption DEF Gap, EndOf, HasBack, BackOf, PrevOf, NextOf
<1>4. m2 = [[m EXCEPT ![r] = b] EXCEPT ![f] = x]
  <2> DEFINE a == [m EXCEPT ![r] = b]
  <2>1. a[prev(e)] = b /\ a[next(e)] = x
    BY <1>1, <1>2, <1>3 DEF Gap, IsMem
  <2>2. m2 = Put(a, NextOf(h, a[prev(e)]), a[next(e)])
    BY <1>2, <1>3 DEF CIRCLEQ_REMOVE, Put
  <2> QED  BY <1>3, <2>1, <2>2 DEF Put
<1>5. /\ IsMem(m2) /\ m2[f] = x
      /\ m2[r] = b
      /\ \A c \in QueueCells : c \notin {f, r} => m2[c] = m[c]
  BY <1>1, <1>2, <1>3, <1>4 DEF Gap, IsMem
<1> QED  BY <1>1, <1>2, <1>3, <1>5, TwoWrites

\* Lists of two heads that share no item.
Apart(x, v, h, s) == x # h /\ \A i \in 1 .. Len(v), j \in 1 .. Len(s) : v[i] # s[j]

\* They share no cell.
LEMMA CellsApart ==
    ASSUME NEW x, NEW v, NEW h, NEW s, Apart(x, v, h, s)
    PROVE  /\ \A i \in 0 .. Len(v), j \in 0 .. Len(s) : Fore(x, v, i) # Fore(h, s, j)
           /\ \A i \in 1 .. Len(v) + 1, j \in 1 .. Len(s) + 1 : Rear(x, v, i) # Rear(h, s, j)
           /\ \A i \in 0 .. Len(v), j \in 1 .. Len(s) + 1 : Fore(x, v, i) # Rear(h, s, j)
           /\ \A i \in 1 .. Len(v) + 1, j \in 0 .. Len(s) : Rear(x, v, i) # Fore(h, s, j)
<1>1. \A i \in 0 .. Len(v), j \in 0 .. Len(s) : Fore(x, v, i) # Fore(h, s, j)
  BY DEF Apart, Fore, first, next
<1>2. \A i \in 1 .. Len(v) + 1, j \in 1 .. Len(s) + 1 : Rear(x, v, i) # Rear(h, s, j)
  BY DEF Apart, Rear, last, prev
<1>3. \A i \in 0 .. Len(v), j \in 1 .. Len(s) + 1 : Fore(x, v, i) # Rear(h, s, j)
  BY DEF Fore, Rear, first, next, last, prev
<1>4. \A i \in 1 .. Len(v) + 1, j \in 0 .. Len(s) : Rear(x, v, i) # Fore(h, s, j)
  BY DEF Fore, Rear, first, next, last, prev
<1> QED  BY <1>1, <1>2, <1>3, <1>4

\* A list none of whose cells is written stays linked.
LEMMA FrameLinks ==
    ASSUME NEW k, NEW x \in Heads, NEW v \in Seq(Items), Once(v), NEW m, NEW m2, Linked(m, k, x, v),
           \A i \in 0 .. Len(v) : m2[Fore(x, v, i)] = m[Fore(x, v, i)],
           \A i \in 1 .. Len(v) + 1 : m2[Rear(x, v, i)] = m[Rear(x, v, i)]
    PROVE  Linked(m2, k, x, v)
  BY DEF Linked

\* An insertion leaves the lists of the other heads alone.
LEMMA InsertApart ==
    ASSUME NEW k, NEW m, NEW h, NEW s, NEW p, NEW e, CanInsert(m, k, h, s, p, e),
           NEW m2, InsertsInto(m, m2, k, h, s, p, e),
           NEW x \in Heads, NEW v \in Seq(Items), Once(v), Linked(m, k, x, v), Apart(x, v, h, s),
           \A i \in 1 .. Len(v) : v[i] # e
    PROVE  Linked(m2, k, x, v)
<1>1. p \in 0 .. Len(s) /\ p + 1 \in 1 .. Len(s) + 1 /\ e \in Items
  BY DEF CanInsert
<1>2. \A i \in 0 .. Len(v) : m2[Fore(x, v, i)] = m[Fore(x, v, i)]
  <2> TAKE i \in 0 .. Len(v)
  <2>1. Fore(x, v, i) \in QueueCells
    BY CellsDiffer
  <2>2. Fore(x, v, i) \notin {next(e), prev(e), Fore(h, s, p), Rear(h, s, p + 1)}
    BY <1>1, CellsApart, SpareCells
  <2> QED  BY <2>1, <2>2 DEF InsertsInto
<1>3. \A i \in 1 .. Len(v) + 1 : m2[Rear(x, v, i)] = m[Rear(x, v, i)]
  <2> TAKE i \in 1 .. Len(v) + 1
  <2>1. Rear(x, v, i) \in QueueCells
    BY CellsDiffer
  <2>2. Rear(x, v, i) \notin {next(e), prev(e), Fore(h, s, p), Rear(h, s, p + 1)}
    BY <1>1, CellsApart, SpareCells
  <2> QED  BY <2>1, <2>2 DEF InsertsInto
<1> QED  BY <1>2, <1>3, FrameLinks

\* So does a removal.
LEMMA RemoveApart ==
    ASSUME NEW k, NEW m, NEW h, NEW s, NEW p, CanRemove(m, k, h, s, p),
           NEW m2, RemovesFrom(m, m2, k, h, s, p),
           NEW x \in Heads, NEW v \in Seq(Items), Once(v), Linked(m, k, x, v), Apart(x, v, h, s)
    PROVE  Linked(m2, k, x, v)
<1>1. p \in 1 .. Len(s) /\ p \in 0 .. Len(s) /\ p - 1 \in 0 .. Len(s) /\ p + 1 \in 1 .. Len(s) + 1
      /\ p \in 1 .. Len(s) + 1
  BY DEF CanRemove
<1>2. next(s[p]) = Fore(h, s, p) /\ prev(s[p]) = Rear(h, s, p)
  BY DEF Fore, Rear, CanRemove
<1>3. \A i \in 0 .. Len(v) : m2[Fore(x, v, i)] = m[Fore(x, v, i)]
  <2> TAKE i \in 0 .. Len(v)
  <2>1. Fore(x, v, i) \in QueueCells
    BY CellsDiffer
  <2>2. Fore(x, v, i) \notin {Fore(h, s, p), Rear(h, s, p), Fore(h, s, p - 1), Rear(h, s, p + 1)}
    BY <1>1, CellsApart
  <2> QED  BY <1>2, <2>1, <2>2 DEF RemovesFrom
<1>4. \A i \in 1 .. Len(v) + 1 : m2[Rear(x, v, i)] = m[Rear(x, v, i)]
  <2> TAKE i \in 1 .. Len(v) + 1
  <2>1. Rear(x, v, i) \in QueueCells
    BY CellsDiffer
  <2>2. Rear(x, v, i) \notin {Fore(h, s, p), Rear(h, s, p), Fore(h, s, p - 1), Rear(h, s, p + 1)}
    BY <1>1, CellsApart
  <2> QED  BY <1>2, <2>1, <2>2 DEF RemovesFrom
<1> QED  BY <1>3, <1>4, FrameLinks

\* The cells of a concatenation of s and t: the end of h leads on to the items of g, g is empty.
JoinsInto(m, m2, k, h, s, g, t) ==
    \A c \in QueueCells :
        /\ c = Fore(h, s, Len(s)) => m2[c] = t[1]
        /\ c = last(h) => m2[c] = next(t[Len(t)])
        /\ c = prev(t[1]) /\ k = "TAILQ" => m2[c] = Fore(h, s, Len(s))
        /\ c = first(g) => m2[c] = NULL
        /\ c = last(g) => m2[c] = first(g)
        /\ c \notin {Fore(h, s, Len(s)), last(h), prev(t[1]), first(g), last(g)} => m2[c] = m[c]

\* What a concatenation starts from.
CanJoin(m, k, h, s, g, t) ==
    /\ k \in {"STAILQ", "TAILQ"} /\ h \in Heads /\ g \in Heads /\ s \in Seq(Items) /\ t \in Seq(Items)
    /\ Once(s) /\ Once(t) /\ Apart(h, s, g, t) /\ IsMem(m) /\ Linked(m, k, h, s) /\ Linked(m, k, g, t)

\* What its macros read.
LEMMA JoinReads ==
    ASSUME NEW m, NEW k, NEW h, NEW s, NEW g, NEW t, CanJoin(m, k, h, s, g, t)
    PROVE  /\ m[first(g)] = IF Len(t) = 0 THEN NULL ELSE t[1]
           /\ m[last(h)] = Fore(h, s, Len(s))
           /\ Len(t) # 0 => t[1] \in Items /\ t[1] # NULL /\ m[last(g)] = next(t[Len(t)])
<1>1. /\ k \in {"STAILQ", "TAILQ"} /\ Len(s) \in Nat /\ Len(t) \in Nat
         /\ \A i \in 1 .. Len(t) : t[i] \in Items
      /\ Linked(m, k, h, s) /\ Linked(m, k, g, t)
  BY DEF CanJoin
<1>2. m[first(g)] = ItemAt(k, g, t, 1)
  BY <1>1 DEF Linked, Fore
<1>3. /\ HasBack(k, Len(s), Len(s) + 1) /\ HasBack(k, Len(t), Len(t) + 1)
      /\ Rear(h, s, Len(s) + 1) = last(h) /\ Rear(g, t, Len(t) + 1) = last(g)
      /\ (Len(s) + 1) - 1 = Len(s) /\ (Len(t) + 1) - 1 = Len(t)
  BY <1>1 DEF HasBack, Rear
<1>4. m[last(h)] = BackOf(k, h, s, Len(s) + 1) /\ m[last(g)] = BackOf(k, g, t, Len(t) + 1)
  BY <1>1, <1>3 DEF Linked
<1>5. m[last(h)] = Fore(h, s, Len(s)) /\ m[last(g)] = Fore(g, t, Len(t))
  BY <1>1, <1>3, <1>4 DEF BackOf
<1>6. m[first(g)] = IF Len(t) = 0 THEN NULL ELSE t[1]
  BY <1>1, <1>2 DEF ItemAt, EndOf
<1>7. Len(t) # 0 => t[1] \in Items /\ t[1] # NULL /\ m[last(g)] = next(t[Len(t)])
  BY <1>1, <1>5, QueueAssumption DEF Fore
<1> QED  BY <1>5, <1>6, <1>7

\* Where they write.
LEMMA JoinCells ==
    ASSUME NEW m, NEW k, NEW h, NEW s, NEW g, NEW t, CanJoin(m, k, h, s, g, t), Len(t) # 0
    PROVE  /\ {Fore(h, s, Len(s)), last(h), prev(t[1]), first(g), last(g)} \subseteq QueueCells
           /\ Fore(h, s, Len(s)) \notin {last(h), prev(t[1]), first(g), last(g)}
           /\ last(h) \notin {prev(t[1]), first(g), last(g)}
           /\ prev(t[1]) \notin {first(g), last(g)} /\ first(g) # last(g)
<1>1. /\ h \in Heads /\ g \in Heads /\ h # g /\ Len(s) \in Nat /\ Len(t) \in Nat /\ s \in Seq(Items)
         /\ Once(s)
      /\ t[1] \in Items
  BY DEF CanJoin, Apart
<1>2. Fore(h, s, Len(s)) \in QueueCells
  BY <1>1, CellsDiffer
<1>3. {last(h), prev(t[1]), first(g), last(g)} \subseteq QueueCells
  BY <1>1 DEF QueueCells
<1>4. Fore(h, s, Len(s)) \notin {last(h), prev(t[1]), first(g), last(g)}
  <2>1. Len(s) = 0 \/ s[Len(s)] \in Items
    BY <1>1
  <2> QED  BY <1>1, <2>1, QueueAssumption DEF Fore, first, next, last, prev
<1>5. last(h) \notin {prev(t[1]), first(g), last(g)}
  BY <1>1 DEF first, last, prev
<1>6. prev(t[1]) \notin {first(g), last(g)} /\ first(g) # last(g)
  BY <1>1 DEF first, last, prev
<1> QED  BY <1>2, <1>3, <1>4, <1>5, <1>6

\* STAILQ_CONCAT.
LEMMA StailqConcat ==
    ASSUME NEW m, NEW h, NEW s, NEW g, NEW t, CanJoin(m, "STAILQ", h, s, g, t), Len(t) # 0,
           NEW m2, m2 = STAILQ_CONCAT(m, h, g)
    PROVE  IsMem(m2) /\ JoinsInto(m, m2, "STAILQ", h, s, g, t)
<1>1. PICK f, l, r, a, b, x, y :
         f = Fore(h, s, Len(s)) /\ l = last(h) /\ r = prev(t[1]) /\ a = first(g) /\ b = last(g)
         /\ x = t[1]
         /\ y = next(t[Len(t)])
  OBVIOUS
<1>2. /\ {f, l, r, a, b} \subseteq QueueCells /\ IsMem(m)
      /\ f \notin {l, r, a, b} /\ l \notin {r, a, b} /\ r \notin {a, b} /\ a # b
  BY <1>1, JoinCells DEF CanJoin
<1>3. m2 = [[[[m EXCEPT ![f] = x] EXCEPT ![l] = y] EXCEPT ![a] = NULL] EXCEPT ![b] = a]
  <2>1. m[a] = x /\ x # NULL /\ m[l] = f /\ m[b] = y
    BY <1>1, JoinReads
  <2> QED  BY <1>1, <2>1 DEF STAILQ_CONCAT, STAILQ_INIT, Put
<1>4. /\ IsMem(m2) /\ m2[f] = x /\ m2[l] = y /\ m2[a] = NULL /\ m2[b] = a
      /\ \A c \in QueueCells : c \notin {f, l, r, a, b} => m2[c] = m[c]
  BY <1>2, <1>3 DEF IsMem
<1> QED  BY <1>1, <1>2, <1>4 DEF JoinsInto

\* TAILQ_CONCAT.
LEMMA TailqConcat ==
    ASSUME NEW m, NEW h, NEW s, NEW g, NEW t, CanJoin(m, "TAILQ", h, s, g, t), Len(t) # 0,
           NEW m2, m2 = TAILQ_CONCAT(m, h, g)
    PROVE  IsMem(m2) /\ JoinsInto(m, m2, "TAILQ", h, s, g, t)
<1>1. PICK f, l, r, a, b, x, y :
         f = Fore(h, s, Len(s)) /\ l = last(h) /\ r = prev(t[1]) /\ a = first(g) /\ b = last(g)
         /\ x = t[1]
         /\ y = next(t[Len(t)])
  OBVIOUS
<1>2. /\ {f, l, r, a, b} \subseteq QueueCells /\ IsMem(m)
      /\ f \notin {l, r, a, b} /\ l \notin {r, a, b} /\ r \notin {a, b} /\ a # b
  BY <1>1, JoinCells DEF CanJoin
<1>3. m2 = [[[[[m EXCEPT ![f] = x] EXCEPT ![r] = f] EXCEPT ![l] = y] EXCEPT ![a] = NULL] EXCEPT ![b] = a]
  <2>1. m[a] = x /\ x # NULL /\ m[l] = f /\ m[b] = y
    BY <1>1, JoinReads
  <2> QED  BY <1>1, <2>1 DEF TAILQ_CONCAT, TAILQ_INIT
<1>4. /\ IsMem(m2) /\ m2[f] = x /\ m2[l] = y /\ m2[r] = f /\ m2[a] = NULL /\ m2[b] = a
      /\ \A c \in QueueCells : c \notin {f, l, r, a, b} => m2[c] = m[c]
  BY <1>2, <1>3 DEF IsMem
<1> QED  BY <1>1, <1>2, <1>4 DEF JoinsInto

\* A concatenation leaves the lists of the other heads alone.
LEMMA JoinApart ==
    ASSUME NEW k, NEW m, NEW h, NEW s, NEW g, NEW t, CanJoin(m, k, h, s, g, t), Len(t) # 0,
           NEW m2, JoinsInto(m, m2, k, h, s, g, t),
           NEW x \in Heads, NEW v \in Seq(Items), Once(v), Linked(m, k, x, v), Apart(x, v, h, s),
           Apart(x, v, g, t)
    PROVE  Linked(m2, k, x, v)
<1>1. Len(s) \in 0 .. Len(s) /\ Len(s) + 1 \in 1 .. Len(s) + 1 /\ 1 \in 1 .. Len(t) + 1
      /\ 0 \in 0 .. Len(t)
      /\ Len(t) + 1 \in 1 .. Len(t) + 1
  BY DEF CanJoin
<1>2. /\ last(h) = Rear(h, s, Len(s) + 1) /\ prev(t[1]) = Rear(g, t, 1) /\ first(g) = Fore(g, t, 0)
      /\ last(g) = Rear(g, t, Len(t) + 1)
  BY <1>1 DEF Fore, Rear, CanJoin
<1>3. \A i \in 0 .. Len(v) : m2[Fore(x, v, i)] = m[Fore(x, v, i)]
  <2> TAKE i \in 0 .. Len(v)
  <2>1. Fore(x, v, i) \in QueueCells
    BY CellsDiffer
  <2>2. Fore(x, v, i) \notin {Fore(h, s, Len(s)), Rear(h, s, Len(s) + 1), Rear(g, t, 1), Fore(g, t,
        0), Rear(g, t, Len(t) + 1)}
    BY <1>1, CellsApart
  <2> QED  BY <1>2, <2>1, <2>2 DEF JoinsInto
<1>4. \A i \in 1 .. Len(v) + 1 : m2[Rear(x, v, i)] = m[Rear(x, v, i)]
  <2> TAKE i \in 1 .. Len(v) + 1
  <2>1. Rear(x, v, i) \in QueueCells
    BY CellsDiffer
  <2>2. Rear(x, v, i) \notin {Fore(h, s, Len(s)), Rear(h, s, Len(s) + 1), Rear(g, t, 1), Fore(g, t,
        0), Rear(g, t, Len(t) + 1)}
    BY <1>1, CellsApart
  <2> QED  BY <1>2, <2>1, <2>2 DEF JoinsInto
<1> QED  BY <1>3, <1>4, FrameLinks

\* The cells of the concatenation u.
Joined(s, t, u) ==
    /\ u \in Seq(Items) /\ Len(u) = Len(s) + Len(t)
    /\ \A i \in 1 .. Len(s) : u[i] = s[i]
    /\ \A j \in 1 .. Len(t) : u[Len(s) + j] = t[j]

\* A concatenation links the concatenated list and an empty one.
LEMMA JoinLinks ==
    ASSUME NEW k, NEW m, NEW h, NEW s, NEW g, NEW t, CanJoin(m, k, h, s, g, t), Len(t) # 0,
           NEW m2, JoinsInto(m, m2, k, h, s, g, t), NEW u, Joined(s, t, u)
    PROVE  Linked(m2, k, h, u) /\ Linked(m2, k, g, <<>>)
<1> DEFINE n == Len(s)
           l == Len(t)
<1>1. /\ k \in {"STAILQ", "TAILQ"} /\ h \in Heads /\ g \in Heads /\ s \in Seq(Items) /\ t \in Seq(Items)
      /\ Once(s) /\ Once(t) /\ Apart(h, s, g, t) /\ Linked(m, k, h, s) /\ Linked(m, k, g, t)
      /\ n \in Nat /\ l \in Nat /\ l # 0 /\ u \in Seq(Items) /\ Len(u) = n + l
  BY DEF CanJoin, Joined
<1>2. /\ {Fore(h, s, n), last(h), prev(t[1]), first(g), last(g)} \subseteq QueueCells
      /\ m2[Fore(h, s, n)] = t[1] /\ m2[last(h)] = next(t[l])
      /\ (k = "TAILQ" => m2[prev(t[1])] = Fore(h, s, n))
      /\ m2[first(g)] = NULL /\ m2[last(g)] = first(g)
  BY JoinCells DEF JoinsInto
<1>3. Linked(m2, k, g, <<>>)
  <2>1. Len(<<>>) = 0 /\ Fore(g, <<>>, 0) = first(g) /\ Rear(g, <<>>, 1) = last(g)
        /\ ItemAt(k, g, <<>>, 1) = NULL /\ BackOf(k, g, <<>>, 1) = first(g)
    BY <1>1 DEF Fore, Rear, ItemAt, BackOf, EndOf
  <2> QED  BY <1>2, <2>1 DEF Linked
<1>4. \A i \in 0 .. n - 1 : m2[Fore(h, s, i)] = ItemAt(k, h, s, i + 1)
  <2> SUFFICES ASSUME NEW i \in 0 .. n - 1 PROVE m2[Fore(h, s, i)] = ItemAt(k, h, s, i + 1)
    OBVIOUS
  <2>1. i \in 0 .. n /\ n \in 0 .. n /\ i # n /\ n + 1 \in 1 .. n + 1 /\ 0 \in 0 .. l
        /\ 1 \in 1 .. l + 1 /\ l + 1 \in 1 .. l + 1
    BY <1>1
  <2>2. /\ last(h) = Rear(h, s, n + 1) /\ prev(t[1]) = Rear(g, t, 1) /\ first(g) = Fore(g, t, 0)
        /\ last(g) = Rear(g, t, l + 1)
    BY <1>1 DEF Fore, Rear
  <2>3. Fore(h, s, i) \in QueueCells /\ Fore(h, s, i) \notin {Fore(h, s, n), Rear(h, s, n + 1)}
    BY <1>1, <2>1, CellsDiffer
  <2>4. Fore(h, s, i) \notin {Rear(g, t, 1), Fore(g, t, 0), Rear(g, t, l + 1)}
    BY <1>1, <2>1, CellsApart
  <2>5. m2[Fore(h, s, i)] = m[Fore(h, s, i)]
    BY <2>2, <2>3, <2>4 DEF JoinsInto
  <2> QED  BY <1>1, <2>1, <2>5 DEF Linked
<1>5. \A j \in 1 .. l : m2[Fore(g, t, j)] = ItemAt(k, g, t, j + 1)
  <2> SUFFICES ASSUME NEW j \in 1 .. l PROVE m2[Fore(g, t, j)] = ItemAt(k, g, t, j + 1)
    OBVIOUS
  <2>1. j \in 0 .. l /\ j # 0 /\ n \in 0 .. n /\ n + 1 \in 1 .. n + 1 /\ 0 \in 0 .. l
        /\ 1 \in 1 .. l + 1 /\ l + 1 \in 1 .. l + 1
    BY <1>1
  <2>2. /\ last(h) = Rear(h, s, n + 1) /\ prev(t[1]) = Rear(g, t, 1) /\ first(g) = Fore(g, t, 0)
        /\ last(g) = Rear(g, t, l + 1)
    BY <1>1 DEF Fore, Rear
  <2>3. Fore(g, t, j) \in QueueCells /\ Fore(g, t, j) \notin {Rear(g, t, 1), Fore(g, t, 0), Rear(g, t,
        l + 1)}
    BY <1>1, <2>1, CellsDiffer
  <2>4. Fore(g, t, j) \notin {Fore(h, s, n), Rear(h, s, n + 1)}
    BY <1>1, <2>1, CellsApart
  <2>5. m2[Fore(g, t, j)] = m[Fore(g, t, j)]
    BY <2>2, <2>3, <2>4 DEF JoinsInto
  <2> QED  BY <1>1, <2>1, <2>5 DEF Linked
<1>6. ASSUME k = "TAILQ" PROVE \A i \in 1 .. n : m2[prev(s[i])] = Fore(h, s, i - 1)
  <2> SUFFICES ASSUME NEW i \in 1 .. n PROVE m2[Rear(h, s, i)] = Fore(h, s, i - 1)
    BY <1>1 DEF Rear
  <2>1. i \in 1 .. n + 1 /\ i # n + 1 /\ n \in 0 .. n /\ n + 1 \in 1 .. n + 1 /\ 0 \in 0 .. l
        /\ 1 \in 1 .. l + 1 /\ l + 1 \in 1 .. l + 1
    BY <1>1
  <2>2. /\ last(h) = Rear(h, s, n + 1) /\ prev(t[1]) = Rear(g, t, 1) /\ first(g) = Fore(g, t, 0)
        /\ last(g) = Rear(g, t, l + 1)
    BY <1>1 DEF Fore, Rear
  <2>3. Rear(h, s, i) \in QueueCells /\ Rear(h, s, i) \notin {Fore(h, s, n), Rear(h, s, n + 1)}
    BY <1>1, <2>1, CellsDiffer
  <2>4. Rear(h, s, i) \notin {Rear(g, t, 1), Fore(g, t, 0), Rear(g, t, l + 1)}
    BY <1>1, <2>1, CellsApart
  <2>5. m2[Rear(h, s, i)] = m[Rear(h, s, i)]
    BY <2>2, <2>3, <2>4 DEF JoinsInto
  <2> QED  BY <1>1, <1>6, <2>1, <2>5 DEF Linked, HasBack, BackOf
<1>7. ASSUME k = "TAILQ" PROVE \A j \in 2 .. l : m2[prev(t[j])] = next(t[j - 1])
  <2> SUFFICES ASSUME NEW j \in 2 .. l PROVE m2[Rear(g, t, j)] = Fore(g, t, j - 1)
    BY <1>1 DEF Rear, Fore
  <2>1. j \in 1 .. l + 1 /\ j # 1 /\ j # l + 1 /\ n \in 0 .. n /\ n + 1 \in 1 .. n + 1
        /\ 0 \in 0 .. l /\ 1 \in 1 .. l + 1 /\ l + 1 \in 1 .. l + 1
    BY <1>1
  <2>2. /\ last(h) = Rear(h, s, n + 1) /\ prev(t[1]) = Rear(g, t, 1) /\ first(g) = Fore(g, t, 0)
        /\ last(g) = Rear(g, t, l + 1)
    BY <1>1 DEF Fore, Rear
  <2>3. Rear(g, t, j) \in QueueCells /\ Rear(g, t, j) \notin {Rear(g, t, 1), Fore(g, t, 0), Rear(g, t,
        l + 1)}
    BY <1>1, <2>1, CellsDiffer
  <2>4. Rear(g, t, j) \notin {Fore(h, s, n), Rear(h, s, n + 1)}
    BY <1>1, <2>1, CellsApart
  <2>5. m2[Rear(g, t, j)] = m[Rear(g, t, j)]
    BY <2>2, <2>3, <2>4 DEF JoinsInto
  <2> QED  BY <1>1, <1>7, <2>1, <2>5 DEF Linked, HasBack, BackOf
<1>8. \A i \in 0 .. n + l : m2[Fore(h, u, i)] = ItemAt(k, h, u, i + 1)
  <2> SUFFICES ASSUME NEW i \in 0 .. n + l PROVE m2[Fore(h, u, i)] = ItemAt(k, h, u, i + 1)
    OBVIOUS
  <2>1. CASE i < n
    <3>1. i \in 0 .. n - 1 /\ i + 1 \in 1 .. n /\ i + 1 \in 1 .. Len(u) /\ (i # 0 => i \in 1 .. n)
      BY <1>1, <2>1
    <3>2. Fore(h, u, i) = Fore(h, s, i)
      BY <3>1 DEF Fore, Joined
    <3>3. ItemAt(k, h, u, i + 1) = ItemAt(k, h, s, i + 1)
      BY <3>1 DEF ItemAt, Joined
    <3> QED  BY <3>1, <3>2, <3>3, <1>4
  <2>2. CASE i = n
    <3>1. n + 1 \in 1 .. Len(u) /\ 1 \in 1 .. l /\ (n # 0 => n \in 1 .. n)
      BY <1>1
    <3>2. Fore(h, u, i) = Fore(h, s, n)
      BY <2>2, <3>1 DEF Fore, Joined
    <3>3. ItemAt(k, h, u, i + 1) = t[1]
      BY <2>2, <3>1 DEF ItemAt, Joined
    <3> QED  BY <1>2, <3>2, <3>3
  <2>3. CASE i > n
    <3>0. i - n \in 1 .. l /\ i = n + (i - n)
      BY <1>1, <2>3
    <3>1. PICK j \in 1 .. l : i = n + j
      BY <3>0
    <3>2. Fore(h, u, i) = Fore(g, t, j)
      BY <1>1, <3>1 DEF Fore, Joined
    <3>3. ItemAt(k, h, u, i + 1) = ItemAt(k, g, t, j + 1)
      <4>1. CASE j = l
        BY <1>1, <3>1, <4>1 DEF ItemAt, EndOf
      <4>2. CASE j # l
        <5>1. j + 1 \in 1 .. l /\ i + 1 = n + (j + 1) /\ i + 1 \in 1 .. Len(u)
          BY <1>1, <3>1, <4>2
        <5>2. u[n + (j + 1)] = t[j + 1]
          BY <5>1 DEF Joined
        <5>3. u[i + 1] = t[j + 1]
          BY <5>1, <5>2
        <5> QED  BY <5>1, <5>3 DEF ItemAt
      <4> QED  BY <4>1, <4>2
    <3> QED  BY <3>1, <3>2, <3>3, <1>5
  <2> QED  BY <1>1, <2>1, <2>2, <2>3
<1>9. \A i \in 1 .. n + l + 1 : HasBack(k, n + l, i) => m2[Rear(h, u, i)] = BackOf(k, h, u, i)
  <2> SUFFICES ASSUME NEW i \in 1 .. n + l + 1, HasBack(k, n + l, i) PROVE m2[Rear(h, u, i)] = Fore(h,
                      u, i - 1)
    BY <1>1 DEF BackOf
  <2>1. CASE i = n + l + 1
    <3>1. l \in 1 .. l /\ i - 1 = n + l /\ n + l # 0
      BY <1>1, <2>1
    <3>2. Rear(h, u, i) = last(h)
      BY <1>1, <2>1 DEF Rear
    <3>3. Fore(h, u, i - 1) = next(t[l])
      BY <3>1 DEF Fore, Joined
    <3> QED  BY <1>2, <3>2, <3>3
  <2>2. CASE i # n + l + 1
    <3>1. k = "TAILQ"
      BY <1>1, <2>2 DEF HasBack
    <3>2. Rear(h, u, i) = prev(u[i])
      BY <1>1, <2>2 DEF Rear
    <3>3. CASE i <= n
      <4>1. i \in 1 .. n /\ (i - 1 # 0 => i - 1 \in 1 .. n)
        BY <1>1, <3>3
      <4>2. u[i] = s[i] /\ Fore(h, u, i - 1) = Fore(h, s, i - 1)
        BY <4>1 DEF Joined, Fore
      <4> QED  BY <1>6, <3>1, <3>2, <4>1, <4>2
    <3>4. CASE i = n + 1
      <4>1. 1 \in 1 .. l /\ i - 1 = n /\ (n # 0 => n \in 1 .. n)
        BY <1>1, <3>4
      <4>2. u[i] = t[1] /\ Fore(h, u, i - 1) = Fore(h, s, n)
        BY <3>4, <4>1 DEF Joined, Fore
      <4> QED  BY <1>2, <3>1, <3>2, <4>2
    <3>5. CASE i > n + 1
      <4>0. i - n \in 2 .. l /\ i = n + (i - n)
        BY <1>1, <2>2, <3>5
      <4>1. PICK j \in 2 .. l : i = n + j
        BY <4>0
      <4>2. j \in 1 .. l /\ j - 1 \in 1 .. l /\ i - 1 = n + (j - 1) /\ i - 1 # 0
        BY <1>1, <4>1
      <4>3. u[i] = t[j] /\ Fore(h, u, i - 1) = next(t[j - 1])
        BY <4>1, <4>2 DEF Joined, Fore
      <4> QED  BY <1>7, <3>1, <3>2, <4>1, <4>3
    <3> QED  BY <1>1, <3>3, <3>4, <3>5
  <2> QED  BY <2>1, <2>2
<1> QED  BY <1>1, <1>3, <1>8, <1>9 DEF Linked

\* Two lists one behind the other.
LEMMA OneBehind ==
    ASSUME NEW s \in Seq(Items), NEW t \in Seq(Items)
    PROVE  Joined(s, t, s \o t)
<1>1. s \o t \in Seq(Items)
  OBVIOUS
<1>2. Len(s \o t) = Len(s) + Len(t)
  OBVIOUS
<1>3. \A i \in 1 .. Len(s) : (s \o t)[i] = s[i]
  OBVIOUS
<1>4. \A j \in 1 .. Len(t) : (s \o t)[Len(s) + j] = t[j]
  OBVIOUS
<1> QED  BY <1>1, <1>2, <1>3, <1>4 DEF Joined

\* An item put before, behind and into a list.
LEMMA PutBefore ==
    ASSUME NEW s \in Seq(Items), NEW e \in Items
    PROVE  Inserted(s, <<e>> \o s, 0, e)
<1>1. <<e>> \in Seq(Items) /\ Len(<<e>>) = 1 /\ <<e>>[1] = e
  OBVIOUS
<1>2. PICK a, u : a = <<e>> /\ u = a \o s
  OBVIOUS
<1>3. Joined(a, s, u) /\ a \in Seq(Items) /\ Len(a) = 1 /\ a[1] = e
  BY <1>1, <1>2, OneBehind
<1>4. u \in Seq(Items) /\ Len(u) = Len(s) + 1 /\ u[1] = e
  BY <1>3 DEF Joined
<1>5. \A i \in 1 .. Len(s) : u[i + 1] = s[i]
  BY <1>3 DEF Joined
<1> QED  BY <1>2, <1>4, <1>5 DEF Inserted

\* Behind it.
LEMMA PutBehind ==
    ASSUME NEW s \in Seq(Items), NEW e \in Items
    PROVE  Inserted(s, Append(s, e), Len(s), e)
<1>1. Append(s, e) \in Seq(Items)
  OBVIOUS
<1>2. Len(Append(s, e)) = Len(s) + 1
  OBVIOUS
<1>3. Append(s, e)[Len(s) + 1] = e
  OBVIOUS
<1>4. \A i \in 1 .. Len(s) : Append(s, e)[i] = s[i]
  OBVIOUS
<1> QED  BY <1>1, <1>2, <1>3, <1>4 DEF Inserted

\* Into it.
LEMMA PutInto ==
    ASSUME NEW s \in Seq(Items), NEW e \in Items, NEW p \in 0 .. Len(s)
    PROVE  Inserted(s, InsertAt(s, p + 1, e), p, e)
<1>1. PICK a, b, c, u : /\ a = SubSeq(s, 1, p) /\ b = a \o <<e>> /\ c = SubSeq(s, p + 1, Len(s))
      /\ u = b \o c
  OBVIOUS
<1>2. Len(s) \in Nat /\ (p + 1) - 1 = p
  OBVIOUS
<1>3. a \in Seq(Items) /\ Len(a) = p
  BY <1>1
<1>4. \A i \in 1 .. p : a[i] = s[i]
  BY <1>1
<1>5. c \in Seq(Items) /\ Len(c) = Len(s) - p
  BY <1>1
<1>6. \A i \in 1 .. Len(s) - p : c[i] = s[p + i]
  BY <1>1
<1>7. b \in Seq(Items) /\ Len(b) = p + 1 /\ Joined(b, c, u)
  <2>1. <<e>> \in Seq(Items) /\ Len(<<e>>) = 1
    OBVIOUS
  <2>2. Joined(a, <<e>>, b)
    BY <1>1, <1>3, <2>1, OneBehind
  <2>3. b \in Seq(Items) /\ Len(b) = p + 1
    BY <1>3, <2>1, <2>2 DEF Joined
  <2> QED  BY <1>1, <1>5, <2>3, OneBehind
<1>8. b[p + 1] = e /\ \A i \in 1 .. p : b[i] = s[i]
  BY <1>1, <1>3, <1>4
<1>9. u \in Seq(Items) /\ Len(u) = Len(s) + 1
  BY <1>5, <1>7 DEF Joined
<1>10. u[p + 1] = e /\ \A i \in 1 .. p : u[i] = s[i]
  BY <1>7, <1>8 DEF Joined
<1>11. \A i \in p + 1 .. Len(s) : u[i + 1] = s[i]
  <2> TAKE i \in p + 1 .. Len(s)
  <2>1. i - p \in 1 .. Len(c) /\ i + 1 = Len(b) + (i - p) /\ p + (i - p) = i
    BY <1>5, <1>7
  <2>2. \A j \in 1 .. Len(c) : u[Len(b) + j] = c[j]
    BY <1>7 DEF Joined
  <2> QED  BY <1>5, <1>6, <2>1, <2>2
<1>12. InsertAt(s, p + 1, e) = u
  BY <1>1, <1>2 DEF InsertAt
<1> QED  BY <1>9, <1>10, <1>11, <1>12 DEF Inserted

\* An item taken from a list, and its first one.
LEMMA TakenFrom ==
    ASSUME NEW s \in Seq(Items), NEW p \in 1 .. Len(s)
    PROVE  Removed(s, RemoveAt(s, p), p)
<1>1. PICK a, c, u : a = SubSeq(s, 1, p - 1) /\ c = SubSeq(s, p + 1, Len(s)) /\ u = a \o c
  OBVIOUS
<1>2. Len(s) \in Nat
  OBVIOUS
<1>3. a \in Seq(Items) /\ Len(a) = p - 1
  BY <1>1
<1>4. \A i \in 1 .. p - 1 : a[i] = s[i]
  <2>1. \A i \in 1 .. p - 1 : SubSeq(s, 1, p - 1)[i] = s[1 + i - 1]
    OBVIOUS
  <2>2. \A i \in 1 .. p - 1 : 1 + i - 1 = i
    BY <1>2
  <2> QED  BY <1>1, <2>1, <2>2
<1>5. c \in Seq(Items) /\ Len(c) = Len(s) - p
  BY <1>1
<1>6. \A i \in 1 .. Len(s) - p : c[i] = s[p + i]
  BY <1>1
<1>0. Joined(a, c, u)
  BY <1>1, <1>3, <1>5, OneBehind
<1>7. u \in Seq(Items) /\ Len(u) = Len(s) - 1
  BY <1>0, <1>3, <1>5 DEF Joined
<1>8. \A i \in 1 .. p - 1 : u[i] = s[i]
  BY <1>0, <1>3, <1>4 DEF Joined
<1>9. \A i \in p + 1 .. Len(s) : u[i - 1] = s[i]
  <2> TAKE i \in p + 1 .. Len(s)
  <2>1. i - p \in 1 .. Len(c) /\ i - 1 = Len(a) + (i - p) /\ p + (i - p) = i
    BY <1>3, <1>5
  <2>2. \A j \in 1 .. Len(c) : u[Len(a) + j] = c[j]
    BY <1>0 DEF Joined
  <2> QED  BY <1>5, <1>6, <2>1, <2>2
<1> QED  BY <1>1, <1>7, <1>8, <1>9 DEF Removed, RemoveAt

\* The first one taken from it.
LEMMA FirstTaken ==
    ASSUME NEW s \in Seq(Items), s # <<>>
    PROVE  1 \in 1 .. Len(s) /\ Removed(s, Tail(s), 1)
<1>1. Tail(s) \in Seq(Items)
  OBVIOUS
<1>2. Len(Tail(s)) = Len(s) - 1
  OBVIOUS
<1>3. 1 \in 1 .. Len(s)
  OBVIOUS
<1>4. \A i \in 1 .. Len(Tail(s)) : Tail(s)[i] = s[i + 1]
  OBVIOUS
<1>5. \A i \in 2 .. Len(s) : Tail(s)[i - 1] = s[i]
  <2> TAKE i \in 2 .. Len(s)
  <2>1. i - 1 \in 1 .. Len(Tail(s)) /\ (i - 1) + 1 = i
    BY <1>2
  <2> QED  BY <1>4, <2>1
<1> QED  BY <1>1, <1>2, <1>3, <1>5 DEF Removed

\* The items of the longer, of the shorter and of the joined list.
LEMMA InsertedItems ==
    ASSUME NEW s \in Seq(Items), Once(s), NEW p \in 0 .. Len(s), NEW e \in Items, NEW s2, Inserted(s,
           s2, p, e),
           \A i \in 1 .. Len(s) : s[i] # e
    PROVE  /\ Once(s2)
           /\ \A i \in 1 .. Len(s2) : s2[i] = e \/ \E j \in 1 .. Len(s) : s2[i] = s[j]
           /\ \A j \in 1 .. Len(s) : \E i \in 1 .. Len(s2) : s2[i] = s[j]
           /\ \E i \in 1 .. Len(s2) : s2[i] = e
<1>1. Len(s) \in Nat /\ Len(s2) = Len(s) + 1 /\ s2[p + 1] = e
  BY DEF Inserted
<1>2. \A i \in 1 .. Len(s2) :
         i # p + 1 => \E j \in 1 .. Len(s) : s2[i] = s[j] /\ j = IF i <= p THEN i ELSE i - 1
  <2> SUFFICES ASSUME NEW i \in 1 .. Len(s2), i # p + 1
               PROVE  \E j \in 1 .. Len(s) : s2[i] = s[j] /\ j = IF i <= p THEN i ELSE i - 1
    OBVIOUS
  <2>1. CASE i <= p
    <3>1. i \in 1 .. p /\ i \in 1 .. Len(s)
      BY <1>1, <2>1
    <3>2. s2[i] = s[i]
      BY <3>1 DEF Inserted
    <3> QED  BY <2>1, <3>1, <3>2
  <2>2. CASE i > p
    <3>1. i - 1 \in p + 1 .. Len(s) /\ i - 1 \in 1 .. Len(s) /\ (i - 1) + 1 = i /\ ~(i <= p)
      BY <1>1, <2>2
    <3>2. s2[(i - 1) + 1] = s[i - 1]
      BY <3>1 DEF Inserted
    <3> QED  BY <3>1, <3>2
  <2> QED  BY <1>1, <2>1, <2>2
<1>3. Once(s2)
  <2> SUFFICES ASSUME NEW a \in 1 .. Len(s2), NEW b \in 1 .. Len(s2), s2[a] = s2[b] PROVE a = b
    BY DEF Once
  <2>1. CASE a = p + 1 \/ b = p + 1
    BY <1>1, <1>2, <2>1
  <2>2. CASE a # p + 1 /\ b # p + 1
    <3>1. PICK i \in 1 .. Len(s) : s2[a] = s[i] /\ i = IF a <= p THEN a ELSE a - 1
      BY <1>2, <2>2
    <3>2. PICK j \in 1 .. Len(s) : s2[b] = s[j] /\ j = IF b <= p THEN b ELSE b - 1
      BY <1>2, <2>2
    <3>3. i = j
      BY <3>1, <3>2 DEF Once
    <3> QED  BY <1>1, <2>2, <3>1, <3>2, <3>3
  <2> QED  BY <2>1, <2>2
<1>4. \A i \in 1 .. Len(s2) : s2[i] = e \/ \E j \in 1 .. Len(s) : s2[i] = s[j]
  BY <1>1, <1>2
<1>5. \A j \in 1 .. Len(s) : \E i \in 1 .. Len(s2) : s2[i] = s[j]
  <2> TAKE j \in 1 .. Len(s)
  <2>1. CASE j <= p
    <3>1. j \in 1 .. p /\ j \in 1 .. Len(s2)
      BY <1>1, <2>1
    <3> QED  BY <3>1 DEF Inserted
  <2>2. CASE j > p
    <3>1. j \in p + 1 .. Len(s) /\ j + 1 \in 1 .. Len(s2)
      BY <1>1, <2>2
    <3> QED  BY <3>1 DEF Inserted
  <2> QED  BY <2>1, <2>2
<1>6. p + 1 \in 1 .. Len(s2)
  BY <1>1
<1> QED  BY <1>1, <1>3, <1>4, <1>5, <1>6

\* The items of the shorter list.
LEMMA RemovedItems ==
    ASSUME NEW s \in Seq(Items), Once(s), NEW p \in 1 .. Len(s), NEW s2, Removed(s, s2, p)
    PROVE  /\ Once(s2)
           /\ \A i \in 1 .. Len(s2) : s2[i] # s[p] /\ \E j \in 1 .. Len(s) : s2[i] = s[j]
           /\ \A j \in 1 .. Len(s) : j # p => \E i \in 1 .. Len(s2) : s2[i] = s[j]
<1>1. Len(s) \in Nat /\ Len(s2) = Len(s) - 1
  BY DEF Removed
<1>2. \A i \in 1 .. Len(s2) : \E j \in 1 .. Len(s) : s2[i] = s[j] /\ j = IF i < p THEN i ELSE i + 1
  <2> TAKE i \in 1 .. Len(s2)
  <2>1. CASE i < p
    <3>1. i \in 1 .. p - 1 /\ i \in 1 .. Len(s)
      BY <1>1, <2>1
    <3>2. s2[i] = s[i]
      BY <3>1 DEF Removed
    <3> QED  BY <2>1, <3>1, <3>2
  <2>2. CASE ~(i < p)
    <3>1. i + 1 \in p + 1 .. Len(s) /\ i + 1 \in 1 .. Len(s) /\ (i + 1) - 1 = i
      BY <1>1, <2>2
    <3>2. s2[(i + 1) - 1] = s[i + 1]
      BY <3>1 DEF Removed
    <3> QED  BY <2>2, <3>1, <3>2
  <2> QED  BY <2>1, <2>2
<1>3. Once(s2)
  <2> SUFFICES ASSUME NEW a \in 1 .. Len(s2), NEW b \in 1 .. Len(s2), s2[a] = s2[b] PROVE a = b
    BY DEF Once
  <2>1. PICK i \in 1 .. Len(s) : s2[a] = s[i] /\ i = IF a < p THEN a ELSE a + 1
    BY <1>2
  <2>2. PICK j \in 1 .. Len(s) : s2[b] = s[j] /\ j = IF b < p THEN b ELSE b + 1
    BY <1>2
  <2>3. i = j
    BY <2>1, <2>2 DEF Once
  <2> QED  BY <1>1, <2>1, <2>2, <2>3
<1>4. \A i \in 1 .. Len(s2) : s2[i] # s[p] /\ \E j \in 1 .. Len(s) : s2[i] = s[j]
  <2> TAKE i \in 1 .. Len(s2)
  <2>1. PICK j \in 1 .. Len(s) : s2[i] = s[j] /\ j = IF i < p THEN i ELSE i + 1
    BY <1>2
  <2>2. j # p
    BY <1>1, <2>1
  <2> QED  BY <2>1, <2>2 DEF Once
<1>5. \A j \in 1 .. Len(s) : j # p => \E i \in 1 .. Len(s2) : s2[i] = s[j]
  <2> SUFFICES ASSUME NEW j \in 1 .. Len(s), j # p PROVE \E i \in 1 .. Len(s2) : s2[i] = s[j]
    OBVIOUS
  <2>1. CASE j < p
    <3>1. j \in 1 .. p - 1 /\ j \in 1 .. Len(s2)
      BY <1>1, <2>1
    <3> QED  BY <3>1 DEF Removed
  <2>2. CASE j > p
    <3>1. j \in p + 1 .. Len(s) /\ j - 1 \in 1 .. Len(s2)
      BY <1>1, <2>2
    <3> QED  BY <3>1 DEF Removed
  <2> QED  BY <2>1, <2>2
<1> QED  BY <1>3, <1>4, <1>5

\* The items of the joined list.
LEMMA JoinedItems ==
    ASSUME NEW s \in Seq(Items), Once(s), NEW t \in Seq(Items), Once(t), NEW u, Joined(s, t, u),
           \A i \in 1 .. Len(s), j \in 1 .. Len(t) : s[i] # t[j]
    PROVE  /\ Once(u)
           /\ \A i \in 1 .. Len(u) : \/ \E j \in 1 .. Len(s) : u[i] = s[j]
                                     \/ \E j \in 1 .. Len(t) : u[i] = t[j]
           /\ \A j \in 1 .. Len(s) : \E i \in 1 .. Len(u) : u[i] = s[j]
           /\ \A j \in 1 .. Len(t) : \E i \in 1 .. Len(u) : u[i] = t[j]
<1>1. Len(s) \in Nat /\ Len(t) \in Nat /\ Len(u) = Len(s) + Len(t)
  BY DEF Joined
<1>2. \A i \in 1 .. Len(u) : \/ \E j \in 1 .. Len(s) : u[i] = s[j] /\ i = j
                             \/ \E j \in 1 .. Len(t) : u[i] = t[j] /\ i = Len(s) + j
  <2> TAKE i \in 1 .. Len(u)
  <2>1. CASE i <= Len(s)
    <3>1. i \in 1 .. Len(s)
      BY <1>1, <2>1
    <3> QED  BY <3>1 DEF Joined
  <2>2. CASE i > Len(s)
    <3>1. i - Len(s) \in 1 .. Len(t) /\ i = Len(s) + (i - Len(s))
      BY <1>1, <2>2
    <3>2. PICK j \in 1 .. Len(t) : i = Len(s) + j
      BY <3>1
    <3> QED  BY <3>2 DEF Joined
  <2> QED  BY <1>1, <2>1, <2>2
<1>3. Once(u)
  <2> SUFFICES ASSUME NEW a \in 1 .. Len(u), NEW b \in 1 .. Len(u), u[a] = u[b] PROVE a = b
    BY DEF Once
  <2>1. CASE \E i \in 1 .. Len(s) : u[a] = s[i] /\ a = i
    BY <1>2, <2>1 DEF Once
  <2>2. CASE \E i \in 1 .. Len(t) : u[a] = t[i] /\ a = Len(s) + i
    BY <1>2, <2>2 DEF Once
  <2> QED  BY <1>2, <2>1, <2>2
<1>4. \A j \in 1 .. Len(s) : \E i \in 1 .. Len(u) : u[i] = s[j]
  <2> TAKE j \in 1 .. Len(s)
  <2>1. j \in 1 .. Len(u)
    BY <1>1
  <2> QED  BY <2>1 DEF Joined
<1>5. \A j \in 1 .. Len(t) : \E i \in 1 .. Len(u) : u[i] = t[j]
  <2> TAKE j \in 1 .. Len(t)
  <2>1. Len(s) + j \in 1 .. Len(u)
    BY <1>1
  <2> QED  BY <2>1 DEF Joined
<1> QED  BY <1>2, <1>3, <1>4, <1>5

\* The invariant: what there is to hold.
QueueShape == kind \in QueueKinds \cup {"none"} /\ order \in [Heads -> Seq(Items)] /\ IsMem(mem)

\* No item is in two places.
SharesNothing == /\ \A h \in Heads : Once(order[h])
                 /\ \A h, g \in Heads : h # g => Apart(h, order[h], g, order[g])

\* An item that is in no list leads nowhere.
SpareIsJunk == \A e \in Items : (\A h \in Heads : e \notin ToSet(order[h])) => mem[next(e)] = Junk

AllLinked == IF kind = "none" THEN \A h \in Heads : order[h] = <<>>
             ELSE \A h \in Heads : Linked(mem, kind, h, order[h])

QueueInv == QueueShape /\ SharesNothing /\ SpareIsJunk /\ AllLinked

\* Membership of a list.
LEMMA IsIn ==
    ASSUME NEW s \in Seq(Items), NEW x
    PROVE  x \in ToSet(s) <=> \E i \in 1 .. Len(s) : s[i] = x
  BY DEF ToSet

\* A spare item can be inserted anywhere.
LEMMA SpareCanInsert ==
    ASSUME QueueInv, NEW h \in Heads, NEW e \in Items, Spare(e), NEW p \in 0 .. Len(order[h])
    PROVE  /\ CanInsert(mem, kind, h, order[h], p, e) /\ kind \in QueueKinds /\ order[h] \in Seq(Items)
           /\ \A g \in Heads : \A i \in 1 .. Len(order[g]) : order[g][i] # e
<1>1. \A g \in Heads : order[g] \in Seq(Items)
  BY DEF QueueInv, QueueShape
<1>2. \A g \in Heads : \A i \in 1 .. Len(order[g]) : order[g][i] # e
  BY <1>1, IsIn DEF Spare
<1> QED  BY <1>1, <1>2 DEF CanInsert, QueueInv, QueueShape, SharesNothing, AllLinked, Spare

\* An insertion into one list keeps the invariant.
LEMMA ListGains ==
    ASSUME QueueInv, NEW h \in Heads, NEW e \in Items, Spare(e), NEW p \in 0 .. Len(order[h]),
           NEW s2, Inserted(order[h], s2, p, e), UNCHANGED kind, order' = [order EXCEPT ![h] = s2],
           IsMem(mem'), InsertsInto(mem, mem', kind, h, order[h], p, e)
    PROVE  QueueInv'
<1>1. PICK s : s = order[h]
  OBVIOUS
<1>2. /\ CanInsert(mem, kind, h, s, p, e) /\ kind \in QueueKinds /\ s \in Seq(Items) /\ kind # "none"
      /\ p \in 0 .. Len(s) /\ Inserted(s, s2, p, e) /\ InsertsInto(mem, mem', kind, h, s, p, e)
      /\ \A g \in Heads : \A i \in 1 .. Len(order[g]) : order[g][i] # e
  BY <1>1, SpareCanInsert DEF QueueKinds
<1>3. /\ Once(s) /\ (\A i \in 1 .. Len(s) : s[i] # e) /\ Linked(mem, kind, h, s)
      /\ s2 \in Seq(Items) /\ (\A g \in Heads : order[g] \in Seq(Items) /\ Once(order[g]))
  BY <1>1, <1>2 DEF CanInsert, Inserted, QueueInv, QueueShape, SharesNothing
<1>4. /\ Once(s2) /\ (\A i \in 1 .. Len(s2) : s2[i] = e \/ \E j \in 1 .. Len(s) : s2[i] = s[j])
      /\ (\A j \in 1 .. Len(s) : \E i \in 1 .. Len(s2) : s2[i] = s[j])
         /\ \E i \in 1 .. Len(s2) : s2[i] = e
  BY <1>2, <1>3, InsertedItems
<1>5. order' \in [Heads -> Seq(Items)] /\ \A g \in Heads : order'[g] = IF g = h THEN s2 ELSE order[g]
  BY <1>3 DEF QueueInv, QueueShape
<1>6. QueueShape'
  BY <1>5 DEF QueueInv, QueueShape
<1>7. \A g \in Heads : g # h => Apart(g, order[g], h, s) /\ Apart(h, s, g, order[g])
  BY <1>1 DEF QueueInv, SharesNothing
<1>8. \A g \in Heads : g # h => Apart(g, order[g], h, s2) /\ Apart(h, s2, g, order[g])
  BY <1>2, <1>4, <1>7 DEF Apart
<1>9. SharesNothing'
  <2>1. \A g \in Heads : Once(order'[g])
    BY <1>3, <1>4, <1>5
  <2>2. \A f, g \in Heads : f # g => Apart(f, order'[f], g, order'[g])
    BY <1>5, <1>8 DEF QueueInv, SharesNothing
  <2> QED  BY <2>1, <2>2 DEF SharesNothing
<1>10. SpareIsJunk'
  <2> SUFFICES ASSUME NEW x \in Items, \A g \in Heads : x \notin ToSet(order'[g])
                      PROVE mem'[next(x)] = Junk
    BY DEF SpareIsJunk
  <2>1. x \notin ToSet(s2) /\ \A g \in Heads : g # h => x \notin ToSet(order[g])
    BY <1>5
  <2>2. x # e /\ \A i \in 1 .. Len(s) : s[i] # x
    BY <1>3, <1>4, <2>1, IsIn
  <2>3. mem[next(x)] = Junk
    BY <1>1, <1>2, <2>1, <2>2, IsIn DEF QueueInv, SpareIsJunk
  <2>4. next(x) \in QueueCells /\ next(x) \notin {Fore(h, s, p), Rear(h, s, p + 1)}
    BY <1>2, <2>2, SpareCells
  <2>5. next(x) # next(e) /\ next(x) # prev(e)
    BY <2>2 DEF next, prev
  <2> QED  BY <1>2, <2>3, <2>4, <2>5 DEF InsertsInto
<1>11. \A g \in Heads : Linked(mem', kind, g, order'[g])
  <2> TAKE g \in Heads
  <2>1. CASE g = h
    <3>1. Linked(mem', kind, h, s2)
      BY <1>2, <1>3, InsertLinks
    <3> QED  BY <1>5, <2>1, <3>1
  <2>2. CASE g # h
    <3>1. Linked(mem, kind, g, order[g])
      BY <1>2 DEF QueueInv, AllLinked
    <3>2. Linked(mem', kind, g, order[g])
      BY <1>2, <1>3, <1>7, <2>2, <3>1, InsertApart
    <3> QED  BY <1>5, <2>2, <3>2
  <2> QED  BY <2>1, <2>2
<1>12. AllLinked'
  BY <1>2, <1>11 DEF AllLinked
<1> QED  BY <1>6, <1>9, <1>10, <1>12 DEF QueueInv

\* An item of a list can be removed: no other item leads to it.
LEMMA MemberCanRemove ==
    ASSUME QueueInv, NEW h \in Heads, NEW p \in 1 .. Len(order[h])
    PROVE  CanRemove(mem, kind, h, order[h], p) /\ kind \in QueueKinds /\ order[h] \in Seq(Items)
<1>1. \A g \in Heads : order[g] \in Seq(Items)
  BY DEF QueueInv, QueueShape
<1>2. order[h] # <<>>
  BY <1>1
<1>3. kind \in QueueKinds /\ kind # "none" /\ \A g \in Heads : Linked(mem, kind, g, order[g])
  BY <1>2 DEF QueueInv, QueueShape, AllLinked, QueueKinds
<1>4. \A c \in Items : mem[next(c)] = order[h][p] => p # 1 /\ c = order[h][p - 1]
  <2> SUFFICES ASSUME NEW c \in Items, mem[next(c)] = order[h][p] PROVE p # 1 /\ c = order[h][p - 1]
    OBVIOUS
  <2>1. order[h][p] \in Items
    BY <1>1
  <2>2. PICK g \in Heads : c \in ToSet(order[g])
    BY <2>1, QueueAssumption DEF QueueInv, SpareIsJunk
  <2>3. PICK j \in 1 .. Len(order[g]) : order[g][j] = c
    BY <1>1, <2>2, IsIn
  <2>4. Fore(h, order[g], j) = next(c) /\ Fore(g, order[g], j) = next(c) /\ j \in 0 .. Len(order[g])
        /\ Len(order[g]) \in Nat
    BY <1>1, <2>3 DEF Fore
  <2>5. ItemAt(kind, g, order[g], j + 1) = order[h][p]
    BY <1>3, <2>4 DEF Linked
  <2>6. j + 1 \in 1 .. Len(order[g]) /\ order[g][j + 1] = order[h][p]
    BY <2>1, <2>5, QueueAssumption DEF ItemAt, EndOf
  <2>7. g = h
    BY <2>6 DEF QueueInv, SharesNothing, Apart
  <2>8. j + 1 = p
    BY <2>6, <2>7 DEF QueueInv, SharesNothing, Once
  <2> QED  BY <2>3, <2>4, <2>7, <2>8
<1> QED  BY <1>1, <1>3, <1>4 DEF CanRemove, QueueInv, QueueShape, SharesNothing

\* A removal from one list keeps the invariant.
LEMMA ListLoses ==
    ASSUME QueueInv, NEW h \in Heads, NEW p \in 1 .. Len(order[h]),
           NEW s2, Removed(order[h], s2, p), UNCHANGED kind, order' = [order EXCEPT ![h] = s2],
           IsMem(mem'), RemovesFrom(mem, mem', kind, h, order[h], p), mem'[next(order[h][p])] = Junk
    PROVE  QueueInv'
<1>1. PICK s : s = order[h]
  OBVIOUS
<1>2. /\ CanRemove(mem, kind, h, s, p) /\ kind \in QueueKinds /\ s \in Seq(Items) /\ kind # "none"
      /\ p \in 1 .. Len(s) /\ Removed(s, s2, p) /\ RemovesFrom(mem, mem', kind, h, s, p)
         /\ mem'[next(s[p])] = Junk
  BY <1>1, MemberCanRemove DEF QueueKinds
<1>3. /\ Once(s) /\ Linked(mem, kind, h, s)
      /\ s2 \in Seq(Items) /\ (\A g \in Heads : order[g] \in Seq(Items) /\ Once(order[g]))
  BY <1>1, <1>2 DEF CanRemove, Removed, QueueInv, QueueShape, SharesNothing
<1>4. /\ Once(s2) /\ (\A i \in 1 .. Len(s2) : \E j \in 1 .. Len(s) : s2[i] = s[j])
      /\ (\A j \in 1 .. Len(s) : j # p => \E i \in 1 .. Len(s2) : s2[i] = s[j])
  BY <1>2, <1>3, RemovedItems
<1>5. order' \in [Heads -> Seq(Items)] /\ \A g \in Heads : order'[g] = IF g = h THEN s2 ELSE order[g]
  BY <1>3 DEF QueueInv, QueueShape
<1>6. QueueShape'
  BY <1>5 DEF QueueInv, QueueShape
<1>7. \A g \in Heads : g # h => Apart(g, order[g], h, s) /\ Apart(h, s, g, order[g])
  BY <1>1 DEF QueueInv, SharesNothing
<1>8. \A g \in Heads : g # h => Apart(g, order[g], h, s2) /\ Apart(h, s2, g, order[g])
  BY <1>4, <1>7 DEF Apart
<1>9. SharesNothing'
  <2>1. \A g \in Heads : Once(order'[g])
    BY <1>3, <1>4, <1>5
  <2>2. \A f, g \in Heads : f # g => Apart(f, order'[f], g, order'[g])
    BY <1>5, <1>8 DEF QueueInv, SharesNothing
  <2> QED  BY <2>1, <2>2 DEF SharesNothing
<1>10. SpareIsJunk'
  <2> SUFFICES ASSUME NEW x \in Items, \A g \in Heads : x \notin ToSet(order'[g]), x # s[p]
               PROVE  mem'[next(x)] = Junk
    BY <1>2 DEF SpareIsJunk
  <2>1. x \notin ToSet(s2) /\ \A g \in Heads : g # h => x \notin ToSet(order[g])
    BY <1>5
  <2>2. \A i \in 1 .. Len(s) : s[i] # x
    <3>1. \A i \in 1 .. Len(s2) : s2[i] # x
      BY <1>3, <2>1, IsIn
    <3> QED  BY <1>4, <3>1
  <2>3. mem[next(x)] = Junk
    BY <1>1, <1>2, <2>1, <2>2, IsIn DEF QueueInv, SpareIsJunk
  <2>4. p - 1 \in 0 .. Len(s) /\ p + 1 \in 1 .. Len(s) + 1
    BY <1>2
  <2>5. next(x) \in QueueCells /\ next(x) \notin {Fore(h, s, p - 1), Rear(h, s, p + 1)}
    BY <1>2, <2>2, <2>4, SpareCells
  <2>6. next(x) # next(s[p]) /\ next(x) # prev(s[p])
    BY <2>2 DEF next, prev
  <2> QED  BY <1>2, <2>3, <2>5, <2>6 DEF RemovesFrom
<1>11. \A g \in Heads : Linked(mem', kind, g, order'[g])
  <2> TAKE g \in Heads
  <2>1. CASE g = h
    <3>1. Linked(mem', kind, h, s2)
      BY <1>2, <1>3, RemoveLinks
    <3> QED  BY <1>5, <2>1, <3>1
  <2>2. CASE g # h
    <3>1. Linked(mem, kind, g, order[g])
      BY <1>2 DEF QueueInv, AllLinked
    <3>2. Linked(mem', kind, g, order[g])
      BY <1>2, <1>3, <1>7, <2>2, <3>1, RemoveApart
    <3> QED  BY <1>5, <2>2, <3>2
  <2> QED  BY <2>1, <2>2
<1>12. AllLinked'
  BY <1>2, <1>11 DEF AllLinked
<1> QED  BY <1>6, <1>9, <1>10, <1>12 DEF QueueInv

\* A concatenation of two lists keeps the invariant.
LEMMA ListsJoin ==
    ASSUME QueueInv, kind \in {"STAILQ", "TAILQ"}, NEW h \in Heads, NEW g \in Heads, h # g,
           Len(order[g]) # 0,
           UNCHANGED kind, order' = [order EXCEPT ![h] = order[h] \o order[g], ![g] = <<>>],
           IsMem(mem'), JoinsInto(mem, mem', kind, h, order[h], g, order[g])
    PROVE  QueueInv'
<1>1. PICK s, t, u : s = order[h] /\ t = order[g] /\ u = s \o t
  OBVIOUS
<1>2. /\ kind # "none" /\ kind \in QueueKinds /\ s \in Seq(Items) /\ t \in Seq(Items) /\ Len(t) # 0
      /\ (\A x \in Heads : order[x] \in Seq(Items) /\ Once(order[x]) /\ Linked(mem, kind, x, order[x]))
      /\ (\A x, y \in Heads : x # y => Apart(x, order[x], y, order[y]))
      /\ JoinsInto(mem, mem', kind, h, s, g, t)
  BY <1>1 DEF QueueInv, QueueShape, SharesNothing, AllLinked, QueueKinds
<1>3. CanJoin(mem, kind, h, s, g, t)
  BY <1>1, <1>2 DEF CanJoin, QueueInv, QueueShape
<1>4. Joined(s, t, u) /\ u \in Seq(Items) /\ <<>> \in Seq(Items)
  <2>1. Joined(s, t, u)
    BY <1>1, <1>2, OneBehind
  <2>2. <<>> \in Seq(Items)
    OBVIOUS
  <2> QED  BY <2>1, <2>2 DEF Joined
<1>5. /\ Once(u)
      /\ \A i \in 1 .. Len(u) : (\E j \in 1 .. Len(s) : u[i] = s[j])
         \/ (\E j \in 1 .. Len(t) : u[i] = t[j])
      /\ \A j \in 1 .. Len(s) : \E i \in 1 .. Len(u) : u[i] = s[j]
      /\ \A j \in 1 .. Len(t) : \E i \in 1 .. Len(u) : u[i] = t[j]
  <2>1. \A i \in 1 .. Len(s), j \in 1 .. Len(t) : s[i] # t[j]
    BY <1>1, <1>2 DEF Apart
  <2>2. Once(s) /\ Once(t)
    BY <1>1, <1>2
  <2>3. s \in Seq(Items) /\ t \in Seq(Items) /\ Joined(s, t, u)
    BY <1>2, <1>4
  <2> QED  BY <2>1, <2>2, <2>3, JoinedItems
<1>6. /\ order' \in [Heads -> Seq(Items)]
      /\ \A x \in Heads : order'[x] = IF x = g THEN <<>> ELSE IF x = h THEN u ELSE order[x]
  BY <1>1, <1>4 DEF QueueInv, QueueShape
<1>7. QueueShape'
  BY <1>6 DEF QueueInv, QueueShape
<1>8. SharesNothing'
  <2>1. Len(<<>>) = 0 /\ Once(<<>>)
    BY DEF Once
  <2>2. \A x \in Heads : Once(order'[x])
    BY <1>2, <1>5, <1>6, <2>1
  <2>3. \A x \in Heads : x # h /\ x # g => Apart(x, order[x], h, u) /\ Apart(h, u, x, order[x])
    <3> SUFFICES ASSUME NEW x \in Heads, x # h, x # g
                 PROVE  Apart(x, order[x], h, u) /\ Apart(h, u, x, order[x])
      OBVIOUS
    <3>1. PICK v : v = order[x]
      OBVIOUS
    <3>2. /\ \A i \in 1 .. Len(v), j \in 1 .. Len(s) : v[i] # s[j]
          /\ \A i \in 1 .. Len(v), j \in 1 .. Len(t) : v[i] # t[j]
      BY <1>1, <1>2, <3>1 DEF Apart
    <3>3. \A i \in 1 .. Len(v), j \in 1 .. Len(u) : v[i] # u[j]
      <4> SUFFICES ASSUME NEW i \in 1 .. Len(v), NEW j \in 1 .. Len(u) PROVE v[i] # u[j]
        OBVIOUS
      <4> QED  BY <1>5, <3>2
    <3> QED  BY <3>1, <3>3 DEF Apart
  <2>4. \A x, y \in Heads : x # y => Apart(x, <<>>, y, order'[y]) /\ Apart(y, order'[y], x, <<>>)
    BY <2>1 DEF Apart
  <2>5. \A x, y \in Heads : x # y => Apart(x, order'[x], y, order'[y])
    BY <1>2, <1>6, <2>3, <2>4
  <2> QED  BY <2>2, <2>5 DEF SharesNothing
<1>9. SpareIsJunk'
  <2> SUFFICES ASSUME NEW x \in Items, \A y \in Heads : x \notin ToSet(order'[y])
                      PROVE mem'[next(x)] = Junk
    BY DEF SpareIsJunk
  <2>1. x \notin ToSet(u) /\ \A y \in Heads : y # h /\ y # g => x \notin ToSet(order[y])
    BY <1>6
  <2>2. (\A i \in 1 .. Len(s) : s[i] # x) /\ (\A i \in 1 .. Len(t) : t[i] # x)
    BY <1>4, <1>5, <2>1, IsIn
  <2>3. x \notin ToSet(s) /\ x \notin ToSet(t)
    BY <1>2, <2>2, IsIn
  <2>4. mem[next(x)] = Junk
    BY <1>1, <2>1, <2>3 DEF QueueInv, SpareIsJunk
  <2>5. next(x) \in QueueCells /\ Len(s) \in 0 .. Len(s) /\ Len(s) + 1 \in 1 .. Len(s) + 1
        /\ 0 \in 0 .. Len(t)
        /\ Len(t) + 1 \in 1 .. Len(t) + 1
    BY <1>2 DEF QueueCells
  <2>6. next(x) # Fore(h, s, Len(s))
    BY <1>2, <2>2, <2>5, SpareCells
  <2>7. next(x) \notin {last(h), prev(t[1]), first(g), last(g)}
    BY <1>2, QueueAssumption DEF next, prev, first, last
  <2> QED  BY <1>2, <2>4, <2>5, <2>6, <2>7 DEF JoinsInto
<1>10. \A x \in Heads : Linked(mem', kind, x, order'[x])
  <2> TAKE x \in Heads
  <2>1. Linked(mem', kind, h, u) /\ Linked(mem', kind, g, <<>>)
    BY <1>2, <1>3, <1>4, JoinLinks
  <2>2. CASE x = h \/ x = g
    BY <1>6, <2>1, <2>2
  <2>3. CASE x # h /\ x # g
    <3>1. Linked(mem', kind, x, order[x])
      BY <1>1, <1>2, <1>3, <2>3, JoinApart
    <3> QED  BY <1>6, <2>3, <3>1
  <2> QED  BY <2>2, <2>3
<1>11. AllLinked'
  BY <1>2, <1>10 DEF AllLinked
<1> QED  BY <1>7, <1>8, <1>9, <1>11 DEF QueueInv

\* The place of an item.
LEMMA IndexFound ==
    ASSUME NEW s \in Seq(Items), NEW e \in ToSet(s)
    PROVE  IndexOf(s, e) \in 1 .. Len(s) /\ s[IndexOf(s, e)] = e
<1>1. PICK i \in DOMAIN s : s[i] = e
  BY IsIn
<1>2. IndexOf(s, e) \in DOMAIN s /\ s[IndexOf(s, e)] = e
  BY <1>1 DEF IndexOf
<1> QED  BY <1>2

\* The invariant holds when nothing is made, and after the heads are initialised.
LEMMA QueueStarts ==
    ASSUME QueueInit
    PROVE  QueueInv
<1>1. \A h \in Heads : order[h] = <<>>
  BY DEF QueueInit
<1>2. <<>> \in Seq(Items) /\ Len(<<>>) = 0
  OBVIOUS
<1>3. QueueShape
  BY <1>2 DEF QueueInit, QueueShape, IsMem
<1>4. SharesNothing
  BY <1>1, <1>2 DEF SharesNothing, Once, Apart
<1>5. SpareIsJunk
  <2>1. \A e \in Items : next(e) \in QueueCells
    BY DEF QueueCells
  <2> QED  BY <2>1 DEF QueueInit, SpareIsJunk
<1>6. AllLinked
  BY <1>1 DEF QueueInit, AllLinked
<1> QED  BY <1>3, <1>4, <1>5, <1>6 DEF QueueInv

\* An initialised head leads to what ends its list.
LEMMA HeadsAreEmpty ==
    ASSUME NEW k \in QueueKinds, NEW m, IsMem(m), NEW h \in Heads, NEW i, i = InitHead(k, m, h)
    PROVE  i[first(h)] = EndOf(k, h) /\ (k \notin {"LIST", "SLIST"}
           => i[last(h)] = IF k = "CIRCLEQ" THEN h ELSE first(h))
<1>1. first(h) \in QueueCells /\ last(h) \in QueueCells /\ first(h) # last(h)
  BY DEF QueueCells, first, last
<1>2. CASE k = "LIST" \/ k = "SLIST"
  <2>1. i = [m EXCEPT ![first(h)] = NULL]
    BY <1>2 DEF InitHead, LIST_INIT, SLIST_INIT, Put
  <2> QED  BY <1>1, <1>2, <2>1 DEF IsMem, EndOf
<1>3. CASE k = "STAILQ" \/ k = "SIMPLEQ" \/ k = "TAILQ"
  <2>1. i = [m EXCEPT ![first(h)] = NULL, ![last(h)] = first(h)]
    BY <1>3 DEF InitHead, STAILQ_INIT, SIMPLEQ_INIT, TAILQ_INIT
  <2> QED  BY <1>1, <1>3, <2>1 DEF IsMem, EndOf
<1>4. CASE k = "CIRCLEQ"
  <2>1. i = [m EXCEPT ![first(h)] = h, ![last(h)] = h]
    BY <1>4 DEF InitHead, CIRCLEQ_INIT
  <2> QED  BY <1>1, <1>4, <2>1 DEF IsMem, EndOf
<1> QED  BY <1>2, <1>3, <1>4 DEF QueueKinds

\* MakeHeads makes empty lists.
LEMMA MakeHeadsKeeps ==
    ASSUME QueueInv, NEW k \in QueueKinds, MakeHeads(k)
    PROVE  QueueInv'
<1>1. /\ kind = "none" /\ kind' = k /\ order' = order /\ k # "none"
      /\ mem' = [c \in QueueCells |-> IF c[1] \in Heads THEN InitHead(k, mem, c[1])[c] ELSE mem[c]]
  BY DEF MakeHeads, QueueKinds
<1>2. QueueShape'
  BY <1>1 DEF QueueInv, QueueShape, IsMem
<1>3. SharesNothing'
  BY <1>1 DEF QueueInv, SharesNothing
<1>4. SpareIsJunk'
  <2> SUFFICES ASSUME NEW x \in Items, \A g \in Heads : x \notin ToSet(order[g])
                      PROVE mem'[next(x)] = Junk
    BY <1>1 DEF SpareIsJunk
  <2>1. next(x) \in QueueCells /\ next(x)[1] = x /\ x \notin Heads
    BY QueueAssumption DEF QueueCells, next
  <2>2. mem[next(x)] = Junk
    BY DEF QueueInv, SpareIsJunk
  <2> QED  BY <1>1, <2>1, <2>2
<1>5. \A h \in Heads : Linked(mem', k, h, <<>>)
  <2> TAKE h \in Heads
  <2>1. first(h) \in QueueCells /\ last(h) \in QueueCells /\ first(h)[1] = h /\ last(h)[1] = h
    BY DEF QueueCells, first, last
  <2>2. PICK i : i = InitHead(k, mem, h)
    OBVIOUS
  <2>3. mem'[first(h)] = i[first(h)] /\ mem'[last(h)] = i[last(h)]
    BY <1>1, <2>1, <2>2
  <2>4. /\ i[first(h)] = EndOf(k, h)
        /\ k \notin {"LIST", "SLIST"} => i[last(h)] = IF k = "CIRCLEQ" THEN h ELSE first(h)
    BY <2>2, HeadsAreEmpty DEF QueueInv, QueueShape
  <2>5. Len(<<>>) = 0 /\ Fore(h, <<>>, 0) = first(h) /\ Rear(h, <<>>, 1) = last(h) /\ ItemAt(k, h,
        <<>>, 1) = EndOf(k, h)
        /\ BackOf(k, h, <<>>, 1) = IF k = "CIRCLEQ" THEN h ELSE first(h)
    BY DEF Fore, Rear, ItemAt, BackOf, EndOf
  <2>6. HasBack(k, 0, 1) => k \notin {"LIST", "SLIST"}
    BY DEF HasBack
  <2> QED  BY <2>3, <2>4, <2>5, <2>6 DEF Linked
<1>6. AllLinked'
  BY <1>1, <1>5 DEF QueueInv, AllLinked
<1> QED  BY <1>2, <1>3, <1>4, <1>6 DEF QueueInv

\* Each insertion puts the item where the user expects it.
LEMMA InsertHeadKeeps ==
    ASSUME QueueInv, NEW h \in Heads, NEW e \in Items, InsertHead(h, e)
    PROVE  QueueInv'
<1>1. PICK s : s = order[h]
  OBVIOUS
<1>2. s \in Seq(Items) /\ Len(s) \in Nat /\ Spare(e) /\ UNCHANGED kind /\ kind # "none"
  BY <1>1 DEF InsertHead, QueueInv, QueueShape, Spare
<1>4. PICK p, s2 : p = 0 /\ p \in 0 .. Len(s) /\ Inserted(s, s2, p, e) /\ order' = [order
      EXCEPT ![h] = s2]
  <2>1. 0 \in 0 .. Len(s)
    BY <1>2
  <2>2. Inserted(s, <<e>> \o s, 0, e)
    BY <1>2, PutBefore
  <2>3. order' = [order EXCEPT ![h] = <<e>> \o s]
    BY <1>1 DEF InsertHead
  <2> QED  BY <2>1, <2>2, <2>3
<1>5. CanInsert(mem, kind, h, s, p, e) /\ kind \in QueueKinds
  BY <1>1, <1>2, <1>4, SpareCanInsert
<1>6. IsMem(mem') /\ InsertsInto(mem, mem', kind, h, s, p, e)
  <2>1. CASE kind = "LIST"
    <3>1. mem' = LIST_INSERT_HEAD(mem, h, e)
      BY <1>1, <1>4, <2>1 DEF InsertHead
    <3> QED  BY <1>4, <1>5, <2>1, <3>1, ListInsertHead
  <2>2. CASE kind = "SLIST"
    <3>1. mem' = SLIST_INSERT_HEAD(mem, h, e)
      BY <1>1, <1>4, <2>2 DEF InsertHead
    <3> QED  BY <1>4, <1>5, <2>2, <3>1, SlistInsertHead
  <2>3. CASE kind = "STAILQ" \/ kind = "SIMPLEQ"
    <3>1. mem' = STAILQ_INSERT_HEAD(mem, h, e)
      BY <1>1, <1>4, <2>3 DEF InsertHead, SIMPLEQ_INSERT_HEAD
    <3> QED  BY <1>4, <1>5, <2>3, <3>1, StailqInsertHead
  <2>4. CASE kind = "TAILQ"
    <3>1. mem' = TAILQ_INSERT_HEAD(mem, h, e)
      BY <1>1, <1>4, <2>4 DEF InsertHead
    <3> QED  BY <1>4, <1>5, <2>4, <3>1, TailqInsertHead
  <2>5. CASE kind = "CIRCLEQ"
    <3>1. mem' = CIRCLEQ_INSERT_HEAD(mem, h, e)
      BY <1>1, <1>4, <2>5 DEF InsertHead
    <3> QED  BY <1>4, <1>5, <2>5, <3>1, CircleqInsertHead
  <2> QED  BY <1>2, <1>5, <2>1, <2>2, <2>3, <2>4, <2>5 DEF QueueKinds
<1> QED  BY <1>1, <1>2, <1>4, <1>6, ListGains

\* InsertTail keeps the invariant.
LEMMA InsertTailKeeps ==
    ASSUME QueueInv, NEW h \in Heads, NEW e \in Items, InsertTail(h, e)
    PROVE  QueueInv'
<1>1. PICK s : s = order[h]
  OBVIOUS
<1>2. s \in Seq(Items) /\ Len(s) \in Nat /\ Spare(e) /\ UNCHANGED kind /\ kind # "none"
      /\ kind \notin {"LIST", "SLIST"}
  BY <1>1 DEF InsertTail, QueueInv, QueueShape, Spare
<1>4. PICK p, s2 : p = Len(s) /\ p \in 0 .. Len(s) /\ Inserted(s, s2, p, e)
      /\ order' = [order EXCEPT ![h] = s2]
  <2>1. Len(s) \in 0 .. Len(s)
    BY <1>2
  <2>2. Inserted(s, Append(s, e), Len(s), e)
    BY <1>2, PutBehind
  <2>3. order' = [order EXCEPT ![h] = Append(s, e)]
    BY <1>1 DEF InsertTail
  <2> QED  BY <2>1, <2>2, <2>3
<1>5. CanInsert(mem, kind, h, s, p, e) /\ kind \in QueueKinds
  BY <1>1, <1>2, <1>4, SpareCanInsert
<1>6. IsMem(mem') /\ InsertsInto(mem, mem', kind, h, s, p, e)
  <2>1. CASE kind = "STAILQ" \/ kind = "SIMPLEQ"
    <3>1. mem' = STAILQ_INSERT_TAIL(mem, h, e)
      BY <1>1, <1>4, <2>1 DEF InsertTail, SIMPLEQ_INSERT_TAIL
    <3> QED  BY <1>4, <1>5, <2>1, <3>1, StailqInsertTail
  <2>2. CASE kind = "TAILQ"
    <3>1. mem' = TAILQ_INSERT_TAIL(mem, h, e)
      BY <1>1, <1>4, <2>2 DEF InsertTail
    <3> QED  BY <1>4, <1>5, <2>2, <3>1, TailqInsertTail
  <2>3. CASE kind = "CIRCLEQ"
    <3>1. mem' = CIRCLEQ_INSERT_TAIL(mem, h, e)
      BY <1>1, <1>4, <2>3 DEF InsertTail
    <3> QED  BY <1>4, <1>5, <2>3, <3>1, CircleqInsertTail
  <2> QED  BY <1>2, <1>5, <2>1, <2>2, <2>3 DEF QueueKinds
<1> QED  BY <1>1, <1>2, <1>4, <1>6, ListGains

\* InsertAfter keeps the invariant.
LEMMA InsertAfterKeeps ==
    ASSUME QueueInv, NEW h \in Heads, NEW l \in Items, NEW e \in Items, InsertAfter(h, l, e)
    PROVE  QueueInv'
<1>1. PICK s : s = order[h]
  OBVIOUS
<1>2. s \in Seq(Items) /\ Len(s) \in Nat /\ Spare(e) /\ UNCHANGED kind /\ kind # "none"
  BY <1>1 DEF InsertAfter, QueueInv, QueueShape, Spare
<1>3. l \in ToSet(s)
  BY <1>1 DEF InsertAfter
<1>4. PICK p, s2 : /\ p # 0 /\ p \in 0 .. Len(s) /\ s[p] = l /\ Inserted(s, s2, p, e)
                   /\ order' = [order EXCEPT ![h] = s2]
  <2>1. PICK p : p = IndexOf(s, l) /\ p \in 1 .. Len(s) /\ s[p] = l
    BY <1>2, <1>3, IndexFound
  <2>2. p # 0 /\ p \in 0 .. Len(s)
    BY <1>2, <2>1
  <2>3. Inserted(s, InsertAt(s, p + 1, e), p, e)
    BY <1>2, <2>2, PutInto
  <2>4. order' = [order EXCEPT ![h] = InsertAt(s, p + 1, e)]
    BY <1>1, <2>1 DEF InsertAfter
  <2> QED  BY <2>1, <2>2, <2>3, <2>4
<1>5. CanInsert(mem, kind, h, s, p, e) /\ kind \in QueueKinds
  BY <1>1, <1>2, <1>4, SpareCanInsert
<1>6. IsMem(mem') /\ InsertsInto(mem, mem', kind, h, s, p, e)
  <2>1. CASE kind = "LIST"
    <3>1. mem' = LIST_INSERT_AFTER(mem, s[p], e)
      BY <1>1, <1>4, <2>1 DEF InsertAfter
    <3> QED  BY <1>4, <1>5, <2>1, <3>1, ListInsertAfter
  <2>2. CASE kind = "SLIST"
    <3>1. mem' = SLIST_INSERT_AFTER(mem, s[p], e)
      BY <1>1, <1>4, <2>2 DEF InsertAfter
    <3> QED  BY <1>4, <1>5, <2>2, <3>1, SlistInsertAfter
  <2>3. CASE kind = "STAILQ" \/ kind = "SIMPLEQ"
    <3>1. mem' = STAILQ_INSERT_AFTER(mem, h, s[p], e)
      BY <1>1, <1>4, <2>3 DEF InsertAfter, SIMPLEQ_INSERT_AFTER
    <3> QED  BY <1>4, <1>5, <2>3, <3>1, StailqInsertAfter
  <2>4. CASE kind = "TAILQ"
    <3>1. mem' = TAILQ_INSERT_AFTER(mem, h, s[p], e)
      BY <1>1, <1>4, <2>4 DEF InsertAfter
    <3> QED  BY <1>4, <1>5, <2>4, <3>1, TailqInsertAfter
  <2>5. CASE kind = "CIRCLEQ"
    <3>1. mem' = CIRCLEQ_INSERT_AFTER(mem, h, s[p], e)
      BY <1>1, <1>4, <2>5 DEF InsertAfter
    <3> QED  BY <1>4, <1>5, <2>5, <3>1, CircleqInsertAfter
  <2> QED  BY <1>2, <1>5, <2>1, <2>2, <2>3, <2>4, <2>5 DEF QueueKinds
<1> QED  BY <1>1, <1>2, <1>4, <1>6, ListGains

\* InsertBefore keeps the invariant.
LEMMA InsertBeforeKeeps ==
    ASSUME QueueInv, NEW h \in Heads, NEW l \in Items, NEW e \in Items, InsertBefore(h, l, e)
    PROVE  QueueInv'
<1>1. PICK s : s = order[h]
  OBVIOUS
<1>2. s \in Seq(Items) /\ Len(s) \in Nat /\ Spare(e) /\ UNCHANGED kind /\ kind # "none"
      /\ kind \in {"LIST", "TAILQ", "CIRCLEQ"}
  BY <1>1 DEF InsertBefore, QueueInv, QueueShape, Spare
<1>3. l \in ToSet(s)
  BY <1>1 DEF InsertBefore
<1>4. PICK p, s2 : /\ p # Len(s) /\ p \in 0 .. Len(s) /\ s[p + 1] = l /\ Inserted(s, s2, p, e)
                   /\ order' = [order EXCEPT ![h] = s2]
  <2>1. PICK i : i = IndexOf(s, l) /\ i \in 1 .. Len(s) /\ s[i] = l
    BY <1>2, <1>3, IndexFound
  <2>2. PICK p : p = i - 1
    OBVIOUS
  <2>3. p # Len(s) /\ p \in 0 .. Len(s) /\ p + 1 = i
    BY <1>2, <2>1, <2>2
  <2>4. Inserted(s, InsertAt(s, p + 1, e), p, e)
    BY <1>2, <2>3, PutInto
  <2>5. order' = [order EXCEPT ![h] = InsertAt(s, p + 1, e)]
    BY <1>1, <2>1, <2>3 DEF InsertBefore
  <2> QED  BY <2>1, <2>3, <2>4, <2>5
<1>5. CanInsert(mem, kind, h, s, p, e) /\ kind \in QueueKinds
  BY <1>1, <1>2, <1>4, SpareCanInsert
<1>6. IsMem(mem') /\ InsertsInto(mem, mem', kind, h, s, p, e)
  <2>1. CASE kind = "LIST" \/ kind = "TAILQ"
    <3>1. mem' = LIST_INSERT_BEFORE(mem, s[p + 1], e)
      BY <1>1, <1>4, <2>1 DEF InsertBefore, TAILQ_INSERT_BEFORE
    <3> QED  BY <1>4, <1>5, <2>1, <3>1, ItemInsertBefore
  <2>2. CASE kind = "CIRCLEQ"
    <3>1. mem' = CIRCLEQ_INSERT_BEFORE(mem, h, s[p + 1], e)
      BY <1>1, <1>4, <2>2 DEF InsertBefore
    <3> QED  BY <1>4, <1>5, <2>2, <3>1, CircleqInsertBefore
  <2> QED  BY <1>2, <1>5, <2>1, <2>2 DEF QueueKinds
<1> QED  BY <1>1, <1>2, <1>4, <1>6, ListGains

\* So does each removal.
LEMMA RemoveItemKeeps ==
    ASSUME QueueInv, NEW h \in Heads, NEW e \in Items, RemoveItem(h, e)
    PROVE  QueueInv'
<1>1. PICK s : s = order[h]
  OBVIOUS
<1>2. s \in Seq(Items) /\ Len(s) \in Nat /\ UNCHANGED kind
  BY <1>1 DEF RemoveItem, QueueInv, QueueShape
<1>3. e \in ToSet(s)
  BY <1>1 DEF RemoveItem
<1>4. PICK p, s2 : p \in 1 .. Len(s) /\ s[p] = e /\ Removed(s, s2, p) /\ order' = [order EXCEPT ![h] = s2]
  <2>1. PICK p : p = IndexOf(s, e) /\ p \in 1 .. Len(s) /\ s[p] = e
    BY <1>2, <1>3, IndexFound
  <2>2. Removed(s, RemoveAt(s, p), p)
    BY <1>2, <2>1, TakenFrom
  <2>3. order' = [order EXCEPT ![h] = RemoveAt(s, p)]
    BY <1>1, <2>1 DEF RemoveItem
  <2> QED  BY <2>1, <2>2, <2>3
<1>5. CanRemove(mem, kind, h, s, p) /\ kind \in QueueKinds
  BY <1>1, <1>4, MemberCanRemove
<1>6. \E a : mem' = Freed(a, s[p]) /\ IsMem(a) /\ RemovesFrom(mem, a, kind, h, s, p)
  <2>1. CASE kind = "LIST"
    <3>1. PICK a : a = LIST_REMOVE(mem, h, s[p])
      OBVIOUS
    <3>2. mem' = Freed(a, s[p])
      BY <1>1, <1>4, <2>1, <3>1 DEF RemoveItem
    <3>3. IsMem(a) /\ RemovesFrom(mem, a, kind, h, s, p)
      BY <1>4, <1>5, <2>1, <3>1, ListRemove
    <3> QED  BY <3>2, <3>3
  <2>2. CASE kind = "SLIST"
    <3>1. PICK a : a = SLIST_REMOVE(mem, h, s[p])
      OBVIOUS
    <3>2. mem' = Freed(a, s[p])
      BY <1>1, <1>4, <2>2, <3>1 DEF RemoveItem
    <3>3. IsMem(a) /\ RemovesFrom(mem, a, kind, h, s, p)
      BY <1>4, <1>5, <2>2, <3>1, SlistRemove
    <3> QED  BY <3>2, <3>3
  <2>3. CASE kind = "STAILQ" \/ kind = "SIMPLEQ"
    <3>1. PICK a : a = STAILQ_REMOVE(mem, h, s[p])
      OBVIOUS
    <3>2. mem' = Freed(a, s[p])
      BY <1>1, <1>4, <2>3, <3>1 DEF RemoveItem, SIMPLEQ_REMOVE
    <3>3. IsMem(a) /\ RemovesFrom(mem, a, kind, h, s, p)
      BY <1>4, <1>5, <2>3, <3>1, StailqRemove
    <3> QED  BY <3>2, <3>3
  <2>4. CASE kind = "TAILQ"
    <3>1. PICK a : a = TAILQ_REMOVE(mem, h, s[p])
      OBVIOUS
    <3>2. mem' = Freed(a, s[p])
      BY <1>1, <1>4, <2>4, <3>1 DEF RemoveItem
    <3>3. IsMem(a) /\ RemovesFrom(mem, a, kind, h, s, p)
      BY <1>4, <1>5, <2>4, <3>1, TailqRemove
    <3> QED  BY <3>2, <3>3
  <2>5. CASE kind = "CIRCLEQ"
    <3>1. PICK a : a = CIRCLEQ_REMOVE(mem, h, s[p])
      OBVIOUS
    <3>2. mem' = Freed(a, s[p])
      BY <1>1, <1>4, <2>5, <3>1 DEF RemoveItem
    <3>3. IsMem(a) /\ RemovesFrom(mem, a, kind, h, s, p)
      BY <1>4, <1>5, <2>5, <3>1, CircleqRemove
    <3> QED  BY <3>2, <3>3
  <2> QED  BY <1>2, <1>5, <2>1, <2>2, <2>3, <2>4, <2>5 DEF QueueKinds
<1>7. IsMem(mem') /\ RemovesFrom(mem, mem', kind, h, s, p) /\ mem'[next(s[p])] = Junk
  BY <1>5, <1>6, FreedRemoves
<1> QED  BY <1>1, <1>2, <1>4, <1>7, ListLoses

\* RemoveHead keeps the invariant.
LEMMA RemoveHeadKeeps ==
    ASSUME QueueInv, NEW h \in Heads, RemoveHead(h)
    PROVE  QueueInv'
<1>1. PICK s : s = order[h]
  OBVIOUS
<1>2. s \in Seq(Items) /\ Len(s) \in Nat /\ UNCHANGED kind /\ kind \in {"SLIST", "STAILQ", "SIMPLEQ"}
  BY <1>1 DEF RemoveHead, QueueInv, QueueShape
<1>3. s # <<>>
  BY <1>1 DEF RemoveHead
<1>4. PICK p, s2 : p = 1 /\ p \in 1 .. Len(s) /\ Removed(s, s2, p) /\ order' = [order EXCEPT ![h] = s2]
  <2>1. 1 \in 1 .. Len(s) /\ Removed(s, Tail(s), 1)
    BY <1>2, <1>3, FirstTaken
  <2>2. order' = [order EXCEPT ![h] = Tail(s)]
    BY <1>1 DEF RemoveHead
  <2> QED  BY <2>1, <2>2
<1>5. CanRemove(mem, kind, h, s, p) /\ kind \in QueueKinds
  BY <1>1, <1>4, MemberCanRemove
<1>6. \E a : mem' = Freed(a, s[p]) /\ IsMem(a) /\ RemovesFrom(mem, a, kind, h, s, p)
  <2>1. CASE kind = "SLIST"
    <3>1. PICK a : a = SLIST_REMOVE_HEAD(mem, h)
      OBVIOUS
    <3>2. mem' = Freed(a, s[p])
      BY <1>1, <1>4, <2>1, <3>1 DEF RemoveHead
    <3>3. IsMem(a) /\ RemovesFrom(mem, a, kind, h, s, p)
      BY <1>4, <1>5, <2>1, <3>1, SlistRemoveHead
    <3> QED  BY <3>2, <3>3
  <2>2. CASE kind = "STAILQ" \/ kind = "SIMPLEQ"
    <3>1. PICK a : a = STAILQ_REMOVE_HEAD(mem, h)
      OBVIOUS
    <3>2. mem' = Freed(a, s[p])
      BY <1>1, <1>4, <2>2, <3>1 DEF RemoveHead, SIMPLEQ_REMOVE_HEAD
    <3>3. IsMem(a) /\ RemovesFrom(mem, a, kind, h, s, p)
      BY <1>4, <1>5, <2>2, <3>1, StailqRemoveHead
    <3> QED  BY <3>2, <3>3
  <2> QED  BY <1>2, <1>5, <2>1, <2>2 DEF QueueKinds
<1>7. IsMem(mem') /\ RemovesFrom(mem, mem', kind, h, s, p) /\ mem'[next(s[p])] = Junk
  BY <1>5, <1>6, FreedRemoves
<1> QED  BY <1>1, <1>2, <1>4, <1>7, ListLoses

\* And the concatenation.
LEMMA ConcatKeeps ==
    ASSUME QueueInv, NEW h \in Heads, NEW g \in Heads, Concat(h, g)
    PROVE  QueueInv'
<1>1. PICK s, t : s = order[h] /\ t = order[g]
  OBVIOUS
<1>2. /\ h # g /\ kind \in {"STAILQ", "TAILQ"} /\ UNCHANGED kind /\ s \in Seq(Items) /\ t \in Seq(Items)
      /\ order' = [order EXCEPT ![h] = s \o t, ![g] = <<>>]
  BY <1>1 DEF Concat, QueueInv, QueueShape
<1>3. CanJoin(mem, kind, h, s, g, t)
  BY <1>1, <1>2 DEF CanJoin, QueueInv, QueueShape, SharesNothing, AllLinked
<1>4. CASE Len(t) = 0
  <2>1. mem[first(g)] = NULL
    BY <1>3, <1>4, JoinReads
  <2>2. mem' = mem
    BY <1>2, <2>1 DEF Concat, STAILQ_CONCAT, TAILQ_CONCAT
  <2>3. t = <<>> /\ s \o <<>> = s
    BY <1>2, <1>4
  <2>4. order' = order
    BY <1>1, <1>2, <2>3 DEF QueueInv, QueueShape
  <2> QED  BY <1>2, <2>2, <2>4 DEF QueueInv, QueueShape, SharesNothing, SpareIsJunk, AllLinked
<1>5. CASE Len(t) # 0
  <2>1. IsMem(mem') /\ JoinsInto(mem, mem', kind, h, s, g, t)
    <3>1. CASE kind = "STAILQ"
      <4>1. mem' = STAILQ_CONCAT(mem, h, g)
        BY <3>1 DEF Concat
      <4> QED  BY <1>3, <1>5, <3>1, <4>1, StailqConcat
    <3>2. CASE kind = "TAILQ"
      <4>1. mem' = TAILQ_CONCAT(mem, h, g)
        BY <3>2 DEF Concat
      <4> QED  BY <1>3, <1>5, <3>2, <4>1, TailqConcat
    <3> QED  BY <1>2, <3>1, <3>2
  <2> QED  BY <1>1, <1>2, <1>5, <2>1, ListsJoin
<1> QED  BY <1>4, <1>5

\* In every reachable state the memory holds the lists the user expects.
THEOREM QueueInvariance == QueueSpec => []QueueInv
<1>1. QueueInit => QueueInv
  BY QueueStarts
<1>2. QueueInv /\ [QueueNext]_queueVars => QueueInv'
  <2> SUFFICES ASSUME QueueInv, [QueueNext]_queueVars PROVE QueueInv'
    OBVIOUS
  <2>1. CASE UNCHANGED queueVars
    BY <2>1 DEF queueVars, QueueInv, QueueShape, SharesNothing, SpareIsJunk, AllLinked
  <2>2. ASSUME NEW k \in QueueKinds, MakeHeads(k) PROVE QueueInv'
    BY <2>2, MakeHeadsKeeps
  <2>3. ASSUME NEW h \in Heads, NEW e \in Items, InsertHead(h, e) PROVE QueueInv'
    BY <2>3, InsertHeadKeeps
  <2>4. ASSUME NEW h \in Heads, NEW e \in Items, InsertTail(h, e) PROVE QueueInv'
    BY <2>4, InsertTailKeeps
  <2>5. ASSUME NEW h \in Heads, NEW e \in Items, RemoveItem(h, e) PROVE QueueInv'
    BY <2>5, RemoveItemKeeps
  <2>6. ASSUME NEW h \in Heads, NEW e \in Items, NEW l \in Items, InsertAfter(h, l, e) PROVE QueueInv'
    BY <2>6, InsertAfterKeeps
  <2>7. ASSUME NEW h \in Heads, NEW e \in Items, NEW l \in Items, InsertBefore(h, l, e) PROVE QueueInv'
    BY <2>7, InsertBeforeKeeps
  <2>8. ASSUME NEW h \in Heads, RemoveHead(h) PROVE QueueInv'
    BY <2>8, RemoveHeadKeeps
  <2>9. ASSUME NEW h \in Heads, NEW g \in Heads, Concat(h, g) PROVE QueueInv'
    BY <2>9, ConcatKeeps
  <2> QED  BY <2>1, <2>2, <2>3, <2>4, <2>5, <2>6, <2>7, <2>8, <2>9 DEF QueueNext
<1> QED  BY <1>1, <1>2, PTL DEF QueueSpec

\* A list is no longer than there are items.
LEMMA ListFits ==
    ASSUME NEW s \in Seq(Items), Once(s)
    PROVE  Cardinality(Items) \in Nat /\ Len(s) \in 0 .. Cardinality(Items)
<1>1. s \in Injection(1 .. Len(s), Items)
  <2>1. s \in [1 .. Len(s) -> Items]
    OBVIOUS
  <2>2. IsInjective(s)
    BY <2>1 DEF IsInjective, Once
  <2> QED  BY <2>1, <2>2 DEF Injection
<1>2. Cardinality(1 .. Len(s)) <= Cardinality(Items)
  BY <1>1, FS_Injection, QueueAssumption
<1>3. Cardinality(1 .. Len(s)) = Len(s)
  <2>1. Len(s) \in Nat
    OBVIOUS
  <2>2. Cardinality(1 .. Len(s)) = IF 1 > Len(s) THEN 0 ELSE Len(s) - 1 + 1
    BY <2>1, FS_Interval
  <2> QED  BY <2>1, <2>2
<1>4. Cardinality(Items) \in Nat
  BY FS_CardinalityType, QueueAssumption
<1> QED  BY <1>2, <1>3, <1>4

\* From the first item on each leads to the next one; from the last one on to the one before it.
Leads(s, end, x, follow) ==
    /\ s \in Seq(Items) /\ Once(s) /\ end \notin Items /\ x = (IF Len(s) = 0 THEN end ELSE s[1])
    /\ \A i \in 1 .. Len(s) : follow[s[i]] = IF i = Len(s) THEN end ELSE s[i + 1]
LeadsBack(s, end, x, follow) ==
    /\ s \in Seq(Items) /\ Once(s) /\ end \notin Items /\ x = (IF Len(s) = 0 THEN end ELSE s[Len(s)])
    /\ \A i \in 1 .. Len(s) : follow[s[i]] = IF i = 1 THEN end ELSE s[i - 1]

\* A loop visits the items of the list that lead to each other.
LEMMA WalkVisits ==
    ASSUME NEW s, NEW end, NEW x, NEW follow, Leads(s, end, x, follow)
    PROVE  Walk(x, follow) = s
<1> DEFINE N == Cardinality(Items)
           Step(a) == a = [n \in 0 .. N |-> IF n = 0 THEN x ELSE
                                            IF a[n - 1] \in Items THEN follow[a[n - 1]] ELSE a[n - 1]]
           at == CHOOSE a : Step(a)
           closed == [n \in 0 .. N |-> IF n < Len(s) THEN s[n + 1] ELSE end]
<1>0. /\ s \in Seq(Items) /\ Once(s) /\ end \notin Items /\ x = (IF Len(s) = 0 THEN end ELSE s[1])
      /\ \A i \in 1 .. Len(s) : follow[s[i]] = IF i = Len(s) THEN end ELSE s[i + 1]
  BY DEF Leads
<1>1. N \in Nat /\ Len(s) \in 0 .. N /\ Len(s) \in Nat
  BY <1>0, ListFits
<1>2. \A i \in 1 .. Len(s) : s[i] \in Items
  BY <1>0
<1>3. \A n \in 0 .. N : closed[n] = IF n < Len(s) THEN s[n + 1] ELSE end
  OBVIOUS
<1>4. \A n \in 0 .. N : closed[n] = IF n = 0 THEN x ELSE
                                    IF closed[n - 1] \in Items THEN follow[closed[n - 1]]
                                    ELSE closed[n - 1]
  <2> TAKE n \in 0 .. N
  <2> HIDE DEF closed
  <2>1. CASE n = 0
    <3>1. closed[0] = IF 0 < Len(s) THEN s[0 + 1] ELSE end
      BY <1>1, <1>3
    <3> QED  BY <1>0, <1>1, <2>1, <3>1
  <2>2. CASE n # 0
    <3>1. n - 1 \in 0 .. N /\ (n - 1) + 1 = n
      BY <1>1, <2>2
    <3>2. closed[n - 1] = IF n - 1 < Len(s) THEN s[n] ELSE end
      BY <1>3, <3>1
    <3>3. closed[n] = IF n < Len(s) THEN s[n + 1] ELSE end
      BY <1>3
    <3>4. CASE n - 1 < Len(s)
      <4>1. n \in 1 .. Len(s) /\ closed[n - 1] = s[n]
        BY <1>1, <2>2, <3>2, <3>4
      <4>2. closed[n - 1] \in Items /\ follow[closed[n - 1]] = IF n = Len(s) THEN end ELSE s[n + 1]
        BY <1>0, <1>2, <4>1
      <4>3. n < Len(s) <=> n # Len(s)
        BY <1>1, <4>1
      <4> QED  BY <2>2, <3>3, <4>2, <4>3
    <3>5. CASE ~(n - 1 < Len(s))
      <4>1. ~(n < Len(s)) /\ closed[n - 1] = end
        BY <1>1, <3>2, <3>5
      <4> QED  BY <1>0, <2>2, <3>3, <4>1
    <3> QED  BY <3>4, <3>5
  <2> QED  BY <2>1, <2>2
<1>5. Step(closed)
  BY <1>4
<1>6. Step(at)
  BY <1>5
<1>7. \A n \in 0 .. N : at[n] = closed[n]
  <2> HIDE DEF at, closed
  <2> DEFINE S == {n \in 0 .. N : at[n] = closed[n]}
  <2>1. 0 \in S /\ S \subseteq 0 .. N
    BY <1>1, <1>4, <1>6
  <2>2. ASSUME NEW n \in S, n < N PROVE n + 1 \in S
    <3>1. n + 1 \in 0 .. N /\ n + 1 # 0 /\ (n + 1) - 1 = n /\ at[n] = closed[n]
      BY <1>1, <2>2
    <3>2. at[n + 1] = IF at[n] \in Items THEN follow[at[n]] ELSE at[n]
      BY <1>6, <3>1
    <3>3. closed[n + 1] = IF closed[n] \in Items THEN follow[closed[n]] ELSE closed[n]
      BY <1>4, <3>1
    <3> QED  BY <3>1, <3>2, <3>3
  <2>3. S = 0 .. N
    <3> HIDE DEF S
    <3> QED  BY <1>1, <2>1, <2>2, UpTo
  <2> QED  BY <2>3
<1> DEFINE steps == {n \in DOMAIN at : at[n] \in Items}
<1>8. Walk(x, follow) = [n \in 1 .. Cardinality(steps) |-> at[n - 1]]
  BY DEF Walk
<1>9. DOMAIN at = 0 .. N
  BY <1>6
<1> HIDE DEF at
<1>10. steps = 0 .. Len(s) - 1
  <2>1. ASSUME NEW n \in 0 .. N PROVE at[n] \in Items <=> n < Len(s)
    <3>1. at[n] = IF n < Len(s) THEN s[n + 1] ELSE end
      BY <1>3, <1>7
    <3>2. n < Len(s) => n + 1 \in 1 .. Len(s)
      BY <1>1
    <3> QED  BY <1>0, <1>2, <3>1, <3>2
  <2>2. steps = {n \in 0 .. N : n < Len(s)}
    BY <1>9, <2>1
  <2> HIDE DEF steps
  <2> QED  BY <1>1, <2>2
<1>11. Cardinality(steps) = Len(s)
  <2> HIDE DEF steps
  <2>1. 0 \in Int /\ Len(s) - 1 \in Int
    BY <1>1
  <2>2. Cardinality(0 .. Len(s) - 1) = IF 0 > Len(s) - 1 THEN 0 ELSE Len(s) - 1 - 0 + 1
    BY <2>1, FS_Interval
  <2> QED  BY <1>1, <1>10, <2>2
<1>12. Walk(x, follow) = [n \in 1 .. Len(s) |-> s[n]]
  <2> HIDE DEF steps, closed
  <2>1. \A n \in 1 .. Len(s) : at[n - 1] = s[n]
    <3> TAKE n \in 1 .. Len(s)
    <3>1. n - 1 \in 0 .. N /\ n - 1 < Len(s) /\ (n - 1) + 1 = n
      BY <1>1
    <3> QED  BY <1>3, <1>7, <3>1
  <2> QED  BY <1>8, <1>11, <2>1
<1>13. s = [n \in 1 .. Len(s) |-> s[n]]
  BY <1>0
<1> QED  BY <1>12, <1>13

\* Backwards too.
LEMMA WalkVisitsBack ==
    ASSUME NEW s, NEW end, NEW x, NEW follow, LeadsBack(s, end, x, follow)
    PROVE  Walk(x, follow) = Reverse(s)
<1>0. /\ s \in Seq(Items) /\ Once(s) /\ end \notin Items /\ x = (IF Len(s) = 0 THEN end ELSE s[Len(s)])
      /\ \A i \in 1 .. Len(s) : follow[s[i]] = IF i = 1 THEN end ELSE s[i - 1]
  BY DEF LeadsBack
<1>1. PICK r : r = Reverse(s)
  OBVIOUS
<1>2. \A i \in 1 .. Len(s) : s[i] \in Items
  BY <1>0
<1>3. r = [i \in 1 .. Len(s) |-> s[(Len(s) - i) + 1]]
  BY <1>1 DEF Reverse
<1>4. Len(s) \in Nat /\ \A i \in 1 .. Len(s) : (Len(s) - i) + 1 \in 1 .. Len(s)
  BY <1>0
<1>5. r \in Seq(Items) /\ Len(r) = Len(s)
  BY <1>2, <1>3, <1>4
<1>6. \A i \in 1 .. Len(s) : r[i] = s[(Len(s) - i) + 1]
  BY <1>3
<1>7. Once(r)
  <2> SUFFICES ASSUME NEW i \in 1 .. Len(s), NEW j \in 1 .. Len(s), r[i] = r[j] PROVE i = j
    BY <1>5 DEF Once
  <2>1. PICK a \in 1 .. Len(s), b \in 1 .. Len(s) : a = (Len(s) - i) + 1 /\ b = (Len(s) - j) + 1
    BY <1>4
  <2>2. s[a] = s[b]
    BY <1>6, <2>1
  <2>3. a = b
    BY <1>0, <2>2 DEF Once
  <2> QED  BY <1>4, <2>1, <2>3
<1>8. x = IF Len(r) = 0 THEN end ELSE r[1]
  <2>1. Len(s) # 0 => 1 \in 1 .. Len(s) /\ (Len(s) - 1) + 1 = Len(s)
    BY <1>4
  <2> QED  BY <1>0, <1>5, <1>6, <2>1
<1>9. \A i \in 1 .. Len(r) : follow[r[i]] = IF i = Len(r) THEN end ELSE r[i + 1]
  <2> SUFFICES ASSUME NEW i \in 1 .. Len(s) PROVE follow[r[i]] = IF i = Len(s) THEN end ELSE r[i + 1]
    BY <1>5
  <2>1. PICK j \in 1 .. Len(s) : j = (Len(s) - i) + 1
    BY <1>4
  <2>2. r[i] = s[j] /\ follow[r[i]] = IF j = 1 THEN end ELSE s[j - 1]
    BY <1>0, <1>6, <2>1
  <2>3. j = 1 <=> i = Len(s)
    BY <1>4, <2>1
  <2>4. i # Len(s) => i + 1 \in 1 .. Len(s) /\ (Len(s) - (i + 1)) + 1 = j - 1
    BY <1>4, <2>1
  <2>5. i # Len(s) => r[i + 1] = s[j - 1]
    BY <1>6, <2>4
  <2> QED  BY <2>2, <2>3, <2>5
<1>10. Leads(r, end, x, follow)
  BY <1>0, <1>5, <1>7, <1>8, <1>9 DEF Leads
<1>11. Walk(x, follow) = r
  BY <1>10, WalkVisits
<1> QED  BY <1>1, <1>11

\* What a tail queue finds behind the cell of its i-th item.
LEMMA BehindFinds ==
    ASSUME NEW m, NEW h \in Heads, NEW s \in Seq(Items), Linked(m, "TAILQ", h, s), NEW i \in 0 .. Len(s)
    PROVE  m[m[Behind(Fore(h, s, i))]] = IF i = 0 THEN NULL ELSE s[i]
<1>1. Len(s) \in Nat
  OBVIOUS
<1>2. CASE i = 0
  <2>1. Behind(Fore(h, s, i)) = Rear(h, s, Len(s) + 1)
    BY <1>2 DEF Behind, Fore, Rear, first
  <2>2. m[Rear(h, s, Len(s) + 1)] = Fore(h, s, Len(s))
    BY <1>1 DEF Linked, HasBack, BackOf
  <2>3. m[Fore(h, s, Len(s))] = NULL
    BY <1>1 DEF Linked, ItemAt, EndOf
  <2> QED  BY <1>2, <2>1, <2>2, <2>3
<1>3. CASE i # 0
  <2>1. i \in 1 .. Len(s) /\ i \in 1 .. Len(s) + 1 /\ i - 1 \in 0 .. Len(s) /\ (i - 1) + 1 = i
    BY <1>1, <1>3
  <2>2. Behind(Fore(h, s, i)) = Rear(h, s, i)
    BY <1>1, <1>3, <2>1 DEF Behind, Fore, Rear, next
  <2>3. m[Rear(h, s, i)] = Fore(h, s, i - 1)
    BY <2>1 DEF Linked, HasBack, BackOf
  <2>4. m[Fore(h, s, i - 1)] = s[i]
    BY <2>1 DEF Linked, ItemAt
  <2> QED  BY <1>3, <2>2, <2>3, <2>4
<1> QED  BY <1>2, <1>3

\* What the loops of each kind read in a list of that kind.
LEMMA LoopsRead ==
    ASSUME QueueInv, kind # "none", NEW h \in Heads, NEW s, s = order[h]
    PROVE  /\ s \in Seq(Items) /\ Once(s) /\ Linked(mem, kind, h, s) /\ kind \in QueueKinds
           /\ EndOf(kind, h) \notin Items /\ Len(s) \in Nat /\ (\A i \in 1 .. Len(s) : s[i] \in Items)
           /\ mem[first(h)] = IF Len(s) = 0 THEN EndOf(kind, h) ELSE s[1]
           /\ \A i \in 1 .. Len(s) : mem[next(s[i])] = IF i = Len(s) THEN EndOf(kind, h) ELSE s[i + 1]
<1>1. s \in Seq(Items) /\ Once(s) /\ Linked(mem, kind, h, s) /\ kind \in QueueKinds
  BY DEF QueueInv, QueueShape, SharesNothing, AllLinked
<1>2. EndOf(kind, h) \notin Items
  BY QueueAssumption DEF EndOf
<1>3. Len(s) \in Nat /\ (\A i \in 1 .. Len(s) : s[i] \in Items)
  BY <1>1
<1>4. mem[first(h)] = IF Len(s) = 0 THEN EndOf(kind, h) ELSE s[1]
  <2>1. mem[Fore(h, s, 0)] = ItemAt(kind, h, s, 0 + 1)
    BY <1>1, <1>3 DEF Linked
  <2> QED  BY <1>3, <2>1 DEF Fore, ItemAt
<1>5. \A i \in 1 .. Len(s) : mem[next(s[i])] = IF i = Len(s) THEN EndOf(kind, h) ELSE s[i + 1]
  <2> TAKE i \in 1 .. Len(s)
  <2>1. mem[Fore(h, s, i)] = ItemAt(kind, h, s, i + 1)
    BY <1>1, <1>3 DEF Linked
  <2> QED  BY <1>3, <2>1 DEF Fore, ItemAt
<1> QED  BY <1>1, <1>2, <1>3, <1>4, <1>5

\* The invariant says what the loops visit.
LEMMA LoopsVisit ==
    ASSUME QueueInv, kind # "none", NEW h \in Heads, NEW s, s = order[h],
           NEW end, end = IF s = <<>> THEN first(h) ELSE next(Last(s))
    PROVE  Visits(h, s, end)
<1>1. /\ s \in Seq(Items) /\ Once(s) /\ Linked(mem, kind, h, s) /\ kind \in QueueKinds
      /\ EndOf(kind, h) \notin Items /\ Len(s) \in Nat /\ (\A i \in 1 .. Len(s) : s[i] \in Items)
      /\ mem[first(h)] = IF Len(s) = 0 THEN EndOf(kind, h) ELSE s[1]
      /\ \A i \in 1 .. Len(s) : mem[next(s[i])] = IF i = Len(s) THEN EndOf(kind, h) ELSE s[i + 1]
  BY LoopsRead
<1>2. FOREACH(h) = s
  <2>1. PICK follow : follow = [e \in Items |-> mem[next(e)]]
    OBVIOUS
  <2>2. \A i \in 1 .. Len(s) : follow[s[i]] = IF i = Len(s) THEN EndOf(kind, h) ELSE s[i + 1]
    BY <1>1, <2>1
  <2>3. Leads(s, EndOf(kind, h), mem[first(h)], follow)
    BY <1>1, <2>2 DEF Leads
  <2>4. Walk(mem[first(h)], follow) = s
    BY <2>3, WalkVisits
  <2> QED  BY <2>1, <2>4 DEF FOREACH
<1>3. ASSUME kind \in {"STAILQ", "SIMPLEQ", "TAILQ"} PROVE mem[last(h)] = Fore(h, s, Len(s))
  <2>1. Rear(h, s, Len(s) + 1) = last(h) /\ HasBack(kind, Len(s), Len(s) + 1)
        /\ Len(s) + 1 \in 1 .. Len(s) + 1
        /\ (Len(s) + 1) - 1 = Len(s)
    BY <1>1, <1>3 DEF Rear, HasBack
  <2> QED  BY <1>1, <1>3, <2>1 DEF Linked, BackOf
<1>4. ASSUME kind \in {"STAILQ", "SIMPLEQ", "TAILQ"} PROVE mem[last(h)] = end /\ mem[end] = NULL
  <2>1. s = <<>> <=> Len(s) = 0
    BY <1>1
  <2>2. end = Fore(h, s, Len(s))
    BY <2>1 DEF Fore, Last
  <2>3. mem[Fore(h, s, Len(s))] = ItemAt(kind, h, s, Len(s) + 1)
    BY <1>1 DEF Linked
  <2>4. mem[Fore(h, s, Len(s))] = NULL
    BY <1>1, <1>4, <2>3 DEF ItemAt, EndOf
  <2> QED  BY <1>3, <1>4, <2>2, <2>4
<1>5. ASSUME kind = "TAILQ" PROVE TAILQ_FOREACH_REVERSE(h) = Reverse(s)
  <2>1. PICK x, follow : x = TAILQ_LAST(mem, h) /\ follow = [e \in Items |-> TAILQ_PREV(mem, e)]
    OBVIOUS
  <2>2. mem[last(h)] = Fore(h, s, Len(s)) /\ Linked(mem, "TAILQ", h, s)
    BY <1>1, <1>3, <1>5
  <2>3. x = IF Len(s) = 0 THEN NULL ELSE s[Len(s)]
    <3>1. Len(s) \in 0 .. Len(s)
      BY <1>1
    <3> QED  BY <1>1, <2>1, <2>2, <3>1, BehindFinds DEF TAILQ_LAST
  <2>4. \A i \in 1 .. Len(s) : follow[s[i]] = IF i = 1 THEN NULL ELSE s[i - 1]
    <3> TAKE i \in 1 .. Len(s)
    <3>1. i - 1 \in 0 .. Len(s) /\ i \in 1 .. Len(s) + 1 /\ (i - 1 = 0 <=> i = 1)
      BY <1>1
    <3>2. follow[s[i]] = TAILQ_PREV(mem, s[i])
      BY <1>1, <2>1
    <3>3. mem[Rear(h, s, i)] = Fore(h, s, i - 1)
      BY <2>2, <3>1 DEF Linked, HasBack, BackOf
    <3>4. mem[prev(s[i])] = Fore(h, s, i - 1)
      BY <1>1, <3>3 DEF Rear
    <3>5. mem[mem[Behind(Fore(h, s, i - 1))]] = IF i - 1 = 0 THEN NULL ELSE s[i - 1]
      BY <1>1, <2>2, <3>1, BehindFinds
    <3> QED  BY <3>1, <3>2, <3>4, <3>5 DEF TAILQ_PREV
  <2>5. NULL \notin Items
    BY QueueAssumption
  <2>6. LeadsBack(s, NULL, x, follow)
    BY <1>1, <2>3, <2>4, <2>5 DEF LeadsBack
  <2>7. Walk(x, follow) = Reverse(s)
    BY <2>6, WalkVisitsBack
  <2> QED  BY <2>1, <2>7 DEF TAILQ_FOREACH_REVERSE
<1>6. ASSUME kind = "CIRCLEQ"
      PROVE  /\ mem[last(h)] = IF Len(s) = 0 THEN h ELSE s[Len(s)]
             /\ \A i \in 1 .. Len(s) : mem[prev(s[i])] = IF i = 1 THEN h ELSE s[i - 1]
  <2>1. \A i \in 1 .. Len(s) + 1 : mem[Rear(h, s, i)] = ItemAt(kind, h, s, i - 1)
    BY <1>1, <1>6 DEF Linked, HasBack, BackOf
  <2>2. mem[last(h)] = IF Len(s) = 0 THEN h ELSE s[Len(s)]
    <3>1. Len(s) + 1 \in 1 .. Len(s) + 1 /\ (Len(s) + 1) - 1 = Len(s)
      BY <1>1
    <3>2. mem[last(h)] = ItemAt(kind, h, s, Len(s))
      BY <2>1, <3>1 DEF Rear
    <3> QED  BY <1>1, <1>6, <3>2 DEF ItemAt, EndOf
  <2>3. \A i \in 1 .. Len(s) : mem[prev(s[i])] = IF i = 1 THEN h ELSE s[i - 1]
    <3> TAKE i \in 1 .. Len(s)
    <3>1. i \in 1 .. Len(s) + 1 /\ Rear(h, s, i) = prev(s[i]) /\ (i - 1 \in 1 .. Len(s) <=> i # 1)
      BY <1>1 DEF Rear
    <3>2. mem[prev(s[i])] = ItemAt(kind, h, s, i - 1)
      BY <2>1, <3>1
    <3> QED  BY <1>6, <3>1, <3>2 DEF ItemAt, EndOf
  <2> QED  BY <2>2, <2>3
<1>7. ASSUME kind = "CIRCLEQ" PROVE CIRCLEQ_FOREACH_REVERSE(h) = Reverse(s)
  <2>1. PICK x, follow : x = mem[last(h)] /\ follow = [e \in Items |-> mem[prev(e)]]
    OBVIOUS
  <2>2. \A i \in 1 .. Len(s) : follow[s[i]] = IF i = 1 THEN h ELSE s[i - 1]
    BY <1>1, <1>6, <1>7, <2>1
  <2>3. h \notin Items
    BY QueueAssumption
  <2>4. LeadsBack(s, h, x, follow)
    BY <1>1, <1>6, <1>7, <2>1, <2>2, <2>3 DEF LeadsBack
  <2>5. Walk(x, follow) = Reverse(s)
    BY <2>4, WalkVisitsBack
  <2> QED  BY <2>1, <2>5 DEF CIRCLEQ_FOREACH_REVERSE
<1>8. ASSUME kind = "CIRCLEQ", NEW i \in DOMAIN s
      PROVE  /\ CIRCLEQ_LOOP_NEXT(mem, h, s[i]) = s[IF i = Len(s) THEN 1 ELSE i + 1]
             /\ CIRCLEQ_LOOP_PREV(mem, h, s[i]) = s[IF i = 1 THEN Len(s) ELSE i - 1]
  <2>1. i \in 1 .. Len(s) /\ Len(s) # 0 /\ (i # Len(s) => i + 1 \in 1 .. Len(s)) /\ (i # 1
        => i - 1 \in 1 .. Len(s))
    BY <1>1, <1>8
  <2>2. EndOf(kind, h) = h /\ \A j \in 1 .. Len(s) : s[j] # h
    BY <1>1, <1>8, QueueAssumption DEF EndOf
  <2>3. mem[next(s[i])] = IF i = Len(s) THEN h ELSE s[i + 1]
    BY <1>1, <2>1, <2>2
  <2>4. CIRCLEQ_LOOP_NEXT(mem, h, s[i]) = s[IF i = Len(s) THEN 1 ELSE i + 1]
    BY <1>1, <2>1, <2>2, <2>3 DEF CIRCLEQ_LOOP_NEXT
  <2>5. mem[prev(s[i])] = IF i = 1 THEN h ELSE s[i - 1]
    BY <1>6, <1>8, <2>1
  <2>6. CIRCLEQ_LOOP_PREV(mem, h, s[i]) = s[IF i = 1 THEN Len(s) ELSE i - 1]
    BY <1>6, <1>8, <2>1, <2>2, <2>5 DEF CIRCLEQ_LOOP_PREV
  <2> QED  BY <2>4, <2>6
<1> QED  BY <1>2, <1>4, <1>5, <1>7, <1>8 DEF Visits

\* For every head.
LEMMA QueueInvOrders == QueueInv => ListsKeepOrder
<1> SUFFICES ASSUME QueueInv, kind # "none" PROVE ListsKeepOrder
  BY DEF ListsKeepOrder
<1> QED  BY LoopsVisit DEF ListsKeepOrder

\* Whatever was inserted, removed and concatenated: the loops visit what the user expects.
THEOREM ListsKeepOrderSafety == QueueSpec => []ListsKeepOrder
  BY QueueInvariance, QueueInvOrders, PTL
-----------------------------------------------------------------------------
(***************************************************************************)
(* Fbarray: any width of a mask and any length.                            *)
(***************************************************************************)
\* A set of numbers has a least one.
LEMMA LeastIsThere ==
    ASSUME NEW S, S \subseteq Nat, S # {}
    PROVE  Min(S) \in S /\ \A y \in S : Min(S) <= y
<1>1. PICK top \in S : TRUE
  OBVIOUS
<1>2. ASSUME \A m \in S : \E y \in S : ~(m <= y) PROVE FALSE
  <2> DEFINE T == {k \in 0 .. top : \A y \in S : k < y}
  <2>1. T \subseteq 0 .. top /\ top \in Nat
    BY <1>1
  <2>2. 0 \in T
    <3>1. 0 \notin S
      BY <1>2
    <3> QED  BY <2>1, <3>1
  <2>3. ASSUME NEW k \in T, k < top PROVE k + 1 \in T
    <3>1. \A y \in S : k + 1 <= y
      OBVIOUS
    <3>2. k + 1 \notin S
      BY <1>2, <3>1
    <3> QED  BY <2>1, <2>3, <3>1, <3>2
  <2>4. T = 0 .. top
    <3> HIDE DEF T
    <3> QED  BY <2>1, <2>2, <2>3, UpTo
  <2>5. top \in T
    BY <2>1, <2>4
  <2> QED  BY <1>1, <2>1, <2>5
<1>3. \E m \in S : \A y \in S : m =< y
  BY <1>2
<1> QED  BY <1>3 DEF Min

\* It is the one that no other is below.
LEMMA LeastIs ==
    ASSUME NEW S, S \subseteq Nat, NEW m \in S, \A y \in S : m <= y
    PROVE  Min(S) = m
<1>1. Min(S) \in S /\ \A y \in S : Min(S) <= y
  BY LeastIsThere
<1>2. PICK k \in S : k = Min(S)
  BY <1>1
<1>3. k <= m /\ m <= k /\ k \in Nat /\ m \in Nat
  BY <1>1, <1>2
<1> QED  BY <1>2, <1>3

\* The mask of an element, and its bit there.
LEMMA MaskSplit ==
    ASSUME NEW x \in Nat
    PROVE  /\ MASK_LEN_TO_IDX(x) \in Nat /\ MASK_LEN_TO_MOD(x) \in MaskBits
           /\ MASK_GET_IDX(MASK_LEN_TO_IDX(x), MASK_LEN_TO_MOD(x)) = x
<1>1. MASK_ALIGN \in Nat \ {0}
  BY FbarrayAssumption
<1>2. /\ x \div MASK_ALIGN \in Int /\ x % MASK_ALIGN \in Int
      /\ 0 <= x % MASK_ALIGN /\ x % MASK_ALIGN < MASK_ALIGN
  BY <1>1
<1>3. x = (x \div MASK_ALIGN) * MASK_ALIGN + (x % MASK_ALIGN)
  BY <1>1
<1>4. x \div MASK_ALIGN >= 0
  BY <1>1
<1> QED
  BY <1>1, <1>2, <1>3, <1>4 DEF MASK_LEN_TO_IDX, MASK_LEN_TO_MOD, MASK_GET_IDX, MaskBits

\* A bit of a mask is before every bit of the masks behind.
LEMMA MaskOrder ==
    ASSUME NEW i \in Nat, NEW j \in Nat, NEW b \in MaskBits, NEW c \in Nat, i < j
    PROVE  MASK_GET_IDX(i, b) < MASK_GET_IDX(j, c)
<1>1. MASK_ALIGN \in Nat \ {0} /\ b < MASK_ALIGN
  BY FbarrayAssumption DEF MaskBits
<1>2. PICK d \in Nat : j = i + 1 + d
  <2>1. j - i - 1 \in Nat /\ j = i + 1 + (j - i - 1)
    OBVIOUS
  <2> QED  BY <2>1
<1>3. j * MASK_ALIGN = i * MASK_ALIGN + MASK_ALIGN + d * MASK_ALIGN
  BY <1>1, <1>2
<1>4. i * MASK_ALIGN \in Nat /\ d * MASK_ALIGN \in Nat /\ j * MASK_ALIGN \in Nat
  BY <1>1
<1> QED  BY <1>1, <1>3, <1>4 DEF MASK_GET_IDX, MaskBits

\* A mask and a bit name one element.
LEMMA MaskJoin ==
    ASSUME NEW i \in Nat, NEW b \in MaskBits
    PROVE  /\ MASK_GET_IDX(i, b) \in Nat
           /\ MASK_LEN_TO_IDX(MASK_GET_IDX(i, b)) = i
           /\ MASK_LEN_TO_MOD(MASK_GET_IDX(i, b)) = b
<1>1. MASK_ALIGN \in Nat \ {0} /\ b \in Nat
  BY FbarrayAssumption DEF MaskBits
<1>2. MASK_GET_IDX(i, b) \in Nat
  BY <1>1 DEF MASK_GET_IDX
<1>3. PICK x \in Nat : x = MASK_GET_IDX(i, b)
  BY <1>2
<1>4. PICK j \in Nat, c \in MaskBits : j = MASK_LEN_TO_IDX(x) /\ c = MASK_LEN_TO_MOD(x)
                                         /\ MASK_GET_IDX(j, c) = x
  BY MaskSplit
<1>5. j = i
  <2>1. c \in Nat /\ x \in Nat
    BY <1>4 DEF MaskBits
  <2>2. ~(i < j)
    BY <1>1, <1>3, <1>4, <2>1, MaskOrder
  <2>3. ~(j < i)
    BY <1>1, <1>3, <1>4, <2>1, MaskOrder
  <2> QED  BY <2>2, <2>3
<1>6. c = b
  <2>1. i * MASK_ALIGN \in Nat /\ i * MASK_ALIGN + c = i * MASK_ALIGN + b
    BY <1>1, <1>3, <1>4, <1>5 DEF MASK_GET_IDX
  <2> QED  BY <1>1, <1>4, <2>1 DEF MaskBits
<1> QED  BY <1>2, <1>3, <1>4, <1>5, <1>6

\* The masks of an array: those before the one its length cuts, and that one.
LEMMA MasksOfLength ==
    ASSUME len \in Nat
    PROVE  /\ LastIdx \in Nat
           /\ n_masks = IF BelowLast = {} THEN LastIdx ELSE LastIdx + 1
<1> DEFINE m == MASK_LEN_TO_MOD(len)
<1>1. LastIdx \in Nat /\ m \in MaskBits /\ len = LastIdx * MASK_ALIGN + m
  BY MaskSplit DEF LastIdx, MASK_GET_IDX
<1>2. MASK_ALIGN \in Nat \ {0}
  BY FbarrayAssumption
<1>3. BelowLast = {} <=> m = 0
  BY <1>1, <1>2 DEF BelowLast, MaskBits
<1> HIDE DEF m
<1>4. CASE m = 0
  <2>1. len + MASK_ALIGN - 1 = MASK_GET_IDX(LastIdx, MASK_ALIGN - 1)
    <3>1. LastIdx * MASK_ALIGN \in Nat
      BY <1>1, <1>2
    <3> QED  BY <1>1, <1>2, <1>4, <3>1 DEF MASK_GET_IDX
  <2>2. MASK_ALIGN - 1 \in MaskBits
    BY <1>2 DEF MaskBits
  <2>3. n_masks = LastIdx
    BY <1>1, <2>1, <2>2, MaskJoin DEF n_masks
  <2> QED  BY <1>1, <1>3, <1>4, <2>3
<1>5. CASE m # 0
  <2>1. len + MASK_ALIGN - 1 = MASK_GET_IDX(LastIdx + 1, m - 1)
    <3>1. LastIdx * MASK_ALIGN \in Nat /\ (LastIdx + 1) * MASK_ALIGN = LastIdx * MASK_ALIGN + MASK_ALIGN
      BY <1>1, <1>2
    <3> QED  BY <1>1, <1>2, <3>1 DEF MASK_GET_IDX, MaskBits
  <2>2. m - 1 \in MaskBits
    BY <1>1, <1>2, <1>5 DEF MaskBits
  <2>3. n_masks = LastIdx + 1
    BY <1>1, <2>1, <2>2, MaskJoin DEF n_masks
  <2> QED  BY <1>1, <1>3, <1>5, <2>3
<1> QED  BY <1>4, <1>5

\* The bits of a mask that elements have, and those of the elements from start on.
Real(idx) == IF idx = LastIdx THEN BelowLast ELSE MaskBits
Later(idx, start) == IF idx = FirstIdx(start) THEN NotBefore(start) ELSE MaskBits

\* The last mask is cut where the array ends.
LEMMA RealBits ==
    ASSUME len \in Nat, NEW i \in 0 .. n_masks - 1, NEW b \in MaskBits
    PROVE  MASK_GET_IDX(i, b) < len <=> b \in Real(i)
<1> DEFINE m == MASK_LEN_TO_MOD(len)
<1>1. LastIdx \in Nat /\ m \in MaskBits /\ len = MASK_GET_IDX(LastIdx, m)
  BY MaskSplit DEF LastIdx
<1>2. n_masks \in Nat /\ i \in Nat /\ i <= LastIdx
  BY <1>1, MasksOfLength
<1>3. m \in Nat /\ b \in Nat /\ MASK_ALIGN \in Nat
  BY <1>1, FbarrayAssumption DEF MaskBits
<1> HIDE DEF m
<1>4. CASE i = LastIdx
  <2>1. i * MASK_ALIGN \in Nat
    BY <1>2, <1>3
  <2>2. MASK_GET_IDX(i, b) < len <=> b < m
    BY <1>1, <1>3, <1>4, <2>1 DEF MASK_GET_IDX
  <2> QED  BY <1>4, <2>2 DEF Real, BelowLast, m
<1>5. CASE i < LastIdx
  <2>1. MASK_GET_IDX(i, b) < len
    BY <1>1, <1>2, <1>3, <1>5, MaskOrder
  <2> QED  BY <1>1, <1>2, <1>5, <2>1 DEF Real
<1> QED  BY <1>1, <1>2, <1>4, <1>5

\* The first mask is cut at the start.
LEMMA LaterBits ==
    ASSUME NEW start \in Nat, NEW i \in Nat, FirstIdx(start) <= i, NEW b \in MaskBits
    PROVE  MASK_GET_IDX(i, b) >= start <=> b \in Later(i, start)
<1> DEFINE m == MASK_LEN_TO_MOD(start)
           begin == FirstIdx(start)
<1>1. begin \in Nat /\ m \in MaskBits /\ start = MASK_GET_IDX(begin, m)
  BY MaskSplit DEF FirstIdx
<1>2. m \in Nat /\ b \in Nat /\ MASK_ALIGN \in Nat
  BY <1>1, FbarrayAssumption DEF MaskBits
<1>3. MASK_GET_IDX(i, b) \in Nat
  BY MaskJoin
<1> HIDE DEF m
<1>4. CASE i = begin
  <2>1. i * MASK_ALIGN \in Nat
    BY <1>2
  <2>2. MASK_GET_IDX(i, b) >= start <=> b >= m
    BY <1>1, <1>2, <1>4, <2>1 DEF MASK_GET_IDX
  <2> QED  BY <1>4, <2>2 DEF Later, NotBefore, m
<1>5. CASE begin < i
  <2>1. MASK_GET_IDX(i, b) > start
    BY <1>1, <1>2, <1>3, <1>5, MaskOrder
  <2> QED  BY <1>1, <1>3, <1>5, <2>1 DEF Later
<1> QED  BY <1>1, <1>4, <1>5

\* The mask of an element of the array is there.
LEMMA ElementsHaveMasks ==
    ASSUME len \in Nat, NEW x \in Elements
    PROVE  MASK_LEN_TO_IDX(x) \in 0 .. n_masks - 1 /\ n_masks \in Nat
<1> DEFINE i == MASK_LEN_TO_IDX(x)
           b == MASK_LEN_TO_MOD(x)
           m == MASK_LEN_TO_MOD(len)
<1>1. x \in Nat /\ x < len
  BY DEF Elements
<1>2. i \in Nat /\ b \in MaskBits /\ x = MASK_GET_IDX(i, b)
  BY <1>1, MaskSplit
<1>3. LastIdx \in Nat /\ m \in MaskBits /\ len = MASK_GET_IDX(LastIdx, m)
  BY MaskSplit DEF LastIdx
<1>4. b \in Nat /\ m \in Nat /\ MASK_ALIGN \in Nat
  BY <1>2, <1>3, FbarrayAssumption DEF MaskBits
<1> HIDE DEF i, b, m
<1>5. i <= LastIdx
  <2>1. ~(LastIdx < i)
    BY <1>1, <1>2, <1>3, <1>4, MaskOrder
  <2> QED  BY <1>2, <1>3, <2>1
<1>6. i = LastIdx => m # 0
  <2>1. LastIdx * MASK_ALIGN \in Nat
    BY <1>3, <1>4
  <2> QED  BY <1>1, <1>2, <1>3, <1>4, <2>1 DEF MASK_GET_IDX
<1>7. i = LastIdx => BelowLast # {}
  <2>1. m # 0 => 0 \in BelowLast
    BY <1>3, <1>4 DEF BelowLast, MaskBits, m
  <2> QED  BY <1>6, <2>1
<1>8. n_masks \in Nat /\ n_masks = IF BelowLast = {} THEN LastIdx ELSE LastIdx + 1
  BY MasksOfLength
<1>9. i <= n_masks - 1
  BY <1>2, <1>3, <1>5, <1>7, <1>8
<1> QED  BY <1>2, <1>8, <1>9 DEF i

\* What an array consists of.
FbShape == /\ len \in Nat /\ data \in [0 .. n_masks - 1 -> SUBSET MaskBits]
           /\ \A i \in 0 .. n_masks - 1 : \A b \in data[i] : MASK_GET_IDX(i, b) < len

\* The elements, mask by mask.
LEMMA HoldingBits ==
    ASSUME FbShape, NEW used \in BOOLEAN, NEW i \in 0 .. n_masks - 1, NEW b \in MaskBits
    PROVE  MASK_GET_IDX(i, b) \in Holding(used) <=> b \in Wanted(i, used) \cap Real(i)
<1>1. len \in Nat /\ MASK_GET_IDX(i, b) \in Nat /\ i \in Nat
  BY MaskJoin, MasksOfLength DEF FbShape
<1>2. MASK_LEN_TO_IDX(MASK_GET_IDX(i, b)) = i /\ MASK_LEN_TO_MOD(MASK_GET_IDX(i, b)) = b
  BY <1>1, MaskJoin
<1>3. MASK_GET_IDX(i, b) \in Elements <=> b \in Real(i)
  BY <1>1, RealBits DEF Elements
<1>4. IsUsed(MASK_GET_IDX(i, b)) <=> b \in data[i]
  BY <1>2 DEF IsUsed
<1>5. b \in Wanted(i, used) <=> (b \in data[i]) = used
  BY DEF Wanted
<1>6. MASK_GET_IDX(i, b) \in Holding(used)
         <=> MASK_GET_IDX(i, b) \in Elements /\ IsUsed(MASK_GET_IDX(i, b)) = used
  BY DEF Holding
<1>7. (IsUsed(MASK_GET_IDX(i, b)) = used) <=> b \in Wanted(i, used)
  <2>1. CASE used = TRUE
    BY <1>4, <2>1 DEF Wanted, IsUsed
  <2>2. CASE used = FALSE
    BY <1>4, <2>2 DEF Wanted, IsUsed
  <2> QED  BY <2>1, <2>2
<1> QED  BY <1>3, <1>6, <1>7

\* An element and its bit.
LEMMA ElementBits ==
    ASSUME FbShape, NEW x \in Elements
    PROVE  \E i \in 0 .. n_masks - 1 : \E b \in MaskBits :
              MASK_GET_IDX(i, b) = x /\ i = MASK_LEN_TO_IDX(x) /\ b = MASK_LEN_TO_MOD(x)
<1>1. x \in Nat /\ len \in Nat
  BY DEF Elements, FbShape
<1> QED  BY <1>1, MaskSplit, ElementsHaveMasks

\* The bits that find_next looks at are the elements looked for.
LEMMA SoughtBits ==
    ASSUME FbShape, NEW start \in Elements, NEW used \in BOOLEAN,
           NEW i \in FirstIdx(start) .. n_masks - 1, NEW b \in MaskBits
    PROVE  b \in (Wanted(i, used) \cap Real(i)) \cap Later(i, start)
              <=> MASK_GET_IDX(i, b) \in {x \in Holding(used) : x >= start}
<1>1. start \in Nat /\ len \in Nat
  BY DEF Elements, FbShape
<1>2. FirstIdx(start) \in Nat /\ n_masks \in Nat
  BY <1>1, ElementsHaveMasks, MaskSplit DEF FirstIdx
<1>3. i \in 0 .. n_masks - 1 /\ i \in Nat /\ FirstIdx(start) <= i
  BY <1>2
<1>4. MASK_GET_IDX(i, b) \in Holding(used) <=> b \in Wanted(i, used) \cap Real(i)
  BY <1>3, HoldingBits
<1>5. MASK_GET_IDX(i, b) >= start <=> b \in Later(i, start)
  BY <1>1, <1>3, LaterBits
<1> QED  BY <1>4, <1>5

\* The elements from start on are in the masks from its own on.
LEMMA SoughtMasks ==
    ASSUME FbShape, NEW start \in Elements, NEW x \in Elements, x >= start
    PROVE  MASK_LEN_TO_IDX(x) \in FirstIdx(start) .. n_masks - 1
<1>1. start \in Nat /\ x \in Nat /\ len \in Nat
  BY DEF Elements, FbShape
<1>2. PICK i \in Nat, b \in MaskBits : i = MASK_LEN_TO_IDX(x) /\ MASK_GET_IDX(i, b) = x
  BY <1>1, MaskSplit
<1>3. PICK j \in Nat, c \in MaskBits : j = FirstIdx(start) /\ MASK_GET_IDX(j, c) = start
  BY <1>1, MaskSplit DEF FirstIdx
<1>4. ~(i < j)
  <2>1. c \in Nat
    BY DEF MaskBits
  <2>2. i < j => x < start
    BY <1>2, <1>3, <2>1, MaskOrder
  <2> QED  BY <1>1, <2>2
<1>5. i \in 0 .. n_masks - 1 /\ n_masks \in Nat
  BY <1>1, <1>2, ElementsHaveMasks
<1> QED  BY <1>2, <1>3, <1>4, <1>5

\* find_next: the first mask with a bit looked for, and the first one there.
LEMMA FindNext ==
    ASSUME FbShape, NEW start \in Elements, NEW used \in BOOLEAN
    PROVE  find_next(start, used) = LeastOr({x \in Holding(used) : x >= start})
<1> DEFINE S == {x \in Holding(used) : x >= start}
           cur(i) == (Wanted(i, used) \cap Real(i)) \cap Later(i, start)
           hits == {i \in FirstIdx(start) .. n_masks - 1 : cur(i) # {}}
<1>1. find_next(start, used) = IF hits = {} THEN -1 ELSE MASK_GET_IDX(Min(hits), Min(cur(Min(hits))))
  BY DEF find_next, Real, Later
<1>2. \A i \in FirstIdx(start) .. n_masks - 1 :
         \A b \in MaskBits : b \in cur(i) <=> MASK_GET_IDX(i, b) \in S
  BY SoughtBits
<1>3. \A i : cur(i) \subseteq MaskBits
  BY DEF Real, Later, BelowLast, NotBefore
<1>4. \A x \in S : /\ x \in Elements /\ MASK_LEN_TO_IDX(x) \in hits
                   /\ MASK_LEN_TO_MOD(x) \in cur(MASK_LEN_TO_IDX(x))
                   /\ MASK_GET_IDX(MASK_LEN_TO_IDX(x), MASK_LEN_TO_MOD(x)) = x
  <2> SUFFICES ASSUME NEW x \in S
               PROVE  /\ x \in Elements /\ MASK_LEN_TO_IDX(x) \in hits
                      /\ MASK_LEN_TO_MOD(x) \in cur(MASK_LEN_TO_IDX(x))
                      /\ MASK_GET_IDX(MASK_LEN_TO_IDX(x), MASK_LEN_TO_MOD(x)) = x
    OBVIOUS
  <2>1. x \in Elements /\ x >= start
    BY DEF Holding
  <2>2. PICK i \in 0 .. n_masks - 1, b \in MaskBits :
           MASK_GET_IDX(i, b) = x /\ i = MASK_LEN_TO_IDX(x) /\ b = MASK_LEN_TO_MOD(x)
    BY <2>1, ElementBits
  <2>3. i \in FirstIdx(start) .. n_masks - 1
    BY <2>1, <2>2, SoughtMasks
  <2>4. b \in cur(i)
    BY <1>2, <2>2, <2>3
  <2> QED  BY <2>1, <2>2, <2>3, <2>4
<1>5. S \subseteq Nat /\ FirstIdx(start) \in Nat /\ MaskBits \subseteq Nat /\ n_masks \in Nat
  <2>1. start \in Nat /\ len \in Nat /\ S \subseteq Nat
    BY DEF Elements, FbShape, Holding
  <2>2. MaskBits \subseteq Nat
    BY DEF MaskBits
  <2> QED  BY <2>1, <2>2, MaskSplit, ElementsHaveMasks DEF FirstIdx
<1> HIDE DEF S, cur
<1>6. CASE hits = {}
  BY <1>1, <1>4, <1>6 DEF LeastOr, S
<1>7. CASE hits # {}
  <2>1. hits \subseteq Nat
    BY <1>5
  <2>2. PICK i \in hits : i = Min(hits) /\ \A j \in hits : i <= j
    BY <1>7, <2>1, LeastIsThere
  <2>3. cur(i) # {} /\ cur(i) \subseteq Nat /\ i \in FirstIdx(start) .. n_masks - 1 /\ i \in Nat
    BY <1>3, <1>5, <2>1, <2>2
  <2>4. PICK b \in cur(i) : b = Min(cur(i)) /\ \A c \in cur(i) : b <= c
    BY <2>3, LeastIsThere
  <2>5. b \in MaskBits /\ MASK_GET_IDX(i, b) \in S
    BY <1>2, <1>3, <2>3, <2>4
  <2>6. ASSUME NEW x \in S PROVE MASK_GET_IDX(i, b) <= x
    <3> DEFINE j == MASK_LEN_TO_IDX(x)
               c == MASK_LEN_TO_MOD(x)
    <3>1. j \in hits /\ c \in cur(j) /\ MASK_GET_IDX(j, c) = x /\ j \in Nat /\ c \in Nat
      BY <1>3, <1>4, <1>5, <2>1
    <3> HIDE DEF j, c
    <3>2. CASE i < j
      <4>1. MASK_GET_IDX(i, b) < MASK_GET_IDX(j, c)
        BY <2>3, <2>5, <3>1, <3>2, MaskOrder
      <4>2. MASK_GET_IDX(i, b) \in Nat /\ x \in Nat
        BY <1>5, <2>5
      <4>3. MASK_GET_IDX(i, b) < x
        BY <3>1, <4>1
      <4> QED  BY <4>2, <4>3
    <3>3. CASE i = j
      <4>1. b <= c /\ b \in Nat
        BY <1>5, <2>4, <2>5, <3>1, <3>3
      <4>2. i * MASK_ALIGN \in Nat
        BY <2>3, FbarrayAssumption
      <4> QED  BY <3>1, <3>3, <4>1, <4>2 DEF MASK_GET_IDX
    <3> QED  BY <2>2, <2>3, <3>1, <3>2, <3>3
  <2>7. Min(S) = MASK_GET_IDX(i, b)
    BY <1>5, <2>5, <2>6, LeastIs
  <2>8. LeastOr(S) = MASK_GET_IDX(i, b)
    BY <2>5, <2>7 DEF LeastOr
  <2>9. find_next(start, used) = MASK_GET_IDX(i, b)
    BY <1>1, <1>7, <2>2, <2>4
  <2> QED  BY <2>8, <2>9 DEF S
<1> QED  BY <1>6, <1>7

\* The counter of the used elements is exact.
FbCounted == count = Cardinality(Holding(TRUE))

\* What the counter tells of the elements.
LEMMA WhatCountTells ==
    ASSUME FbShape, FbCounted
    PROVE  /\ count \in Nat /\ len \in Nat
           /\ \A used \in BOOLEAN : IsFiniteSet(Holding(used))
           /\ Cardinality(Holding(FALSE)) = len - count
           /\ count = 0 => Holding(TRUE) = {}
           /\ len = count => Holding(FALSE) = {}
           /\ count = 0 => Holding(FALSE) = Elements
           /\ Holding(FALSE) = {} => len = count
<1>1. len \in Nat /\ IsFiniteSet(Elements) /\ Cardinality(Elements) = len
  <2>1. len \in Nat
    BY DEF FbShape
  <2>2. /\ IsFiniteSet(0 .. len - 1)
        /\ Cardinality(0 .. len - 1) = IF 0 > len - 1 THEN 0 ELSE (len - 1) - 0 + 1
    BY <2>1, FS_Interval
  <2> QED  BY <2>1, <2>2 DEF Elements
<1>2. Holding(FALSE) = Elements \ Holding(TRUE) /\ Holding(TRUE) \subseteq Elements
  BY DEF Holding, IsUsed
<1>3. IsFiniteSet(Holding(TRUE)) /\ IsFiniteSet(Holding(FALSE))
  BY <1>1, <1>2, FS_Subset
<1>4. count \in Nat
  BY <1>3, FS_CardinalityType DEF FbCounted
<1>5. Cardinality(Holding(FALSE)) = len - count
  <2>1. Elements \cap Holding(TRUE) = Holding(TRUE)
    BY <1>2
  <2>2. Cardinality(Elements \ Holding(TRUE))
           = Cardinality(Elements) - Cardinality(Elements \cap Holding(TRUE))
    BY <1>1, FS_Difference
  <2> QED  BY <1>1, <1>2, <2>1, <2>2 DEF FbCounted
<1>6. count = 0 => Holding(TRUE) = {}
  BY <1>3, FS_EmptySet DEF FbCounted
<1>7. len = count => Holding(FALSE) = {}
  <2>1. len - count = 0 <=> len = count
    BY <1>1, <1>4
  <2>3. len = count => Cardinality(Holding(FALSE)) = 0
    BY <1>5, <2>1
  <2>2. Cardinality(Holding(FALSE)) = 0 => Holding(FALSE) = {}
    BY <1>3, FS_EmptySet
  <2> QED  BY <2>2, <2>3
<1>8. count = 0 => Holding(FALSE) = Elements
  BY <1>2, <1>6
<1>9. Holding(FALSE) = {} => len = count
  <2>1. Holding(FALSE) = {} => Cardinality(Holding(FALSE)) = 0
    BY <1>3, FS_EmptySet
  <2>2. len - count = 0 <=> len = count
    BY <1>1, <1>4
  <2> QED  BY <1>5, <2>1, <2>2
<1> QED  BY <1>1, <1>3, <1>4, <1>5, <1>6, <1>7, <1>8, <1>9, ZenonT(30)

\* Where the run of elements of one kind from p on ends.
RunEnd(p, used) == LET ends == {x \in Elements : x >= p /\ x \notin Holding(used)}
                   IN IF ends = {} THEN len ELSE Min(ends)

\* Everything up to there is of the kind, and what is there is not.
LEMMA RunEndIs ==
    ASSUME FbShape, NEW p \in Elements, NEW used \in BOOLEAN
    PROVE  /\ RunEnd(p, used) \in p .. len /\ RunEnd(p, used) \notin Holding(used)
           /\ p .. RunEnd(p, used) - 1 \subseteq Holding(used)
<1> DEFINE ends == {x \in Elements : x >= p /\ x \notin Holding(used)}
<1>1. len \in Nat /\ p \in Nat /\ p < len /\ ends \subseteq Nat /\ Elements = 0 .. len - 1
  BY DEF FbShape, Elements
<1>2. RunEnd(p, used) = IF ends = {} THEN len ELSE Min(ends)
  BY DEF RunEnd
<1>3. Holding(used) \subseteq Elements
  BY DEF Holding
<1>4. CASE ends = {}
  <2>1. len \notin Holding(used)
    BY <1>1, <1>3
  <2> QED  BY <1>1, <1>2, <1>4, <2>1
<1>5. CASE ends # {}
  <2>1. PICK m \in ends : m = Min(ends) /\ \A y \in ends : m <= y
    BY <1>1, <1>5, LeastIsThere
  <2>2. m \in p .. len /\ m \notin Holding(used) /\ m \in Nat /\ m < len
    BY <1>1, <2>1
  <2>3. ASSUME NEW x \in p .. m - 1 PROVE x \in Holding(used)
    <3>1. x \in Elements /\ x >= p /\ ~(m <= x)
      BY <1>1, <2>2
    <3> QED  BY <2>1, <3>1
  <2> QED  BY <1>2, <1>5, <2>1, <2>2, <2>3
<1> QED  BY <1>4, <1>5

\* It is the only such place.
LEMMA RunEnds ==
    ASSUME FbShape, NEW p \in Elements, NEW used \in BOOLEAN, NEW q \in Nat, p <= q,
           p .. q - 1 \subseteq Holding(used), q \notin Holding(used)
    PROVE  RunEnd(p, used) = q
<1>1. PICK r \in p .. len :
         r = RunEnd(p, used) /\ r \notin Holding(used) /\ p .. r - 1 \subseteq Holding(used)
  BY RunEndIs
<1>2. p \in Nat /\ r \in Nat
  BY DEF Elements, FbShape
<1>3. ~(r < q)
  BY <1>1, <1>2
<1>4. ~(q < r)
  BY <1>1, <1>2
<1> QED  BY <1>1, <1>2, <1>3, <1>4

\* A run ends where any part of it that reaches that far does.
LEMMA RunGoesOn ==
    ASSUME FbShape, NEW p \in Elements, NEW used \in BOOLEAN, NEW q \in Elements, p <= q,
           p .. q - 1 \subseteq Holding(used)
    PROVE  RunEnd(p, used) = RunEnd(q, used)
<1>1. PICK r \in q .. len :
         r = RunEnd(q, used) /\ r \notin Holding(used) /\ q .. r - 1 \subseteq Holding(used)
  BY RunEndIs
<1>2. p \in Nat /\ q \in Nat /\ r \in Nat
  BY DEF Elements, FbShape
<1>3. p .. r - 1 \subseteq Holding(used)
  <2> SUFFICES ASSUME NEW x \in p .. r - 1 PROVE x \in Holding(used)
    OBVIOUS
  <2>1. x \in p .. q - 1 \/ x \in q .. r - 1
    BY <1>2
  <2> QED  BY <1>1, <2>1
<1> QED  BY <1>1, <1>2, <1>3, RunEnds

\* Where find_contig begins in a mask, and the first bit there that is not of the run.
ContigFrom(idx, start) == IF idx = FirstIdx(start) THEN MASK_LEN_TO_MOD(start) ELSE 0
ContigStop(idx, start, used) ==
    Min({b \in ContigFrom(idx, start) .. MASK_ALIGN : b \notin Wanted(idx, used) \cap Real(idx)})

\* The elements of a mask from where find_contig begins to where it stops.
LEMMA ContigMask ==
    ASSUME FbShape, NEW start \in Elements, NEW used \in BOOLEAN,
           NEW k \in FirstIdx(start) .. n_masks - 1
    PROVE  LET p == MASK_GET_IDX(k, ContigFrom(k, start))
               s == ContigStop(k, start, used)
               q == MASK_GET_IDX(k, s)
           IN /\ ContigFrom(k, start) \in MaskBits /\ p \in Elements /\ q \in Nat /\ p <= q
              /\ s \in ContigFrom(k, start) .. MASK_ALIGN
              /\ q - p = s - ContigFrom(k, start)
              /\ p .. q - 1 \subseteq Holding(used)
              /\ s < MASK_ALIGN => q \notin Holding(used)
<1> DEFINE f == ContigFrom(k, start)
           S == {b \in f .. MASK_ALIGN : b \notin Wanted(k, used) \cap Real(k)}
<1>1. start \in Nat /\ len \in Nat /\ MASK_ALIGN \in Nat \ {0} /\ start < len
  BY FbarrayAssumption DEF Elements, FbShape
<1>2. FirstIdx(start) \in Nat /\ MASK_LEN_TO_MOD(start) \in MaskBits /\ n_masks \in Nat
      /\ MASK_GET_IDX(FirstIdx(start), MASK_LEN_TO_MOD(start)) = start
  BY <1>1, MaskSplit, ElementsHaveMasks DEF FirstIdx
<1>3. k \in 0 .. n_masks - 1 /\ k \in Nat
  BY <1>2
<1>4. f \in MaskBits /\ 0 \in MaskBits /\ f \in Nat /\ f < MASK_ALIGN
  BY <1>1, <1>2 DEF ContigFrom, MaskBits
<1>5. MASK_GET_IDX(k, f) \in Elements
  <2>1. CASE k = FirstIdx(start)
    BY <1>1, <1>2, <2>1 DEF ContigFrom
  <2>2. CASE k # FirstIdx(start)
    <3>1. f = 0
      BY <2>2 DEF ContigFrom
    <3>2. 0 \in Real(k)
      <4>1. CASE k = LastIdx
        <5>1. BelowLast # {} /\ BelowLast \subseteq MaskBits
          BY <1>2, <1>3, <4>1, MasksOfLength, <1>1 DEF BelowLast
        <5>2. MASK_LEN_TO_MOD(len) \in MaskBits
          BY <1>1, MaskSplit
        <5>3. 0 \in BelowLast
          BY <1>1, <1>4, <5>1, <5>2 DEF BelowLast, MaskBits
        <5> QED  BY <4>1, <5>3 DEF Real
      <4>2. CASE k # LastIdx
        BY <1>4, <4>2 DEF Real
      <4> QED  BY <4>1, <4>2
    <3>3. MASK_GET_IDX(k, 0) < len /\ MASK_GET_IDX(k, 0) \in Nat
      BY <1>1, <1>3, <1>4, <3>2, RealBits, MaskJoin
    <3> QED  BY <1>1, <3>1, <3>3 DEF Elements
  <2> QED  BY <2>1, <2>2
<1>6. S \subseteq Nat /\ MASK_ALIGN \in S
  <2>1. MASK_ALIGN \notin MaskBits
    BY <1>1 DEF MaskBits
  <2>2. Real(k) \subseteq MaskBits
    BY DEF Real, BelowLast
  <2> QED  BY <1>1, <1>4, <2>1, <2>2
<1>7. PICK s \in S : s = ContigStop(k, start, used) /\ \A y \in S : s <= y
  <2>1. Min(S) \in S /\ \A y \in S : Min(S) <= y
    <3> HIDE DEF S
    <3> QED  BY <1>6, LeastIsThere
  <2> QED  BY <2>1 DEF ContigStop
<1>8. s \in f .. MASK_ALIGN /\ s \in Nat /\ f <= s
  BY <1>1, <1>4, <1>7
<1>9. \A b \in f .. s - 1 : b \in MaskBits /\ b \in Wanted(k, used) \cap Real(k)
  <2> SUFFICES ASSUME NEW b \in f .. s - 1 PROVE b \in MaskBits /\ b \in Wanted(k, used) \cap Real(k)
    OBVIOUS
  <2>1. b \in f .. MASK_ALIGN /\ ~(s <= b) /\ b < MASK_ALIGN
    BY <1>1, <1>4, <1>8
  <2>2. b \in MaskBits
    BY <1>1, <1>4, <2>1 DEF MaskBits
  <2> QED  BY <1>7, <2>1, <2>2
<1>10. k * MASK_ALIGN \in Nat
  BY <1>1, <1>3
<1>11. MASK_GET_IDX(k, f) \in Nat /\ MASK_GET_IDX(k, s) \in Nat /\ MASK_GET_IDX(k, f) <= MASK_GET_IDX(k, s)
       /\ MASK_GET_IDX(k, s) - MASK_GET_IDX(k, f) = s - f
  BY <1>4, <1>8, <1>10 DEF MASK_GET_IDX
<1>12. ASSUME NEW x \in MASK_GET_IDX(k, f) .. MASK_GET_IDX(k, s) - 1 PROVE x \in Holding(used)
  <2>1. PICK b \in f .. s - 1 : x = MASK_GET_IDX(k, b)
    <3>1. x - k * MASK_ALIGN \in f .. s - 1 /\ x = k * MASK_ALIGN + (x - k * MASK_ALIGN)
      BY <1>4, <1>8, <1>10 DEF MASK_GET_IDX
    <3> QED  BY <3>1 DEF MASK_GET_IDX
  <2> QED  BY <1>3, <1>9, <2>1, HoldingBits
<1>13. ASSUME s < MASK_ALIGN PROVE MASK_GET_IDX(k, s) \notin Holding(used)
  <2>1. s \in MaskBits
    BY <1>1, <1>8, <1>13 DEF MaskBits
  <2> QED  BY <1>3, <1>7, <2>1, HoldingBits
<1> HIDE DEF f, S
<1>14. s = ContigStop(k, start, used) /\ f = ContigFrom(k, start)
  BY <1>7 DEF f
<1> QED  BY <1>4, <1>5, <1>8, <1>11, <1>12, <1>13, <1>14

\* Turn by turn of find_contig: how far the run goes from a mask on.
ContigLeft(k, start, used) ==
    IF k = n_masks THEN 0
    ELSE RunEnd(MASK_GET_IDX(k, ContigFrom(k, start)), used) - MASK_GET_IDX(k, ContigFrom(k, start))

\* One turn of find_contig adds what the run has in this mask.
LEMMA ContigTurn ==
    ASSUME FbShape, NEW start \in Elements, NEW used \in BOOLEAN,
           NEW k \in FirstIdx(start) .. n_masks - 1
    PROVE  ContigLeft(k, start, used) =
              ContigStop(k, start, used) - ContigFrom(k, start)
                + (IF ContigStop(k, start, used) < MASK_ALIGN THEN 0 ELSE ContigLeft(k + 1, start, used))
<1>1. PICK f \in MaskBits, p \in Elements, s \in ContigFrom(k, start) .. MASK_ALIGN, q \in Nat :
         /\ f = ContigFrom(k, start) /\ p = MASK_GET_IDX(k, f)
         /\ s = ContigStop(k, start, used) /\ q = MASK_GET_IDX(k, s)
         /\ p <= q /\ q - p = s - f /\ p .. q - 1 \subseteq Holding(used)
         /\ s < MASK_ALIGN => q \notin Holding(used)
  BY ContigMask
<1>2. f \in Nat /\ p \in Nat /\ s \in Nat /\ MASK_ALIGN \in Nat \ {0} /\ len \in Nat /\ k \in Nat
      /\ n_masks \in Nat /\ FirstIdx(start) \in Nat /\ s <= MASK_ALIGN /\ k < n_masks
      /\ start \in Nat /\ FirstIdx(start) <= k
  <2>1. start \in Nat /\ len \in Nat /\ p \in Nat /\ MASK_ALIGN \in Nat \ {0} /\ f \in Nat
    BY FbarrayAssumption DEF Elements, FbShape, MaskBits
  <2>2. FirstIdx(start) \in Nat /\ n_masks \in Nat
    BY <2>1, MaskSplit, ElementsHaveMasks DEF FirstIdx
  <2> QED  BY <1>1, <2>1, <2>2
<1>3. ContigLeft(k, start, used) = RunEnd(p, used) - p
  BY <1>1, <1>2 DEF ContigLeft
<1>4. CASE s < MASK_ALIGN
  <2>1. RunEnd(p, used) = q
    BY <1>1, <1>4, RunEnds
  <2> QED  BY <1>1, <1>2, <1>3, <1>4, <2>1
<1>5. CASE s = MASK_ALIGN
  <2>1. q = MASK_GET_IDX(k + 1, 0)
    <3>1. (k + 1) * MASK_ALIGN = k * MASK_ALIGN + MASK_ALIGN /\ k * MASK_ALIGN \in Nat
      BY <1>2
    <3> QED  BY <1>1, <1>2, <1>5, <3>1 DEF MASK_GET_IDX
  <2>2. RunEnd(p, used) - q = ContigLeft(k + 1, start, used)
    <3>1. CASE k + 1 = n_masks
      <4>1. q \notin Elements
        <5>1. MASK_LEN_TO_IDX(q) = n_masks
          <6>1. 0 \in MaskBits /\ k + 1 \in Nat
            BY <1>2 DEF MaskBits
          <6> QED  BY <2>1, <3>1, <6>1, MaskJoin
        <5> QED  BY <1>2, <5>1, ElementsHaveMasks
      <4>2. q \notin Holding(used)
        BY <4>1 DEF Holding
      <4>3. RunEnd(p, used) = q
        BY <1>1, <4>2, RunEnds
      <4> QED  BY <1>1, <3>1, <4>3 DEF ContigLeft
    <3>2. CASE k + 1 < n_masks
      <4>1. k + 1 \in FirstIdx(start) .. n_masks - 1 /\ k + 1 # FirstIdx(start) /\ k + 1 # n_masks
        BY <1>2, <3>2
      <4>2. ContigFrom(k + 1, start) = 0
        BY <4>1 DEF ContigFrom
      <4>3. q \in Elements
        BY <2>1, <4>1, <4>2, ContigMask
      <4>4. RunEnd(p, used) = RunEnd(q, used)
        BY <1>1, <4>3, RunGoesOn
      <4> QED  BY <2>1, <4>1, <4>2, <4>4 DEF ContigLeft
    <3> QED  BY <1>2, <3>1, <3>2
  <2>3. PICK r \in Nat : r = RunEnd(p, used)
    <3>1. RunEnd(p, used) \in p .. len
      BY RunEndIs
    <3> QED  BY <1>2, <3>1
  <2> QED  BY <1>1, <1>2, <1>3, <1>5, <2>2, <2>3
<1> QED  BY <1>1, <1>2, <1>4, <1>5

\* find_contig: how far the run from start on goes.
LEMMA FindContig ==
    ASSUME FbShape, NEW start \in Elements, NEW used \in BOOLEAN
    PROVE  find_contig(start, used) = RunEnd(start, used) - start
<1> DEFINE begin == FirstIdx(start)
           Adds(k) == ContigStop(k, start, used) - ContigFrom(k, start)
           Ends(k) == ContigStop(k, start, used) < MASK_ALIGN
           Step(a) == a = [k \in begin .. n_masks |->
                              IF k = n_masks THEN 0 ELSE Adds(k) + (IF Ends(k) THEN 0 ELSE a[k + 1])]
           result == CHOOSE a : Step(a)
           left == [k \in begin .. n_masks |-> ContigLeft(k, start, used)]
<1>1. find_contig(start, used) = result[begin]
  BY DEF find_contig, ContigStop, ContigFrom, Real
<1>2. /\ begin \in Nat /\ n_masks \in Nat /\ begin < n_masks
      /\ MASK_GET_IDX(begin, MASK_LEN_TO_MOD(start)) = start
  <2>1. start \in Nat /\ len \in Nat
    BY DEF Elements, FbShape
  <2>2. begin \in 0 .. n_masks - 1 /\ n_masks \in Nat
    BY <2>1, ElementsHaveMasks DEF FirstIdx
  <2> QED  BY <2>1, <2>2, MaskSplit DEF FirstIdx
<1>3. \A k \in begin .. n_masks - 1 :
         left[k] = Adds(k) + (IF Ends(k) THEN 0 ELSE left[k + 1])
  <2> SUFFICES ASSUME NEW k \in begin .. n_masks - 1
               PROVE  left[k] = Adds(k) + (IF Ends(k) THEN 0 ELSE left[k + 1])
    OBVIOUS
  <2>1. k \in begin .. n_masks /\ k + 1 \in begin .. n_masks
    BY <1>2
  <2>2. left[k] = ContigLeft(k, start, used) /\ left[k + 1] = ContigLeft(k + 1, start, used)
    BY <2>1
  <2> HIDE DEF left
  <2> QED  BY <2>2, ContigTurn
<1>4. left[n_masks] = 0
  BY <1>2 DEF ContigLeft
<1>5. \A k \in begin .. n_masks : k # n_masks => k \in begin .. n_masks - 1
  BY <1>2
<1> HIDE DEF begin, Adds, Ends
<1>6. Step(left)
  <2> DEFINE rhs == [k \in begin .. n_masks |->
                       IF k = n_masks THEN 0 ELSE Adds(k) + (IF Ends(k) THEN 0 ELSE left[k + 1])]
  <2>1. \A k \in begin .. n_masks :
           left[k] = IF k = n_masks THEN 0 ELSE Adds(k) + (IF Ends(k) THEN 0 ELSE left[k + 1])
    <3> HIDE DEF left
    <3> QED  BY <1>3, <1>4, <1>5
  <2>2. \A k \in begin .. n_masks : left[k] = rhs[k]
    <3> HIDE DEF left
    <3> QED  BY <2>1
  <2>3. left = [k \in begin .. n_masks |-> left[k]]
    OBVIOUS
  <2>4. left = rhs
    <3> HIDE DEF left
    <3> QED  BY <2>2, <2>3
  <2> QED  BY <2>4
<1>7. Step(result)
  <2> HIDE DEF left, Step
  <2> QED  BY <1>6
<1> HIDE DEF result, left
<1>8. \A k \in begin .. n_masks :
         result[k] = IF k = n_masks THEN 0 ELSE Adds(k) + (IF Ends(k) THEN 0 ELSE result[k + 1])
  BY <1>7
<1> HIDE DEF Step
<1>9. result[begin] = left[begin]
  <2> DEFINE N == n_masks - begin
             S == {j \in 0 .. N : result[n_masks - j] = left[n_masks - j]}
  <2>1. N \in Nat /\ n_masks - N = begin
    BY <1>2
  <2>2. 0 \in S
    <3>1. n_masks - 0 = n_masks /\ n_masks \in begin .. n_masks /\ 0 \in 0 .. N
      BY <1>2
    <3> QED  BY <1>4, <1>8, <3>1
  <2>3. ASSUME NEW j \in S, j < N PROVE j + 1 \in S
    <3>1. PICK k \in begin .. n_masks - 1 : k = n_masks - (j + 1) /\ k + 1 = n_masks - j
      BY <1>2, <2>1, <2>3
    <3>2. k \in begin .. n_masks /\ k # n_masks
      BY <1>2
    <3>3. result[k + 1] = left[k + 1]
      BY <3>1
    <3>4. result[k] = left[k]
      BY <1>3, <1>8, <3>2, <3>3
    <3>5. j + 1 \in 0 .. N
      BY <2>1, <2>3
    <3> QED  BY <3>1, <3>4, <3>5
  <2>4. N \in S
    <3> HIDE DEF S, N
    <3>1. S \subseteq 0 .. N
      BY DEF S
    <3>2. S = 0 .. N
      BY <2>1, <2>2, <2>3, <3>1, UpTo
    <3> QED  BY <2>1, <3>2
  <2> QED  BY <2>1, <2>4
<1>10. left[begin] = RunEnd(start, used) - start
  <2>1. left[begin] = ContigLeft(begin, start, used)
    BY <1>2 DEF left
  <2>2. ContigFrom(begin, start) = MASK_LEN_TO_MOD(start) /\ begin # n_masks
    BY <1>2 DEF ContigFrom, begin
  <2> QED  BY <1>2, <2>1, <2>2 DEF ContigLeft
<1> QED  BY <1>1, <1>9, <1>10

\* How many bits at the end of a mask are set.
LEMMA TopRunIs ==
    ASSUME NEW m, m \subseteq MaskBits
    PROVE  /\ TopRun(m) \in 0 .. MASK_ALIGN
           /\ MASK_ALIGN - TopRun(m) .. MASK_ALIGN - 1 \subseteq m
           /\ MASK_ALIGN - 1 \notin m => TopRun(m) = 0
<1> DEFINE S == {b \in 0 .. MASK_ALIGN : b .. MASK_ALIGN - 1 \subseteq m}
<1>1. MASK_ALIGN \in Nat \ {0}
  BY FbarrayAssumption
<1>2. S \subseteq Nat /\ MASK_ALIGN \in S
  BY <1>1
<1>3. PICK s \in S : s = Min(S)
  <2> HIDE DEF S
  <2> QED  BY <1>2, LeastIsThere
<1>4. TopRun(m) = MASK_ALIGN - s
  BY <1>3 DEF TopRun
<1>5. s \in 0 .. MASK_ALIGN /\ s .. MASK_ALIGN - 1 \subseteq m
  BY <1>3
<1>6. MASK_ALIGN - (MASK_ALIGN - s) = s /\ MASK_ALIGN - s \in 0 .. MASK_ALIGN
  BY <1>1, <1>5
<1>7. ASSUME MASK_ALIGN - 1 \notin m PROVE s = MASK_ALIGN
  <2>1. ~(s <= MASK_ALIGN - 1)
    BY <1>1, <1>5, <1>7
  <2> QED  BY <1>1, <1>5, <2>1
<1>8. MASK_ALIGN - 1 \notin m => MASK_ALIGN - s = 0
  BY <1>1, <1>7
<1> QED  BY <1>4, <1>5, <1>6, <1>8

\* The look-ahead goes on in a mask of the array, or at its end.
LEMMA LookAheadTyped ==
    ASSUME NEW idx \in Nat, n_masks \in Nat, NEW left \in Int, NEW used \in BOOLEAN
    PROVE  LookAhead(idx, left, used).skip = -1 \/ LookAhead(idx, left, used).skip \in idx .. n_masks - 1
<1> DEFINE due(k)  == left - (k - idx) * MASK_ALIGN
           need(k) == IF due(k) < MASK_ALIGN THEN due(k) ELSE MASK_ALIGN
           lost == {k \in idx .. n_masks - 1 : due(k) > 0 /\ 0 \notin RunsOf(Wanted(k, used), need(k))}
<1>1. LookAhead(idx, left, used).skip = IF lost = {} THEN -1 ELSE Min(lost)
  <2> HIDE DEF due
  <2> QED  BY DEF LookAhead, due
<1>2. lost \subseteq Nat /\ lost \subseteq idx .. n_masks - 1
  OBVIOUS
<1>3. CASE lost = {}
  BY <1>1, <1>3
<1>4. CASE lost # {}
  <2> HIDE DEF lost
  <2>1. Min(lost) \in lost
    BY <1>2, <1>4, LeastIsThere
  <2> QED  BY <1>1, <1>2, <1>4, <2>1
<1> QED  BY <1>3, <1>4

\* What it found is wanted, up to the last bit.
LEMMA LookAheadFinds ==
    ASSUME FbShape, NEW idx \in Nat, idx <= n_masks, NEW left \in Int, NEW used \in BOOLEAN,
           LookAhead(idx, left, used).found,
           NEW x \in Nat, MASK_GET_IDX(idx, 0) <= x, x < MASK_GET_IDX(idx, 0) + left
    PROVE  /\ MASK_LEN_TO_IDX(x) \in 0 .. n_masks - 1
           /\ MASK_LEN_TO_MOD(x) \in Wanted(MASK_LEN_TO_IDX(x), used)
<1> DEFINE due(k)  == left - (k - idx) * MASK_ALIGN
           need(k) == IF due(k) < MASK_ALIGN THEN due(k) ELSE MASK_ALIGN
           lost == {k \in idx .. n_masks - 1 : due(k) > 0 /\ 0 \notin RunsOf(Wanted(k, used), need(k))}
<1>1. lost = {} /\ due(n_masks) <= 0
  <2> HIDE DEF due
  <2> QED  BY DEF LookAhead, due
<1>2. MASK_ALIGN \in Nat \ {0} /\ n_masks \in Nat
  BY FbarrayAssumption, MasksOfLength DEF FbShape
<1>3. PICK j \in Nat, b \in MaskBits :
         j = MASK_LEN_TO_IDX(x) /\ b = MASK_LEN_TO_MOD(x) /\ MASK_GET_IDX(j, b) = x
  BY MaskSplit
<1>4. b \in Nat /\ b < MASK_ALIGN /\ 0 \in MaskBits
  BY <1>2 DEF MaskBits
<1>5. PICK atj \in Nat, ati \in Nat, atn \in Nat :
         atj = j * MASK_ALIGN /\ ati = idx * MASK_ALIGN /\ atn = n_masks * MASK_ALIGN
  BY <1>2
<1>6. (j - idx) * MASK_ALIGN = atj - ati /\ (n_masks - idx) * MASK_ALIGN = atn - ati
  BY <1>2, <1>5
<1>7. x = atj + b /\ ati <= x /\ x < ati + left
  BY <1>3, <1>4, <1>5 DEF MASK_GET_IDX
<1>8. idx <= j
  <2>1. ~(j < idx)
    <3>1. j < idx => MASK_GET_IDX(j, b) < MASK_GET_IDX(idx, 0)
      BY MaskOrder
    <3>2. MASK_GET_IDX(idx, 0) \in Nat
      BY <1>4, MaskJoin
    <3> QED  BY <1>3, <3>1, <3>2
  <2> QED  BY <2>1
<1>9. j < n_masks
  <2>1. left - (atn - ati) <= 0
    BY <1>1, <1>6
  <2>2. atj + b < atn
    BY <1>4, <1>5, <1>7, <2>1
  <2>3. n_masks < j => atn < atj
    <3>1. n_masks < j => MASK_GET_IDX(n_masks, 0) < MASK_GET_IDX(j, 0)
      BY <1>2, <1>4, MaskOrder
    <3> QED  BY <1>5, <3>1 DEF MASK_GET_IDX
  <2>4. ~(n_masks < j) /\ n_masks # j
    BY <1>4, <1>5, <2>2, <2>3
  <2> QED  BY <1>2, <2>4
<1>10. due(j) = left - (atj - ati) /\ due(j) > b
  BY <1>4, <1>5, <1>6, <1>7
<1>11. PICK d \in Int : d = due(j) /\ d > b
  BY <1>5, <1>10
<1>12. PICK c \in Int : c = need(j) /\ b < c /\ d > 0
  <2>1. need(j) = IF d < MASK_ALIGN THEN d ELSE MASK_ALIGN
    <3> HIDE DEF due
    <3> QED  BY <1>11
  <2> HIDE DEF need, due, lost
  <2>2. d \in Int /\ d > b
    BY <1>11
  <2> QED  BY <1>2, <1>4, <2>1, <2>2
<1>13. j \in idx .. n_masks - 1
  BY <1>2, <1>8, <1>9
<1>14. 0 \in RunsOf(Wanted(j, used), c)
  BY <1>1, <1>11, <1>12, <1>13
<1>15. b \in Wanted(j, used)
  <2>1. CASE b = 0
    BY <1>14, <2>1 DEF RunsOf
  <2>2. CASE b # 0
    <3>1. b \in 1 .. c - 1 /\ 0 + b = b
      BY <1>4, <1>12, <2>2
    <3> QED  BY <1>14, <3>1 DEF RunsOf
  <2> QED  BY <2>1, <2>2
<1> QED  BY <1>2, <1>3, <1>13, <1>15

\* The bits of a mask that a turn looks at.
Kept(idx, ignore, used) ==
    LET keep == ignore \cup (IF idx = LastIdx THEN BelowLast ELSE {})
    IN IF keep = {} THEN Wanted(idx, used) ELSE Wanted(idx, used) \cap keep

\* The run that a turn answers, in the mask or up to its end and beyond.
FoundInMask(k, ignore, n, used, a) ==
    /\ n <= MASK_ALIGN /\ RunsOf(Kept(k, ignore, used), n) # {}
    /\ a = MASK_GET_IDX(k, Min(RunsOf(Kept(k, ignore, used), n)))
FoundAhead(k, ignore, n, used, a) ==
    LET top == TopRun(Kept(k, ignore, used))
    IN top # 0 /\ LookAhead(k + 1, n - top, used).found /\ a = MASK_GET_IDX(k, MASK_ALIGN - top)

\* What a turn ends with.
TurnEnd(k, ignore, n, used, t) ==
    \/ FoundInMask(k, ignore, n, used, t.answer)
    \/ FoundAhead(k, ignore, n, used, t.answer)
    \/ /\ ~(n <= MASK_ALIGN /\ RunsOf(Kept(k, ignore, used), n) # {})
       /\ t.answer = -1 /\ t.msk_idx \in k + 1 .. n_masks /\ t.ignore_msk \in SUBSET MaskBits
       /\ TopRun(Kept(k, ignore, used)) = 0 => t.msk_idx = k + 1 /\ t.ignore_msk = {}

\* Every turn ends with an answer or goes on behind its mask.
LEMMA TurnEnds ==
    ASSUME FbShape, NEW k \in 0 .. n_masks - 1, NEW ignore, NEW n \in Nat \ {0}, NEW used \in BOOLEAN
    PROVE  TurnEnd(k, ignore, n, used, SearchMask(k, ignore, n, used))
<1> SUFFICES ASSUME NEW t, t = SearchMask(k, ignore, n, used) PROVE TurnEnd(k, ignore, n, used, t)
  OBVIOUS
<1> USE DEF TurnEnd
<1> DEFINE cur == Kept(k, ignore, used)
           top == TopRun(cur)
           look == LookAhead(k + 1, n - top, used)
           Turn(run, goal, ign) == [answer |-> run, msk_idx |-> goal, ignore_msk |-> ign]
           ign == {b \in MaskBits : b >= look.need % MASK_ALIGN}
<1>1. t = CASE n <= MASK_ALIGN /\ RunsOf(cur, n) # {} -> Turn(MASK_GET_IDX(k, Min(RunsOf(cur, n))), k, {})
            [] OTHER ->
                 IF top = 0 THEN Turn(-1, k + 1, {})
                 ELSE IF look.found THEN Turn(MASK_GET_IDX(k, MASK_ALIGN - top), k, {})
                 ELSE IF look.skip = -1 THEN Turn(-1, k + 1, {})
                 ELSE Turn(-1, look.skip + 1, ign)
  BY DEF SearchMask, Kept
<1>0. n_masks \in Nat /\ k \in Nat /\ k < n_masks
  BY MasksOfLength DEF FbShape
<1>2. look.skip = -1 \/ look.skip \in k + 1 .. n_masks - 1
  <2>1. cur \subseteq MaskBits
    BY DEF Kept, Wanted, FbShape
  <2> HIDE DEF cur
  <2>2. top \in 0 .. MASK_ALIGN
    BY <2>1, TopRunIs
  <2> HIDE DEF top
  <2>3. k + 1 \in Nat /\ n - top \in Int
    BY <1>0, <2>2
  <2> QED  BY <1>0, <2>3, LookAheadTyped
<1>3. ign \in SUBSET MaskBits /\ {} \in SUBSET MaskBits
  OBVIOUS
<1> HIDE DEF ign, look
<1>4. CASE n <= MASK_ALIGN /\ RunsOf(cur, n) # {}
  <2>1. t.answer = MASK_GET_IDX(k, Min(RunsOf(cur, n)))
    BY <1>1, <1>4
  <2> QED  BY <1>4, <2>1 DEF FoundInMask
<1>5. CASE ~(n <= MASK_ALIGN /\ RunsOf(cur, n) # {})
  <2>1. CASE top = 0
    <3>1. t = Turn(-1, k + 1, {})
      BY <1>1, <1>5, <2>1
    <3>2. t.answer = -1 /\ t.msk_idx = k + 1 /\ t.ignore_msk = {} /\ k + 1 \in k + 1 .. n_masks
      BY <1>0, <3>1
    <3> QED  BY <1>3, <1>5, <3>2
  <2>2. CASE top # 0 /\ look.found
    <3>1. t.answer = MASK_GET_IDX(k, MASK_ALIGN - top)
      BY <1>1, <1>5, <2>2
    <3> QED  BY <2>2, <3>1 DEF FoundAhead, look
  <2>3. CASE top # 0 /\ ~look.found /\ look.skip = -1
    <3>1. t = Turn(-1, k + 1, {})
      BY <1>1, <1>5, <2>3
    <3>2. t.answer = -1 /\ t.msk_idx = k + 1 /\ t.ignore_msk = {} /\ k + 1 \in k + 1 .. n_masks
      BY <1>0, <3>1
    <3> QED  BY <1>3, <1>5, <3>2
  <2>4. CASE top # 0 /\ ~look.found /\ look.skip # -1
    <3>1. t = Turn(-1, look.skip + 1, ign)
      BY <1>1, <1>5, <2>4
    <3>2. t.answer = -1 /\ t.msk_idx = look.skip + 1 /\ t.ignore_msk = ign
      BY <3>1
    <3>3. look.skip + 1 \in k + 1 .. n_masks
      BY <1>0, <1>2, <2>4
    <3> QED  BY <1>3, <1>5, <2>4, <3>2, <3>3
  <2> QED  BY <2>1, <2>2, <2>3, <2>4
<1> QED  BY <1>4, <1>5

\* The loop of find_next_n, turn by turn.
AfterTurn(f, turn) == IF turn.answer # -1 THEN turn.answer ELSE f[turn.msk_idx][turn.ignore_msk]
Searches(f, n, used) ==
    \A k \in 0 .. n_masks : \A ignore \in SUBSET MaskBits :
        f[k][ignore] = IF k = n_masks THEN -1 ELSE AfterTurn(f, SearchMask(k, ignore, n, used))

\* A turn goes on behind its mask.
LEMMA TurnGoesOn ==
    ASSUME FbShape, NEW k \in Nat, k < n_masks, NEW ignore \in SUBSET MaskBits,
           NEW n \in Nat \ {0}, NEW used \in BOOLEAN,
           SearchMask(k, ignore, n, used).answer = -1
    PROVE  /\ SearchMask(k, ignore, n, used).msk_idx \in k + 1 .. n_masks
           /\ SearchMask(k, ignore, n, used).ignore_msk \in SUBSET MaskBits
<1>1. n_masks \in Nat /\ MASK_ALIGN \in Nat \ {0} /\ k \in 0 .. n_masks - 1
  BY FbarrayAssumption, MasksOfLength DEF FbShape
<1>2. Kept(k, ignore, used) \subseteq MaskBits
  BY <1>1 DEF Kept, Wanted, FbShape
<1>3. TopRun(Kept(k, ignore, used)) \in 0 .. MASK_ALIGN
  BY <1>2, TopRunIs
<1>4. TurnEnd(k, ignore, n, used, SearchMask(k, ignore, n, used))
  BY <1>1, TurnEnds
<1>6. ~FoundInMask(k, ignore, n, used, -1)
  <2> DEFINE R == RunsOf(Kept(k, ignore, used), n)
  <2>1. R \subseteq MaskBits /\ MaskBits \subseteq Nat
    BY <1>2 DEF RunsOf, MaskBits
  <2> HIDE DEF R
  <2>2. R # {} => Min(R) \in MaskBits
    BY <2>1, LeastIsThere
  <2>3. R # {} => MASK_GET_IDX(k, Min(R)) \in Nat
    BY <2>2, MaskJoin
  <2>4. R # {} => MASK_GET_IDX(k, Min(R)) # -1
    BY <2>3
  <2> QED  BY <2>4 DEF FoundInMask, R
<1>7. ~FoundAhead(k, ignore, n, used, -1)
  <2> DEFINE top == TopRun(Kept(k, ignore, used))
  <2> HIDE DEF top
  <2>1. top \in 0 .. MASK_ALIGN
    BY <1>3 DEF top
  <2>2. top # 0 => MASK_ALIGN - top \in MaskBits
    BY <1>1, <2>1 DEF MaskBits
  <2>3. top # 0 => MASK_GET_IDX(k, MASK_ALIGN - top) \in Nat
    BY <2>2, MaskJoin
  <2>4. top # 0 => MASK_GET_IDX(k, MASK_ALIGN - top) # -1
    BY <2>3
  <2> QED  BY <2>4 DEF FoundAhead, top
<1> QED  BY <1>4, <1>6, <1>7 DEF TurnEnd

\* There is such a loop, and it is what find_next_n runs.
LEMMA SearchExists ==
    ASSUME FbShape, NEW start \in Elements, NEW n \in Nat \ {0}, NEW used \in BOOLEAN
    PROVE  \E f : /\ Searches(f, n, used)
                  /\ find_next_n(start, n, used) = f[FirstIdx(start)][NotBefore(start)]
<1> DEFINE Body(f, k, ignore) == IF k = n_masks THEN -1 ELSE AfterTurn(f, SearchMask(k, ignore, n, used))
           Step(f) == f = [k \in 0 .. n_masks |-> [ignore \in SUBSET MaskBits |-> Body(f, k, ignore)]]
           search == CHOOSE f : Step(f)
           From(f, m) == \A k \in m .. n_masks : \A ignore \in SUBSET MaskBits :
                            f[k][ignore] = Body(f, k, ignore)
           S == {j \in 0 .. n_masks : \E f : From(f, n_masks - j)}
<1>1. find_next_n(start, n, used) = search[FirstIdx(start)][NotBefore(start)]
  BY DEF find_next_n, AfterTurn
<1>2. n_masks \in Nat
  BY MasksOfLength DEF FbShape
<1>3. \A f, g : \A k \in 0 .. n_masks : \A ignore \in SUBSET MaskBits :
         (\A j \in k + 1 .. n_masks : \A i \in SUBSET MaskBits : f[j][i] = g[j][i])
            => Body(f, k, ignore) = Body(g, k, ignore)
  <2> SUFFICES ASSUME NEW f, NEW g, NEW k \in 0 .. n_masks, NEW ignore \in SUBSET MaskBits,
                      \A j \in k + 1 .. n_masks : \A i \in SUBSET MaskBits : f[j][i] = g[j][i]
               PROVE  Body(f, k, ignore) = Body(g, k, ignore)
    OBVIOUS
  <2>1. CASE k = n_masks
    BY <2>1
  <2>2. CASE k # n_masks /\ SearchMask(k, ignore, n, used).answer # -1
    BY <2>2 DEF AfterTurn
  <2>3. CASE k # n_masks /\ SearchMask(k, ignore, n, used).answer = -1
    <3>1. k \in Nat /\ k < n_masks
      BY <1>2, <2>3
    <3>2. /\ SearchMask(k, ignore, n, used).msk_idx \in k + 1 .. n_masks
          /\ SearchMask(k, ignore, n, used).ignore_msk \in SUBSET MaskBits
      BY <2>3, <3>1, TurnGoesOn
    <3> QED  BY <2>3, <3>2 DEF AfterTurn
  <2> QED  BY <2>1, <2>2, <2>3
<1>4. \A f, g : (\A k \in 0 .. n_masks : \A ignore \in SUBSET MaskBits :
                       Body(f, k, ignore) = Body(g, k, ignore))
                  => [k \in 0 .. n_masks |-> [ignore \in SUBSET MaskBits |-> Body(f, k, ignore)]]
                       = [k \in 0 .. n_masks |-> [ignore \in SUBSET MaskBits |-> Body(g, k, ignore)]]
  <2> HIDE DEF Body
  <2> QED  OBVIOUS
<1> HIDE DEF Body
<1>5. 0 \in S
  <2> DEFINE f == [k \in 0 .. n_masks |-> [ignore \in SUBSET MaskBits |-> -1]]
  <2>1. \A k \in n_masks - 0 .. n_masks : k = n_masks /\ k \in 0 .. n_masks
    BY <1>2
  <2>2. \A ignore \in SUBSET MaskBits : Body(f, n_masks, ignore) = -1
    BY DEF Body
  <2>3. From(f, n_masks - 0)
    BY <2>1, <2>2
  <2>4. 0 \in 0 .. n_masks
    BY <1>2
  <2> HIDE DEF From
  <2> QED  BY <2>3, <2>4
<1>6. ASSUME NEW j \in S, j < n_masks PROVE j + 1 \in S
  <2>1. PICK f : From(f, n_masks - j)
    OBVIOUS
  <2>2. PICK m \in 0 .. n_masks : m = n_masks - (j + 1) /\ n_masks - j = m + 1 /\ m < n_masks
    BY <1>2, <1>6
  <2> DEFINE g == [k \in 0 .. n_masks |-> [ignore \in SUBSET MaskBits |->
                      IF k = m THEN Body(f, k, ignore) ELSE f[k][ignore]]]
  <2>3. \A k \in 0 .. n_masks : \A ignore \in SUBSET MaskBits :
           g[k][ignore] = IF k = m THEN Body(f, k, ignore) ELSE f[k][ignore]
    OBVIOUS
  <2> HIDE DEF g
  <2>4. ASSUME NEW k \in m .. n_masks, NEW ignore \in SUBSET MaskBits
        PROVE  g[k][ignore] = Body(g, k, ignore)
    <3>1. k \in 0 .. n_masks /\ k \in Nat
      BY <1>2, <2>2
    <3>2. \A i \in k + 1 .. n_masks : i \in 0 .. n_masks /\ i # m
      BY <1>2, <2>2, <3>1
    <3>3. \A i \in k + 1 .. n_masks : \A ig \in SUBSET MaskBits : f[i][ig] = g[i][ig]
      BY <2>3, <3>2
    <3>4. Body(f, k, ignore) = Body(g, k, ignore)
      BY <1>3, <3>1, <3>3
    <3>5. k # m => k \in n_masks - j .. n_masks
      BY <1>2, <2>2, <3>1
    <3>6. k # m => f[k][ignore] = Body(f, k, ignore)
      BY <2>1, <3>5
    <3> QED  BY <2>3, <3>1, <3>4, <3>6
  <2>5. From(g, n_masks - (j + 1))
    BY <2>2, <2>4
  <2>6. j + 1 \in 0 .. n_masks
    BY <1>2, <1>6
  <2> HIDE DEF From
  <2> QED  BY <2>5, <2>6
<1>7. PICK f : From(f, 0)
  <2>1. S \subseteq 0 .. n_masks
    OBVIOUS
  <2> HIDE DEF S
  <2>2. n_masks \in S
    <3>1. S = 0 .. n_masks
      BY <1>2, <1>5, <1>6, <2>1, UpTo
    <3> QED  BY <1>2, <3>1
  <2>3. n_masks - n_masks = 0
    BY <1>2
  <2> HIDE DEF From
  <2> QED  BY <2>2, <2>3 DEF S
<1>8. \E h : Step(h)
  <2> DEFINE h == [k \in 0 .. n_masks |-> [ignore \in SUBSET MaskBits |-> Body(f, k, ignore)]]
  <2>1. \A k \in 0 .. n_masks : \A ignore \in SUBSET MaskBits : h[k][ignore] = f[k][ignore]
    BY <1>7
  <2> HIDE DEF h
  <2>2. \A k \in 0 .. n_masks : \A ignore \in SUBSET MaskBits : Body(f, k, ignore) = Body(h, k, ignore)
    <3> SUFFICES ASSUME NEW k \in 0 .. n_masks, NEW ignore \in SUBSET MaskBits
                 PROVE  Body(f, k, ignore) = Body(h, k, ignore)
      OBVIOUS
    <3>1. \A i \in k + 1 .. n_masks : i \in 0 .. n_masks
      BY <1>2
    <3>2. \A i \in k + 1 .. n_masks : \A ig \in SUBSET MaskBits : f[i][ig] = h[i][ig]
      BY <2>1, <3>1
    <3> QED  BY <1>3, <3>2
  <2>3. Step(h)
    BY <1>4, <2>2 DEF h
  <2> HIDE DEF Step
  <2> QED  BY <2>3
<1>9. Step(search)
  <2> HIDE DEF Step
  <2> QED  BY <1>8
<1> HIDE DEF search
<1>10. \A k \in 0 .. n_masks : \A ignore \in SUBSET MaskBits : search[k][ignore] = Body(search, k, ignore)
  <2> SUFFICES ASSUME NEW k \in 0 .. n_masks, NEW ignore \in SUBSET MaskBits
               PROVE  search[k][ignore] = Body(search, k, ignore)
    OBVIOUS
  <2>1. search[k] = [ig \in SUBSET MaskBits |-> Body(search, k, ig)]
    BY <1>9
  <2> QED  BY <2>1
<1>11. Searches(search, n, used)
  BY <1>10 DEF Searches, Body
<1> QED  BY <1>1, <1>11

\* A used bit is an element in use.
LEMMA UsedBit ==
    ASSUME FbShape, NEW x \in Nat, MASK_LEN_TO_IDX(x) \in 0 .. n_masks - 1,
           MASK_LEN_TO_MOD(x) \in Wanted(MASK_LEN_TO_IDX(x), TRUE)
    PROVE  x \in Holding(TRUE)
<1>1. MASK_GET_IDX(MASK_LEN_TO_IDX(x), MASK_LEN_TO_MOD(x)) = x
  BY MaskSplit
<1>2. MASK_LEN_TO_MOD(x) \in data[MASK_LEN_TO_IDX(x)]
  BY DEF Wanted
<1>3. x < len /\ len \in Nat
  BY <1>1, <1>2 DEF FbShape
<1> QED  BY <1>2, <1>3 DEF Holding, Elements, IsUsed

\* A run found in a mask is one.
LEMMA FoundInMaskIsRun ==
    ASSUME FbShape, NEW k \in 0 .. n_masks - 1, NEW ignore, NEW n \in Nat \ {0}, NEW a,
           FoundInMask(k, ignore, n, TRUE, a)
    PROVE  /\ \E b \in Kept(k, ignore, TRUE) : b \in MaskBits /\ a = MASK_GET_IDX(k, b)
           /\ a \in Nat /\ a .. a + n - 1 \subseteq Holding(TRUE)
<1> DEFINE cur == Kept(k, ignore, TRUE)
           R == RunsOf(cur, n)
<1>1. k \in Nat /\ n_masks \in Nat /\ MASK_ALIGN \in Nat \ {0}
  BY FbarrayAssumption, MasksOfLength DEF FbShape
<1>2. cur \subseteq Wanted(k, TRUE) /\ Wanted(k, TRUE) \subseteq MaskBits /\ MaskBits \subseteq Nat
  BY <1>1 DEF Kept, Wanted, FbShape, MaskBits
<1>3. R \subseteq cur
  BY DEF RunsOf
<1>4. R # {} /\ a = MASK_GET_IDX(k, Min(R))
  BY DEF FoundInMask
<1>5. PICK b \in R : b = Min(R)
  <2> HIDE DEF R, cur
  <2> QED  BY <1>2, <1>3, <1>4, LeastIsThere
<1>6. b \in cur /\ \A j \in 1 .. n - 1 : b + j \in cur
  BY <1>5 DEF RunsOf
<1>7. b \in MaskBits /\ a = MASK_GET_IDX(k, b) /\ a \in Nat /\ b \in Nat
  BY <1>1, <1>2, <1>4, <1>5, <1>6, MaskJoin
<1>8. ASSUME NEW x \in a .. a + n - 1 PROVE x \in Holding(TRUE)
  <2>1. PICK at \in Nat : at = k * MASK_ALIGN
    BY <1>1
  <2>2. PICK c \in cur : x = MASK_GET_IDX(k, c)
    <3>1. PICK j \in 0 .. n - 1 : x = a + j
      <4>1. x - a \in 0 .. n - 1 /\ x = a + (x - a)
        BY <1>7
      <4> QED  BY <4>1
    <3>2. b + j \in cur
      <4>1. CASE j = 0
        <5>1. b + 0 = b
          BY <1>7
        <5> QED  BY <1>6, <4>1, <5>1
      <4>2. CASE j # 0
        <5>1. j \in 1 .. n - 1
          BY <4>2
        <5> QED  BY <1>6, <5>1
      <4> QED  BY <4>1, <4>2
    <3>3. x = MASK_GET_IDX(k, b + j)
      BY <1>7, <2>1, <3>1 DEF MASK_GET_IDX
    <3> QED  BY <3>2, <3>3
  <2>3. c \in MaskBits /\ c \in Wanted(k, TRUE)
    BY <1>2
  <2> QED  BY <1>1, <2>2, <2>3, MaskJoin, UsedBit
<1> QED  BY <1>6, <1>7, <1>8

\* A run found ahead is one.
LEMMA FoundAheadIsRun ==
    ASSUME FbShape, NEW k \in 0 .. n_masks - 1, NEW ignore, NEW n \in Nat \ {0}, NEW a,
           FoundAhead(k, ignore, n, TRUE, a)
    PROVE  /\ \E b \in Kept(k, ignore, TRUE) : b \in MaskBits /\ a = MASK_GET_IDX(k, b)
           /\ a \in Nat /\ a .. a + n - 1 \subseteq Holding(TRUE)
<1> DEFINE cur == Kept(k, ignore, TRUE)
           top == TopRun(cur)
<1>1. k \in Nat /\ n_masks \in Nat /\ MASK_ALIGN \in Nat \ {0} /\ k + 1 \in Nat /\ k + 1 <= n_masks
  BY FbarrayAssumption, MasksOfLength DEF FbShape
<1>2. cur \subseteq Wanted(k, TRUE) /\ Wanted(k, TRUE) \subseteq MaskBits /\ MaskBits \subseteq Nat
  BY <1>1 DEF Kept, Wanted, FbShape, MaskBits
<1>3. top \in 0 .. MASK_ALIGN /\ MASK_ALIGN - top .. MASK_ALIGN - 1 \subseteq cur
  BY <1>2, TopRunIs
<1>4. top # 0 /\ LookAhead(k + 1, n - top, TRUE).found /\ a = MASK_GET_IDX(k, MASK_ALIGN - top)
  BY DEF FoundAhead
<1> HIDE DEF cur, top
<1>5. PICK b \in cur : b = MASK_ALIGN - top /\ b < MASK_ALIGN /\ b \in MaskBits
  <2>1. MASK_ALIGN - top \in MASK_ALIGN - top .. MASK_ALIGN - 1 /\ MASK_ALIGN - top < MASK_ALIGN
    BY <1>1, <1>3, <1>4
  <2> QED  BY <1>2, <1>3, <2>1
<1>6. a = MASK_GET_IDX(k, b) /\ a \in Nat /\ b \in Nat
  BY <1>1, <1>2, <1>4, <1>5, MaskJoin
<1>7. PICK at \in Nat, on \in Nat :
         at = k * MASK_ALIGN /\ on = (k + 1) * MASK_ALIGN /\ on = at + MASK_ALIGN
  BY <1>1
<1>8. a = at + b /\ MASK_GET_IDX(k + 1, 0) = on /\ a + n = on + (n - top)
  BY <1>1, <1>3, <1>5, <1>6, <1>7 DEF MASK_GET_IDX
<1>9. ASSUME NEW x \in a .. a + n - 1 PROVE x \in Holding(TRUE)
  <2>1. x \in Nat /\ a <= x /\ x < on + (n - top)
    BY <1>3, <1>6, <1>7, <1>8
  <2>2. CASE x < on
    <3>1. PICK c \in MASK_ALIGN - top .. MASK_ALIGN - 1 : x = at + c
      <4>1. x - at \in MASK_ALIGN - top .. MASK_ALIGN - 1 /\ x = at + (x - at)
        BY <1>1, <1>3, <1>5, <1>7, <1>8, <2>1, <2>2
      <4> QED  BY <4>1
    <3>2. c \in Wanted(k, TRUE) /\ c \in MaskBits /\ x = MASK_GET_IDX(k, c)
      BY <1>2, <1>3, <1>7, <3>1 DEF MASK_GET_IDX
    <3> QED  BY <1>1, <2>1, <3>2, MaskJoin, UsedBit
  <2>3. CASE on <= x
    <3>1. n - top \in Int
      BY <1>3
    <3>2. /\ MASK_LEN_TO_IDX(x) \in 0 .. n_masks - 1
          /\ MASK_LEN_TO_MOD(x) \in Wanted(MASK_LEN_TO_IDX(x), TRUE)
      BY <1>1, <1>4, <1>8, <2>1, <2>3, <3>1, LookAheadFinds
    <3> QED  BY <2>1, <3>2, UsedBit
  <2>4. x < on \/ on <= x
    BY <1>7, <2>1
  <2> QED  BY <2>2, <2>3, <2>4
<1> QED  BY <1>5, <1>6, <1>9 DEF cur

\* An answer for used elements is a run of them from start on, unless the search starts
\* in the mask that the length cuts.
LEMMA UsedAnswersAreRuns ==
    ASSUME FbShape, NEW start \in Elements, NEW n \in Nat \ {0}, FirstIdx(start) # LastIdx
    PROVE  LET answer == find_next_n(start, n, TRUE)
           IN answer # -1 => /\ answer \in Nat /\ answer >= start
                             /\ answer .. answer + n - 1 \subseteq Holding(TRUE)
<1> DEFINE begin == FirstIdx(start)
           G == {-1} \cup {a \in Nat : a >= start /\ a .. a + n - 1 \subseteq Holding(TRUE)}
<1>1. start \in Nat /\ len \in Nat /\ n_masks \in Nat /\ begin \in 0 .. n_masks - 1 /\ begin \in Nat
      /\ MASK_LEN_TO_MOD(start) \in MaskBits /\ MASK_ALIGN \in Nat \ {0}
  <2>1. start \in Nat /\ len \in Nat
    BY DEF Elements, FbShape
  <2>2. begin \in 0 .. n_masks - 1 /\ n_masks \in Nat
    BY <2>1, ElementsHaveMasks DEF FirstIdx
  <2> QED  BY <2>1, <2>2, MaskSplit, FbarrayAssumption
<1>2. PICK f : Searches(f, n, TRUE) /\ find_next_n(start, n, TRUE) = f[begin][NotBefore(start)]
  BY SearchExists
<1>3. ASSUME NEW k \in begin .. n_masks - 1, NEW ignore \in SUBSET MaskBits,
             k = begin => ignore = NotBefore(start)
      PROVE  \/ SearchMask(k, ignore, n, TRUE).answer \in G
             \/ SearchMask(k, ignore, n, TRUE).answer = -1
  <2>1. k \in 0 .. n_masks - 1 /\ k \in Nat /\ k < n_masks
    BY <1>1
  <2>2. ASSUME NEW b \in Kept(k, ignore, TRUE), b \in MaskBits PROVE MASK_GET_IDX(k, b) >= start
    <3>1. CASE k = begin
      <4>1. NotBefore(start) # {}
        BY <1>1 DEF NotBefore, MaskBits
      <4>2. b \in NotBefore(start)
        BY <1>3, <2>2, <3>1, <4>1 DEF Kept
      <4> QED  BY <1>1, <2>1, <2>2, <3>1, <4>2, LaterBits DEF Later
    <3>2. CASE k # begin
      <4>1. b \in Later(k, start)
        BY <2>2, <3>2 DEF Later
      <4>2. begin <= k
        BY <1>1
      <4> QED  BY <1>1, <2>1, <2>2, <4>1, <4>2, LaterBits
    <3> QED  BY <3>1, <3>2
  <2>3. PICK t : t = SearchMask(k, ignore, n, TRUE)
    OBVIOUS
  <2>4. CASE FoundInMask(k, ignore, n, TRUE, t.answer) \/ FoundAhead(k, ignore, n, TRUE, t.answer)
    <3>1. /\ \E b \in Kept(k, ignore, TRUE) : b \in MaskBits /\ t.answer = MASK_GET_IDX(k, b)
          /\ t.answer \in Nat /\ t.answer .. t.answer + n - 1 \subseteq Holding(TRUE)
      BY <2>1, <2>4, FoundInMaskIsRun, FoundAheadIsRun
    <3>2. t.answer >= start
      BY <2>2, <3>1
    <3> QED  BY <2>3, <3>1, <3>2
  <2>5. CASE ~(FoundInMask(k, ignore, n, TRUE, t.answer) \/ FoundAhead(k, ignore, n, TRUE, t.answer))
    <3>1. /\ k \in Nat /\ k < n_masks /\ ignore \in SUBSET MaskBits /\ n \in Nat \ {0}
          /\ TurnEnd(k, ignore, n, TRUE, t)
      BY <2>1, <2>3, TurnEnds
    <3>2. t.answer = -1
      BY <2>5, <3>1 DEF TurnEnd
    <3> QED  BY <2>3, <3>2
  <2> QED  BY <2>4, <2>5
<1>4. -1 \in G
  OBVIOUS
<1> HIDE DEF begin, G
<1>5. ASSUME NEW k \in begin .. n_masks - 1, NEW ignore \in SUBSET MaskBits,
             k = begin => ignore = NotBefore(start),
             \A j \in k + 1 .. n_masks : \A ig \in SUBSET MaskBits : f[j][ig] \in G
      PROVE  f[k][ignore] \in G
  <2>1. k \in 0 .. n_masks /\ k \in Nat /\ k < n_masks /\ k # n_masks
    BY <1>1
  <2>2. f[k][ignore] = AfterTurn(f, SearchMask(k, ignore, n, TRUE))
    BY <1>2, <2>1 DEF Searches
  <2>3. CASE SearchMask(k, ignore, n, TRUE).answer # -1
    BY <1>3, <1>5, <2>2, <2>3 DEF AfterTurn
  <2>4. CASE SearchMask(k, ignore, n, TRUE).answer = -1
    <3>1. /\ SearchMask(k, ignore, n, TRUE).msk_idx \in k + 1 .. n_masks
          /\ SearchMask(k, ignore, n, TRUE).ignore_msk \in SUBSET MaskBits
      BY <2>1, <2>4, TurnGoesOn
    <3> QED  BY <1>5, <2>2, <2>4, <3>1 DEF AfterTurn
  <2> QED  BY <2>3, <2>4
<1>6. \A k \in begin + 1 .. n_masks : \A ignore \in SUBSET MaskBits : f[k][ignore] \in G
  <2> DEFINE N == n_masks - (begin + 1)
             S == {j \in 0 .. N : \A k \in n_masks - j .. n_masks :
                                     \A ignore \in SUBSET MaskBits : f[k][ignore] \in G}
  <2>1. N \in Nat /\ n_masks - N = begin + 1
    BY <1>1
  <2>2. 0 \in S
    <3>1. \A ignore \in SUBSET MaskBits : f[n_masks][ignore] = -1
      <4>1. n_masks \in 0 .. n_masks
        BY <1>1
      <4> QED  BY <1>2, <4>1 DEF Searches
    <3>2. \A k \in n_masks - 0 .. n_masks : k = n_masks
      BY <1>1
    <3> QED  BY <1>4, <2>1, <3>1, <3>2
  <2>3. ASSUME NEW j \in S, j < N PROVE j + 1 \in S
    <3>1. PICK m \in begin + 1 .. n_masks - 1 : m = n_masks - (j + 1) /\ n_masks - j = m + 1
      BY <1>1, <2>1, <2>3
    <3>2. m \in begin .. n_masks - 1 /\ m # begin
      BY <1>1
    <3>3. \A ignore \in SUBSET MaskBits : f[m][ignore] \in G
      BY <1>5, <3>1, <3>2
    <3>4. \A k \in m .. n_masks : k = m \/ k \in n_masks - j .. n_masks
      BY <1>1, <3>1
    <3>5. j + 1 \in 0 .. N
      BY <2>1, <2>3
    <3> QED  BY <3>1, <3>3, <3>4, <3>5
  <2>4. N \in S
    <3>1. S \subseteq 0 .. N
      OBVIOUS
    <3> HIDE DEF S, N
    <3>2. S = 0 .. N
      BY <2>1, <2>2, <2>3, <3>1, UpTo
    <3> QED  BY <2>1, <3>2
  <2> QED  BY <2>1, <2>4
<1>7. f[begin][NotBefore(start)] \in G
  <2>1. NotBefore(start) \in SUBSET MaskBits /\ begin \in begin .. n_masks - 1
    BY <1>1 DEF NotBefore
  <2> QED  BY <1>5, <1>6, <2>1
<1> QED  BY <1>2, <1>7 DEF G

\* The bits of a mask that find_next_n looks at, as long as it skips none.
Sought(k, start, used) == (Wanted(k, used) \cap Real(k)) \cap Later(k, start)
FirstIgnore(k, start) == IF k = FirstIdx(start) THEN NotBefore(start) ELSE {}

LEMMA SoughtIsKept ==
    ASSUME FbShape, NEW start \in Elements, NEW used \in BOOLEAN, FirstIdx(start) # LastIdx,
           NEW k \in FirstIdx(start) .. n_masks - 1
    PROVE  Kept(k, FirstIgnore(k, start), used) = Sought(k, start, used)
<1>1. start \in Nat /\ len \in Nat /\ MASK_LEN_TO_MOD(start) \in MaskBits /\ FirstIdx(start) \in Nat
  BY MaskSplit DEF Elements, FbShape, FirstIdx
<1>2. n_masks \in Nat /\ n_masks = (IF BelowLast = {} THEN LastIdx ELSE LastIdx + 1) /\ LastIdx \in Nat
  BY <1>1, MasksOfLength
<1>3. k \in 0 .. n_masks - 1
  BY <1>1, <1>2
<1>4. Wanted(k, used) \subseteq MaskBits
  BY <1>3 DEF Wanted, FbShape
<1>5. CASE k = FirstIdx(start)
  <2>1. NotBefore(start) # {} /\ NotBefore(start) \subseteq MaskBits
    BY <1>1 DEF NotBefore, MaskBits
  <2>2. /\ FirstIgnore(k, start) = NotBefore(start) /\ Later(k, start) = NotBefore(start)
        /\ Real(k) = MaskBits
    BY <1>5 DEF FirstIgnore, Later, Real
  <2>3. Kept(k, FirstIgnore(k, start), used) = Wanted(k, used) \cap NotBefore(start)
    BY <1>5, <2>1, <2>2 DEF Kept
  <2> QED  BY <1>4, <2>2, <2>3 DEF Sought
<1>6. CASE k # FirstIdx(start)
  <2>1. FirstIgnore(k, start) = {} /\ Later(k, start) = MaskBits
    BY <1>6 DEF FirstIgnore, Later
  <2>2. CASE k = LastIdx
    <3>1. BelowLast # {} /\ BelowLast \subseteq MaskBits
      BY <1>2, <1>3, <2>2 DEF BelowLast
    <3>2. Kept(k, FirstIgnore(k, start), used) = Wanted(k, used) \cap BelowLast
      BY <2>1, <2>2, <3>1 DEF Kept
    <3> QED  BY <1>4, <2>1, <2>2, <3>1, <3>2 DEF Sought, Real
  <2>3. CASE k # LastIdx
    <3>1. Kept(k, FirstIgnore(k, start), used) = Wanted(k, used)
      BY <2>1, <2>3 DEF Kept
    <3> QED  BY <1>4, <2>1, <2>3, <3>1 DEF Sought, Real
  <2> QED  BY <2>2, <2>3
<1> QED  BY <1>5, <1>6

\* No run of the wanted kind from start on reaches the end of a mask.
NoRunReachesEnd(start, used) ==
    \A idx \in FirstIdx(start) .. n_masks - 1 :
        MASK_ALIGN - 1 \notin Wanted(idx, used) \cap Later(idx, start)

\* Then a run is in one mask, and it is where the turn for that mask finds it.
LEMMA RunsInMask ==
    ASSUME FbShape, NEW start \in Elements, NEW used \in BOOLEAN, NEW n \in Nat \ {0},
           NoRunReachesEnd(start, used),
           NEW k \in FirstIdx(start) .. n_masks - 1, NEW b \in MaskBits, MASK_GET_IDX(k, b) >= start
    PROVE  RunFrom(MASK_GET_IDX(k, b), n, used)
              <=> n <= MASK_ALIGN /\ b \in RunsOf(Sought(k, start, used), n)
<1> DEFINE x == MASK_GET_IDX(k, b)
           cur == Sought(k, start, used)
           H == Holding(used)
<1>1. MASK_ALIGN \in Nat \ {0} /\ start \in Nat /\ len \in Nat
  BY FbarrayAssumption DEF Elements, FbShape
<1>2. FirstIdx(start) \in Nat /\ n_masks \in Nat /\ k \in Nat
  BY <1>1, MaskSplit, ElementsHaveMasks DEF FirstIdx
<1>3. PICK at \in Nat : at = k * MASK_ALIGN
  BY <1>1, <1>2
<1>4. x = at + b /\ b \in Nat /\ b < MASK_ALIGN /\ x \in Nat /\ x >= start
  BY <1>1, <1>3 DEF MASK_GET_IDX, MaskBits
<1>5. \A c \in MaskBits : c \in cur <=> at + c \in H /\ at + c >= start
  <2> SUFFICES ASSUME NEW c \in MaskBits PROVE c \in cur <=> at + c \in H /\ at + c >= start
    OBVIOUS
  <2>1. c \in cur <=> MASK_GET_IDX(k, c) \in {y \in Holding(used) : y >= start}
    BY SoughtBits DEF Sought
  <2> QED  BY <1>3, <2>1 DEF MASK_GET_IDX
<1>6. MASK_ALIGN - 1 \notin cur /\ MASK_ALIGN - 1 \in MaskBits
  BY <1>1 DEF Sought, NoRunReachesEnd, MaskBits
<1>7. RunFrom(x, n, used) <=> x + n <= len /\ x .. x + n - 1 \subseteq H
  BY DEF RunFrom
<1>8. b \in RunsOf(cur, n) <=> b \in cur /\ \A j \in 1 .. n - 1 : b + j \in cur
  BY DEF RunsOf
<1>9. cur \subseteq MaskBits
  BY DEF Sought, Later, NotBefore
<1> HIDE DEF x, cur, H
<1>10. ASSUME x .. x + n - 1 \subseteq H
       PROVE  n <= MASK_ALIGN /\ b \in cur /\ \A j \in 1 .. n - 1 : b + j \in cur
  <2>1. b + (n - 1) < MASK_ALIGN
    <3> SUFFICES ASSUME b + (n - 1) >= MASK_ALIGN PROVE FALSE
      BY <1>1, <1>4
    <3>1. at + (MASK_ALIGN - 1) \in x .. x + n - 1
      BY <1>1, <1>3, <1>4
    <3>2. at + (MASK_ALIGN - 1) >= start
      BY <1>1, <1>3, <1>4
    <3> QED  BY <1>5, <1>6, <1>10, <3>1, <3>2
  <2>2. ASSUME NEW j \in 0 .. n - 1 PROVE b + j \in cur
    <3>1. b + j \in MaskBits
      BY <1>1, <1>4, <2>1 DEF MaskBits
    <3>2. at + (b + j) \in x .. x + n - 1 /\ at + (b + j) >= start
      BY <1>1, <1>3, <1>4
    <3> QED  BY <1>5, <1>10, <3>1, <3>2
  <2>3. 0 \in 0 .. n - 1 /\ b + 0 = b
    BY <1>4
  <2>4. \A j \in 1 .. n - 1 : j \in 0 .. n - 1
    OBVIOUS
  <2>5. n <= MASK_ALIGN
    BY <1>1, <1>4, <2>1
  <2>6. b \in cur
    BY <2>2, <2>3
  <2> QED  BY <2>2, <2>4, <2>5, <2>6
<1>11. ASSUME b \in cur, \A j \in 1 .. n - 1 : b + j \in cur
       PROVE  x + n <= len /\ x .. x + n - 1 \subseteq H
  <2>1. ASSUME NEW y \in x .. x + n - 1 PROVE y \in H
    <3>1. PICK j \in 0 .. n - 1 : y = x + j
      <4>1. y - x \in 0 .. n - 1 /\ y = x + (y - x)
        BY <1>4
      <4> QED  BY <4>1
    <3>2. b + j \in cur
      <4>1. CASE j = 0
        <5>1. b + 0 = b
          BY <1>4
        <5> QED  BY <1>11, <4>1, <5>1
      <4>2. CASE j # 0
        <5>1. j \in 1 .. n - 1
          BY <4>2
        <5> QED  BY <1>11, <5>1
      <4> QED  BY <4>1, <4>2
    <3>3. at + (b + j) \in H
      BY <1>5, <1>9, <3>2
    <3>4. at + (b + j) = y
      BY <1>3, <1>4, <3>1
    <3> QED  BY <3>3, <3>4
  <2>2. x + n - 1 \in x .. x + n - 1
    BY <1>4
  <2>3. x + n - 1 \in Elements
    BY <2>1, <2>2 DEF H, Holding
  <2>4. x + n - 1 < len
    BY <1>1, <2>3 DEF Elements
  <2> QED  BY <1>1, <1>4, <2>1, <2>4
<1>12. RunFrom(x, n, used) <=> n <= MASK_ALIGN /\ b \in RunsOf(cur, n)
  BY <1>7, <1>8, <1>10, <1>11
<1> QED  BY <1>12 DEF x, cur

\* The runs from a mask on.
RunsFrom(k, start, n, used) ==
    {x \in Elements : x >= start /\ x >= MASK_GET_IDX(k, 0) /\ RunFrom(x, n, used)}

\* The first run is the first one in this mask, or the first one behind it.
LEMMA FirstRunInMask ==
    ASSUME FbShape, NEW start \in Elements, NEW used \in BOOLEAN, NEW n \in Nat \ {0},
           NoRunReachesEnd(start, used), NEW k \in FirstIdx(start) .. n_masks - 1
    PROVE  LET R == RunsOf(Sought(k, start, used), n)
           IN LeastOr(RunsFrom(k, start, n, used)) =
                 IF n <= MASK_ALIGN /\ R # {} THEN MASK_GET_IDX(k, Min(R))
                 ELSE LeastOr(RunsFrom(k + 1, start, n, used))
<1> DEFINE R == RunsOf(Sought(k, start, used), n)
           S == RunsFrom(k, start, n, used)
<1>1. MASK_ALIGN \in Nat \ {0} /\ start \in Nat /\ len \in Nat /\ 0 \in MaskBits
  BY FbarrayAssumption DEF Elements, FbShape, MaskBits
<1>2. FirstIdx(start) \in Nat /\ n_masks \in Nat /\ k \in Nat /\ k + 1 \in Nat /\ k \in 0 .. n_masks - 1
      /\ FirstIdx(start) <= k
  BY <1>1, MaskSplit, ElementsHaveMasks DEF FirstIdx
<1>3. S \subseteq Nat /\ R \subseteq MaskBits /\ MaskBits \subseteq Nat
  BY <1>1 DEF RunsFrom, Elements, MaskBits, RunsOf, Sought, Later, NotBefore
<1>4. ASSUME NEW b \in R
      PROVE  /\ MASK_GET_IDX(k, b) \in Nat /\ MASK_GET_IDX(k, b) >= start
             /\ MASK_GET_IDX(k, b) >= MASK_GET_IDX(k, 0)
             /\ MASK_GET_IDX(k, b) \in Elements
  <2>1. b \in Sought(k, start, used) /\ b \in MaskBits /\ b \in Nat
    BY <1>3 DEF RunsOf
  <2>2. MASK_GET_IDX(k, b) \in {y \in Holding(used) : y >= start}
    BY <2>1, SoughtBits DEF Sought
  <2>3. k * MASK_ALIGN \in Nat
    BY <1>1, <1>2
  <2>4. MASK_GET_IDX(k, b) >= MASK_GET_IDX(k, 0)
    BY <2>1, <2>3 DEF MASK_GET_IDX
  <2> QED  BY <1>2, <2>1, <2>2, <2>4, MaskJoin DEF Holding
<1>5. ASSUME NEW b \in R, n <= MASK_ALIGN PROVE MASK_GET_IDX(k, b) \in S
  <2>1. RunFrom(MASK_GET_IDX(k, b), n, used)
    BY <1>3, <1>4, <1>5, RunsInMask
  <2> QED  BY <1>4, <2>1 DEF RunsFrom
<1>6. ASSUME NEW x \in S
      PROVE  \/ \E b \in R : n <= MASK_ALIGN /\ x = MASK_GET_IDX(k, b)
             \/ x >= MASK_GET_IDX(k + 1, 0) /\ \A b \in MaskBits : MASK_GET_IDX(k, b) < x
  <2>1. x \in Elements /\ x \in Nat /\ x >= start /\ x >= MASK_GET_IDX(k, 0) /\ RunFrom(x, n, used)
    BY <1>3 DEF RunsFrom
  <2>2. PICK j \in Nat, c \in MaskBits : x = MASK_GET_IDX(j, c)
    BY <2>1, MaskSplit
  <2>3. c \in Nat
    BY <1>3
  <2>4. ~(j < k)
    <3>1. j < k => MASK_GET_IDX(j, c) < MASK_GET_IDX(k, 0)
      BY <1>2, MaskOrder
    <3>2. MASK_GET_IDX(k, 0) \in Nat
      BY <1>1, <1>2, MaskJoin
    <3> QED  BY <2>1, <2>2, <3>1, <3>2
  <2>5. CASE j = k
    <3>1. n <= MASK_ALIGN /\ c \in R
      BY <2>1, <2>2, <2>5, RunsInMask
    <3> QED  BY <2>2, <2>5, <3>1
  <2>6. CASE k < j
    <3>1. \A b \in MaskBits : MASK_GET_IDX(k, b) < x
      BY <1>2, <2>2, <2>3, <2>6, MaskOrder
    <3>2. x >= MASK_GET_IDX(k + 1, 0)
      <4>1. MASK_GET_IDX(k + 1, 0) \in Nat
        BY <1>1, <1>2, MaskJoin
      <4>2. CASE k + 1 < j
        <5>1. MASK_GET_IDX(k + 1, 0) < x
          BY <1>1, <1>2, <2>2, <2>3, <4>2, MaskOrder
        <5> QED  BY <2>1, <4>1, <5>1
      <4>3. CASE k + 1 = j
        <5>1. (k + 1) * MASK_ALIGN \in Nat
          BY <1>1, <1>2
        <5> QED  BY <2>2, <2>3, <4>3, <5>1 DEF MASK_GET_IDX
      <4> QED  BY <1>2, <2>6, <4>2, <4>3
    <3> QED  BY <3>1, <3>2
  <2> QED  BY <1>2, <2>4, <2>5, <2>6
<1>7. CASE n <= MASK_ALIGN /\ R # {}
  <2> HIDE DEF R, S
  <2>1. PICK b \in R : b = Min(R) /\ \A c \in R : b <= c
    <3>1. R \subseteq Nat
      BY <1>3
    <3> QED  BY <1>7, <3>1, LeastIsThere
  <2>2. MASK_GET_IDX(k, b) \in S /\ MASK_GET_IDX(k, b) \in Nat /\ b \in MaskBits
    BY <1>3, <1>4, <1>5, <1>7
  <2>3. ASSUME NEW x \in S PROVE MASK_GET_IDX(k, b) <= x
    <3>1. x \in Nat
      BY <1>3
    <3>2. CASE \E c \in R : n <= MASK_ALIGN /\ x = MASK_GET_IDX(k, c)
      <4>1. PICK c \in R : x = MASK_GET_IDX(k, c)
        BY <3>2
      <4>2. b <= c /\ b \in Nat /\ c \in Nat /\ k * MASK_ALIGN \in Nat
        BY <1>1, <1>2, <1>3, <2>1
      <4> QED  BY <4>1, <4>2 DEF MASK_GET_IDX
    <3>3. CASE \A c \in MaskBits : MASK_GET_IDX(k, c) < x
      <4>1. MASK_GET_IDX(k, b) < x
        BY <2>2, <3>3
      <4> QED  BY <2>2, <3>1, <4>1
    <3> QED  BY <1>6, <3>2, <3>3
  <2>4. Min(S) = MASK_GET_IDX(k, b)
    BY <1>3, <2>2, <2>3, LeastIs
  <2>5. LeastOr(S) = MASK_GET_IDX(k, Min(R))
    BY <2>1, <2>2, <2>4 DEF LeastOr
  <2> QED  BY <1>7, <2>5 DEF R, S
<1>8. CASE ~(n <= MASK_ALIGN /\ R # {})
  <2>1. \A x \in S : x >= MASK_GET_IDX(k + 1, 0)
    BY <1>6, <1>8
  <2>2. PICK here \in Nat, there \in Nat :
           here = MASK_GET_IDX(k, 0) /\ there = MASK_GET_IDX(k + 1, 0) /\ here < there
    <3>1. MASK_GET_IDX(k, 0) < MASK_GET_IDX(k + 1, 0)
      BY <1>1, <1>2, MaskOrder
    <3> QED  BY <1>1, <1>2, <3>1, MaskJoin
  <2>3. \A x \in Elements : x >= there => x >= here
    BY <1>1, <2>2 DEF Elements
  <2>4. S = RunsFrom(k + 1, start, n, used)
    BY <2>1, <2>2, <2>3 DEF RunsFrom
  <2> QED  BY <1>8, <2>4
<1> QED  BY <1>7, <1>8

\* Where no run reaches the end of a mask, find_next_n finds the first run.
LEMMA FindNextN ==
    ASSUME FbShape, NEW start \in Elements, NEW used \in BOOLEAN, NEW n \in Nat \ {0},
           NoRunReachesEnd(start, used), FirstIdx(start) # LastIdx
    PROVE  find_next_n(start, n, used) = FirstRun(start, n, used)
<1> DEFINE begin == FirstIdx(start)
           A(k) == LeastOr(RunsFrom(k, start, n, used))
<1>1. MASK_ALIGN \in Nat \ {0} /\ start \in Nat /\ len \in Nat /\ 0 \in MaskBits
  BY FbarrayAssumption DEF Elements, FbShape, MaskBits
<1>2. begin \in Nat /\ n_masks \in Nat /\ begin < n_masks
      /\ MASK_LEN_TO_MOD(start) \in MaskBits /\ MASK_GET_IDX(begin, MASK_LEN_TO_MOD(start)) = start
  <2>1. begin \in 0 .. n_masks - 1 /\ n_masks \in Nat
    BY <1>1, ElementsHaveMasks DEF FirstIdx
  <2> QED  BY <1>1, <2>1, MaskSplit DEF FirstIdx
<1>3. PICK f : Searches(f, n, used) /\ find_next_n(start, n, used) = f[begin][NotBefore(start)]
  BY SearchExists
<1>4. ASSUME NEW k \in begin .. n_masks - 1, f[k + 1][{}] = A(k + 1)
      PROVE  f[k][FirstIgnore(k, start)] = A(k)
  <2> DEFINE ig == FirstIgnore(k, start)
             R == RunsOf(Sought(k, start, used), n)
  <2>1. k \in Nat /\ k < n_masks /\ k \in 0 .. n_masks /\ k # n_masks /\ k \in 0 .. n_masks - 1
    BY <1>2
  <2>2. ig \in SUBSET MaskBits
    BY DEF FirstIgnore, NotBefore
  <2>3. PICK t : t = SearchMask(k, ig, n, used)
    OBVIOUS
  <2>4. f[k][ig] = IF t.answer # -1 THEN t.answer ELSE f[t.msk_idx][t.ignore_msk]
    BY <1>3, <2>1, <2>2, <2>3 DEF Searches, AfterTurn
  <2>5. Kept(k, ig, used) = Sought(k, start, used)
    BY SoughtIsKept
  <2>6. TopRun(Sought(k, start, used)) = 0
    <3>1. Sought(k, start, used) \subseteq MaskBits
      BY DEF Sought, Later, NotBefore
    <3>2. MASK_ALIGN - 1 \notin Sought(k, start, used)
      BY DEF NoRunReachesEnd, Sought
    <3> QED  BY <3>1, <3>2, TopRunIs
  <2>7. TurnEnd(k, ig, n, used, t)
    BY <2>1, <2>3, TurnEnds
  <2>8. A(k) = IF n <= MASK_ALIGN /\ R # {} THEN MASK_GET_IDX(k, Min(R)) ELSE A(k + 1)
    BY FirstRunInMask
  <2> HIDE DEF ig, A
  <2>9. CASE n <= MASK_ALIGN /\ R # {}
    <3>1. t.answer = MASK_GET_IDX(k, Min(R))
      BY <2>5, <2>6, <2>7, <2>9 DEF TurnEnd, FoundInMask, FoundAhead
    <3>2. R \subseteq MaskBits /\ MaskBits \subseteq Nat
      BY <1>1 DEF MaskBits, RunsOf, Sought, Later, NotBefore
    <3>3. Min(R) \in MaskBits
      <4> HIDE DEF R
      <4>1. R \subseteq Nat
        BY <3>2
      <4> QED  BY <2>9, <3>2, <4>1, LeastIsThere
    <3>4. MASK_GET_IDX(k, Min(R)) \in Nat
      BY <2>1, <3>3, MaskJoin
    <3>5. MASK_GET_IDX(k, Min(R)) # -1
      BY <3>4
    <3> QED  BY <2>4, <2>8, <2>9, <3>1, <3>5 DEF ig
  <2>10. CASE ~(n <= MASK_ALIGN /\ R # {})
    <3>1. t.answer = -1 /\ t.msk_idx = k + 1 /\ t.ignore_msk = {}
      BY <2>5, <2>6, <2>7, <2>10 DEF TurnEnd, FoundInMask, FoundAhead
    <3> QED  BY <1>4, <2>4, <2>8, <2>10, <3>1 DEF ig
  <2> QED  BY <2>9, <2>10
<1>5. f[n_masks][{}] = A(n_masks)
  <2>1. f[n_masks][{}] = -1
    <3>1. n_masks \in 0 .. n_masks /\ {} \in SUBSET MaskBits
      BY <1>2
    <3> QED  BY <1>3, <3>1 DEF Searches
  <2>2. RunsFrom(n_masks, start, n, used) = {}
    <3> SUFFICES ASSUME NEW x \in Elements, x >= MASK_GET_IDX(n_masks, 0) PROVE FALSE
      BY DEF RunsFrom
    <3>1. PICK j \in 0 .. n_masks - 1, c \in MaskBits : MASK_GET_IDX(j, c) = x
      BY ElementBits
    <3>2. MASK_GET_IDX(j, c) < MASK_GET_IDX(n_masks, 0) /\ j \in Nat
      BY <1>1, <1>2, MaskOrder
    <3>3. MASK_GET_IDX(n_masks, 0) \in Nat /\ x \in Nat
      BY <1>1, <1>2, MaskJoin DEF Elements
    <3> QED  BY <3>1, <3>2, <3>3
  <2> QED  BY <2>1, <2>2 DEF LeastOr
<1>6. A(begin) = FirstRun(start, n, used)
  <2>1. PICK b \in Nat, at \in Nat : b = MASK_LEN_TO_MOD(start) /\ at = begin * MASK_ALIGN
    BY <1>1, <1>2 DEF MaskBits
  <2>2. start = at + b /\ MASK_GET_IDX(begin, 0) = at
    BY <1>2, <2>1 DEF MASK_GET_IDX
  <2>3. \A x \in Elements : x >= start => x >= MASK_GET_IDX(begin, 0)
    BY <1>1, <2>1, <2>2 DEF Elements
  <2>4. RunsFrom(begin, start, n, used) = {x \in Elements : x >= start /\ RunFrom(x, n, used)}
    BY <2>3 DEF RunsFrom
  <2> QED  BY <2>4 DEF FirstRun
<1>7. \A k \in begin + 1 .. n_masks - 1 : FirstIgnore(k, start) = {}
  BY <1>2 DEF FirstIgnore
<1>8. FirstIgnore(begin, start) = NotBefore(start)
  BY DEF FirstIgnore
<1> HIDE DEF begin, A
<1>9. f[begin + 1][{}] = A(begin + 1)
  <2> DEFINE N == n_masks - (begin + 1)
             S == {j \in 0 .. N : f[n_masks - j][{}] = A(n_masks - j)}
  <2>1. N \in Nat /\ n_masks - N = begin + 1
    BY <1>2
  <2>2. 0 \in S
    <3>1. n_masks - 0 = n_masks /\ 0 \in 0 .. N
      BY <1>2, <2>1
    <3> QED  BY <1>5, <3>1
  <2>3. ASSUME NEW j \in S, j < N PROVE j + 1 \in S
    <3>1. PICK m \in begin + 1 .. n_masks - 1 : m = n_masks - (j + 1) /\ n_masks - j = m + 1
      BY <1>2, <2>1, <2>3
    <3>2. m \in begin .. n_masks - 1
      BY <1>2
    <3>3. f[m][{}] = A(m)
      BY <1>4, <1>7, <3>1, <3>2
    <3>4. j + 1 \in 0 .. N
      BY <2>1, <2>3
    <3> QED  BY <3>1, <3>3, <3>4
  <2>4. N \in S
    <3>1. S \subseteq 0 .. N
      OBVIOUS
    <3> HIDE DEF S, N
    <3>2. S = 0 .. N
      BY <2>1, <2>2, <2>3, <3>1, UpTo
    <3> QED  BY <2>1, <3>2
  <2> QED  BY <2>1, <2>4
<1>10. f[begin][NotBefore(start)] = A(begin)
  <2>1. begin \in begin .. n_masks - 1
    BY <1>2
  <2> QED  BY <1>4, <1>8, <1>9, <2>1
<1> QED  BY <1>3, <1>6, <1>10

\* The invariant: before init there is nothing, then the masks and the counter agree.
FbInv == len \in 0 .. MaxLen /\ (len > 0 => FbShape /\ FbCounted)

\* The searches for one element and for the length of a run.
LEMMA SingleSearches == FbInv => SingleSearchesAreRight
<1> SUFFICES ASSUME FbShape, FbCounted, len > 0 PROVE SingleSearchesAreRight
  BY DEF FbInv, SingleSearchesAreRight
<1>1. len \in Nat /\ count \in Nat
  BY WhatCountTells
<1>2. ASSUME NEW start \in Elements
      PROVE  rte_fbarray_find_next_free(start) = LeastOr({i \in Holding(FALSE) : i >= start})
  <2>1. ~(start >= len)
    BY <1>1 DEF Elements
  <2>2. CASE len = count
    <3>1. {i \in Holding(FALSE) : i >= start} = {}
      BY <2>2, WhatCountTells
    <3> QED  BY <2>2, <3>1 DEF rte_fbarray_find_next_free, LeastOr
  <2>3. CASE len # count
    <3>1. rte_fbarray_find_next_free(start) = find_next(start, FALSE)
      BY <2>1, <2>3 DEF rte_fbarray_find_next_free
    <3> QED  BY <3>1, FindNext
  <2> QED  BY <2>2, <2>3
<1>3. ASSUME NEW start \in Elements
      PROVE  rte_fbarray_find_next_used(start) = LeastOr({i \in Holding(TRUE) : i >= start})
  <2>1. ~(start >= len)
    BY <1>1 DEF Elements
  <2>2. CASE count = 0
    <3>1. {i \in Holding(TRUE) : i >= start} = {}
      BY <2>2, WhatCountTells
    <3> QED  BY <2>2, <3>1 DEF rte_fbarray_find_next_used, LeastOr
  <2>3. CASE count # 0
    <3>1. rte_fbarray_find_next_used(start) = find_next(start, TRUE)
      BY <2>1, <2>3 DEF rte_fbarray_find_next_used
    <3> QED  BY <3>1, FindNext
  <2> QED  BY <2>2, <2>3
<1>4. ASSUME NEW start \in Elements
      PROVE  rte_fbarray_find_contig_used(start) = RunEnd(start, TRUE) - start
  <2>1. ~(start >= len)
    BY <1>1 DEF Elements
  <2>2. rte_fbarray_find_contig_used(start) = find_contig(start, TRUE)
    BY <2>1 DEF rte_fbarray_find_contig_used
  <2> QED  BY <2>2, FindContig
<1>5. ASSUME NEW start \in Elements
      PROVE  rte_fbarray_find_contig_free(start) = IF count = len THEN -1 ELSE RunEnd(start, FALSE) - start
  <2>1. ~(start >= len) /\ start < len
    BY <1>1 DEF Elements
  <2>2. CASE len = count
    <3>1. rte_fbarray_find_contig_free(start) = -1
      <4>1. start >= len \/ len = count
        BY <2>2
      <4>2. ~(start < len /\ count = 0) \/ len = 0
        BY <2>2
      <4>3. len # 0
        BY <1>1
      <4> QED  BY <4>1, <4>2, <4>3 DEF rte_fbarray_find_contig_free
    <3> QED  BY <2>2, <3>1
  <2>3. CASE len # count /\ count = 0
    <3>1. rte_fbarray_find_contig_free(start) = len - start
      BY <2>1, <2>3 DEF rte_fbarray_find_contig_free
    <3>2. Holding(FALSE) = Elements
      BY <2>3, WhatCountTells
    <3>3. {x \in Elements : x >= start /\ x \notin Holding(FALSE)} = {}
      BY <3>2
    <3>4. RunEnd(start, FALSE) = len
      BY <3>3 DEF RunEnd
    <3> QED  BY <2>3, <3>1, <3>4
  <2>4. CASE len # count /\ count # 0
    <3>1. rte_fbarray_find_contig_free(start) = find_contig(start, FALSE)
      BY <2>1, <2>4 DEF rte_fbarray_find_contig_free
    <3>2. find_contig(start, FALSE) = RunEnd(start, FALSE) - start
      BY FindContig
    <3> QED  BY <2>4, <3>1, <3>2
  <2> QED  BY <2>2, <2>3, <2>4
<1>6. ASSUME NEW start \in Elements, NEW used \in BOOLEAN
      PROVE  LET ends == {i \in Elements : i >= start /\ i \notin Holding(used)}
                 run  == (IF ends = {} THEN len ELSE Min(ends)) - start
             IN IF used THEN rte_fbarray_find_contig_used(start) = run
                ELSE rte_fbarray_find_contig_free(start) = IF count = len THEN -1 ELSE run
  <2>1. CASE used = TRUE
    BY <1>4, <2>1 DEF RunEnd
  <2>2. CASE used = FALSE
    BY <1>5, <2>2 DEF RunEnd
  <2> QED  BY <2>1, <2>2
<1>7. count = Cardinality(Holding(TRUE))
  BY DEF FbCounted
<1> QED  BY <1>2, <1>3, <1>6, <1>7 DEF SingleSearchesAreRight

\* The shortcuts refuse only what is not there.
LEMMA TooFewForRun ==
    ASSUME FbShape, FbCounted, NEW used \in BOOLEAN, NEW start \in Nat, NEW n \in Nat \ {0},
           Cardinality(Holding(used)) < n
    PROVE  FirstRun(start, n, used) = -1
<1>1. IsFiniteSet(Holding(used))
  BY WhatCountTells
<1>2. ASSUME NEW x \in Elements, RunFrom(x, n, used) PROVE FALSE
  <2>1. x \in Nat /\ x .. x + n - 1 \subseteq Holding(used)
    BY <1>2 DEF Elements, FbShape, RunFrom
  <2>2. Cardinality(x .. x + n - 1) = n
    <3>1. x + n - 1 \in Int /\ ~(x > x + n - 1) /\ (x + n - 1) - x + 1 = n
      BY <2>1
    <3>2. Cardinality(x .. x + n - 1) = IF x > x + n - 1 THEN 0 ELSE (x + n - 1) - x + 1
      BY <2>1, <3>1, FS_Interval
    <3> QED  BY <3>1, <3>2
  <2>3. Cardinality(x .. x + n - 1) <= Cardinality(Holding(used))
    BY <1>1, <2>1, FS_Subset
  <2>4. Cardinality(Holding(used)) \in Nat
    BY <1>1, FS_CardinalityType
  <2> QED  BY <2>2, <2>3, <2>4
<1>3. {i \in Elements : i >= start /\ RunFrom(i, n, used)} = {}
  BY <1>2
<1> QED  BY <1>3 DEF FirstRun, LeastOr

\* The search for several elements.
LEMMA SearchesForRuns == FbInv => NextNIsRight
<1> SUFFICES ASSUME FbShape, FbCounted, len > 0, NEW start \in Elements, NEW n \in 1 .. len,
                    FirstIdx(start) # LastIdx
             PROVE  /\ NoRunReachesEnd(start, TRUE)
                          => rte_fbarray_find_next_n_used(start, n) = FirstRun(start, n, TRUE)
                    /\ NoRunReachesEnd(start, FALSE)
                          => rte_fbarray_find_next_n_free(start, n) = FirstRun(start, n, FALSE)
                    /\ rte_fbarray_find_next_n_used(start, n) # -1
                          => /\ rte_fbarray_find_next_n_used(start, n) >= start
                             /\ RunFrom(rte_fbarray_find_next_n_used(start, n), n, TRUE)
  BY Zenon DEF FbInv, NextNIsRight, NoRunReachesEnd, Later
<1>1. /\ len \in Nat /\ count \in Nat
      /\ Cardinality(Holding(TRUE)) = count /\ Cardinality(Holding(FALSE)) = len - count
  BY WhatCountTells DEF FbCounted
<1>2. start \in Nat /\ n \in Nat \ {0} /\ ~(start >= len) /\ ~(n > len)
  BY <1>1 DEF Elements
<1>3. ASSUME NoRunReachesEnd(start, TRUE)
      PROVE  rte_fbarray_find_next_n_used(start, n) = FirstRun(start, n, TRUE)
  <2>1. CASE count < n
    <3>1. rte_fbarray_find_next_n_used(start, n) = -1
      BY <2>1 DEF rte_fbarray_find_next_n_used
    <3>2. FirstRun(start, n, TRUE) = -1
      BY <1>1, <1>2, <2>1, TooFewForRun
    <3> QED  BY <3>1, <3>2
  <2>2. CASE ~(count < n)
    <3>1. rte_fbarray_find_next_n_used(start, n) = find_next_n(start, n, TRUE)
      BY <1>2, <2>2 DEF rte_fbarray_find_next_n_used
    <3> QED  BY <1>2, <1>3, <3>1, FindNextN
  <2> QED  BY <2>1, <2>2
<1>4. ASSUME NoRunReachesEnd(start, FALSE)
      PROVE  rte_fbarray_find_next_n_free(start, n) = FirstRun(start, n, FALSE)
  <2>1. CASE len = count \/ len - count < n
    <3>1. rte_fbarray_find_next_n_free(start, n) = -1
      BY <2>1 DEF rte_fbarray_find_next_n_free
    <3>2. Cardinality(Holding(FALSE)) < n
      <4>1. len - count < n
        BY <1>1, <1>2, <2>1
      <4> QED  BY <1>1, <4>1
    <3>3. FirstRun(start, n, FALSE) = -1
      BY <1>2, <3>2, TooFewForRun
    <3> QED  BY <3>1, <3>3
  <2>2. CASE ~(len = count \/ len - count < n)
    <3>1. rte_fbarray_find_next_n_free(start, n) = find_next_n(start, n, FALSE)
      BY <1>2, <2>2 DEF rte_fbarray_find_next_n_free
    <3> QED  BY <1>2, <1>4, <3>1, FindNextN
  <2> QED  BY <2>1, <2>2
<1>5. ASSUME rte_fbarray_find_next_n_used(start, n) # -1
      PROVE  /\ rte_fbarray_find_next_n_used(start, n) >= start
             /\ RunFrom(rte_fbarray_find_next_n_used(start, n), n, TRUE)
  <2>1. rte_fbarray_find_next_n_used(start, n) = find_next_n(start, n, TRUE)
    BY <1>5 DEF rte_fbarray_find_next_n_used
  <2>2. PICK a \in Nat : /\ a = find_next_n(start, n, TRUE) /\ a >= start
                         /\ a .. a + n - 1 \subseteq Holding(TRUE)
    BY <1>2, <1>5, <2>1, UsedAnswersAreRuns
  <2>3. a + n - 1 \in Elements
    <3>1. a + n - 1 \in a .. a + n - 1
      BY <1>2
    <3> QED  BY <2>2, <3>1 DEF Holding
  <2>4. a + n <= len
    BY <1>1, <1>2, <2>3 DEF Elements
  <2> QED  BY <2>1, <2>2, <2>4 DEF RunFrom
<1> QED  BY <1>3, <1>4, <1>5

\* All elements have masks, also in the next state.
LEMMA MasksAreThere == len \in Nat => \A x \in Elements : MASK_LEN_TO_IDX(x) \in 0 .. n_masks - 1
  BY ElementsHaveMasks

\* A new array holds nothing.
LEMMA InitEmpty ==
    ASSUME NEW n \in 1 .. MaxLen, rte_fbarray_init(n)
    PROVE  FbInv'
<1>1. n \in Nat \ {0} /\ len' = n /\ count' = 0 /\ len' \in 0 .. MaxLen
  BY FbarrayAssumption DEF rte_fbarray_init
<1>2. n_masks' = MASK_LEN_TO_IDX(n + MASK_ALIGN - 1)
  BY <1>1 DEF n_masks
<1>3. data' = [i \in 0 .. n_masks' - 1 |-> {}]
  BY <1>2 DEF rte_fbarray_init
<1>4. FbShape'
  BY <1>1, <1>3 DEF FbShape
<1>5. (len \in Nat => \A x \in Elements : MASK_LEN_TO_IDX(x) \in 0 .. n_masks - 1)'
  BY MasksAreThere, PTL
<1>6. Holding(TRUE)' = {}
  BY <1>1, <1>3, <1>5 DEF Holding, IsUsed
<1>7. FbCounted'
  BY <1>1, <1>6, FS_EmptySet DEF FbCounted
<1> QED  BY <1>1, <1>4, <1>7 DEF FbInv

\* Marking an element changes nothing but the element and the count.
LEMMA MarkKeeps ==
    ASSUME FbInv, NEW idx \in Nat, NEW used \in BOOLEAN, set_used(idx, used)
    PROVE  FbInv'
<1> DEFINE i == MASK_LEN_TO_IDX(idx)
           b == MASK_LEN_TO_MOD(idx)
<1>1. MaxLen \in Nat /\ len \in Nat /\ len > 0 /\ idx \in Elements /\ FbShape /\ FbCounted
      /\ len' = len /\ used # IsUsed(idx)
  BY FbarrayAssumption DEF FbInv, set_used, Elements
<1>2. n_masks' = n_masks /\ Elements' = Elements
  BY <1>1 DEF n_masks, Elements
<1>3. i \in 0 .. n_masks - 1 /\ b \in MaskBits /\ MASK_GET_IDX(i, b) = idx /\ i \in Nat
  BY <1>1, MaskSplit, ElementsHaveMasks
<1>4. data' = [data EXCEPT ![i] = IF used THEN data[i] \cup {b} ELSE data[i] \ {b}]
  BY DEF set_used
<1>5. data \in [0 .. n_masks - 1 -> SUBSET MaskBits]
  BY <1>1 DEF FbShape
<1> HIDE DEF i, b
<1>6. data' \in [0 .. n_masks - 1 -> SUBSET MaskBits]
  BY <1>3, <1>4, <1>5
<1>7. \A j \in 0 .. n_masks - 1 : \A c \in MaskBits :
         c \in data'[j] <=> IF j = i /\ c = b THEN used ELSE c \in data[j]
  BY <1>3, <1>4, <1>5
<1>8. FbShape'
  <2>1. ASSUME NEW j \in 0 .. n_masks - 1, NEW c \in data'[j] PROVE MASK_GET_IDX(j, c) < len
    <3>1. c \in MaskBits
      BY <1>6
    <3>2. CASE j = i /\ c = b
      BY <1>1, <1>3, <3>2 DEF Elements
    <3>3. CASE ~(j = i /\ c = b)
      BY <1>1, <1>7, <3>1, <3>3 DEF FbShape
    <3> QED  BY <3>2, <3>3
  <2> QED  BY <1>1, <1>2, <1>6, <2>1 DEF FbShape
<1>9. \A x \in Elements : x \in Holding(TRUE)' <=> IF x = idx THEN used ELSE x \in Holding(TRUE)
  <2> SUFFICES ASSUME NEW x \in Elements
               PROVE  x \in Holding(TRUE)' <=> IF x = idx THEN used ELSE x \in Holding(TRUE)
    OBVIOUS
  <2>1. PICK j \in 0 .. n_masks - 1, c \in MaskBits :
           MASK_GET_IDX(j, c) = x /\ j = MASK_LEN_TO_IDX(x) /\ c = MASK_LEN_TO_MOD(x)
    BY <1>1, ElementBits
  <2>2. x \in Holding(TRUE)' <=> c \in data'[j]
    BY <1>2, <2>1 DEF Holding, IsUsed
  <2>3. x \in Holding(TRUE) <=> c \in data[j]
    BY <2>1 DEF Holding, IsUsed
  <2>4. x = idx <=> j = i /\ c = b
    BY <1>3, <2>1 DEF i, b
  <2> QED  BY <1>7, <2>1, <2>2, <2>3, <2>4
<1>10. IsFiniteSet(Holding(TRUE)) /\ count \in Nat /\ count = Cardinality(Holding(TRUE))
  BY <1>1, WhatCountTells DEF FbCounted
<1>11. Holding(TRUE) \subseteq Elements /\ Holding(TRUE)' \subseteq Elements
  BY <1>2 DEF Holding
<1>12. CASE used
  <2>1. idx \notin Holding(TRUE) /\ count' = count + 1
    BY <1>1, <1>12 DEF Holding, set_used, IsUsed
  <2>2. Holding(TRUE)' = Holding(TRUE) \cup {idx}
    BY <1>1, <1>9, <1>11, <1>12
  <2>3. FbCounted'
    BY <1>10, <2>1, <2>2, FS_AddElement DEF FbCounted
  <2> QED  BY <1>1, <1>8, <2>3 DEF FbInv
<1>13. CASE ~used
  <2>1. idx \in Holding(TRUE) /\ count' = count - 1
    BY <1>1, <1>13 DEF Holding, set_used, IsUsed
  <2>2. Holding(TRUE)' = Holding(TRUE) \ {idx}
    BY <1>1, <1>9, <1>11, <1>13
  <2>3. FbCounted'
    BY <1>10, <2>1, <2>2, FS_RemoveElement DEF FbCounted
  <2> QED  BY <1>1, <1>8, <2>3 DEF FbInv
<1> QED  BY <1>12, <1>13

\* In every reachable state the masks have no bit beyond the array and the counter is exact.
THEOREM FbInvariance == FbSpec => []FbInv
<1>1. FbInit => FbInv
  BY FbarrayAssumption DEF FbInit, FbInv
<1>2. FbInv /\ [FbNext]_fbVars => FbInv'
  <2> SUFFICES ASSUME FbInv, [FbNext]_fbVars PROVE FbInv'
    OBVIOUS
  <2>1. CASE UNCHANGED fbVars
    BY <2>1 DEF fbVars, FbInv, FbShape, FbCounted, n_masks, Holding, Elements, IsUsed
  <2>2. ASSUME NEW n \in 1 .. MaxLen, rte_fbarray_init(n) PROVE FbInv'
    BY <2>2, InitEmpty
  <2>3. ASSUME NEW idx \in 0 .. MaxLen - 1, rte_fbarray_set_used(idx) \/ rte_fbarray_set_free(idx)
        PROVE  FbInv'
    <3>1. PICK used \in BOOLEAN : set_used(idx, used)
      BY <2>3 DEF rte_fbarray_set_used, rte_fbarray_set_free
    <3>2. idx \in Nat
      OBVIOUS
    <3> QED  BY <3>1, <3>2, MarkKeeps
  <2> QED  BY <2>1, <2>2, <2>3 DEF FbNext
<1> QED  BY <1>1, <1>2, PTL DEF FbSpec

\* What each search can be trusted to answer, it answers: for masks of any width and an
\* array of any length, whatever is in use.
THEOREM SearchesAreRightSafety == FbSpec => []SearchesAreRight
<1>1. FbInv => SearchesAreRight
  BY SingleSearches, SearchesForRuns DEF SearchesAreRight
<1> QED  BY <1>1, FbInvariance, PTL
=============================================================================
