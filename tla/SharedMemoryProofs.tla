------------------------- MODULE SharedMemoryProofs -------------------------
(***************************************************************************)
(* What threads share: the locks of the servers (sh_rwlock) and of dpdk    *)
(* exclude, the counters change in one step, and the ring is a queue,      *)
(* whatever the interleaving and however its indexes wrap.                 *)
(***************************************************************************)
EXTENDS AtomicRwLock, Ring, RteLocks, RteAtomic, FiniteSetTheorems, TLAPS

(***************************************************************************)
(* AtomicRwLock: any finite set of threads.                                *)
(***************************************************************************)
\* What every step preserves: the exclusion needs the exact count, and the count
\* needs to know what an exchange may have expected.
IInv == TypeOK /\ Exclusion /\ WordCounts /\ ExpectedSane

\* The set of readers is finite, so its cardinality is a number that one more
\* or one less reader changes by one.
LEMMA ReadersFinite ==
    ASSUME TypeOK
    PROVE  /\ IsFiniteSet(Readers)
           /\ Cardinality(Readers) \in Nat
           /\ Cardinality(Readers) = 0 <=> Readers = {}
           /\ \A t \in Threads \ Readers :
                 Cardinality(Readers \cup {t}) = Cardinality(Readers) + 1
           /\ \A t \in Readers :
                 Cardinality(Readers \ {t}) = Cardinality(Readers) - 1
  <1>1. IsFiniteSet(Readers)
    BY ThreadsAssumption, FS_Subset DEF Readers
  <1>2. Cardinality(Readers) \in Nat
    BY <1>1, FS_CardinalityType
  <1>3. Cardinality(Readers) = 0 <=> Readers = {}
    BY <1>1, FS_EmptySet
  <1>4. \A t \in Threads \ Readers :
            Cardinality(Readers \cup {t}) = Cardinality(Readers) + 1
    BY <1>1, FS_AddElement
  <1>5. \A t \in Readers : Cardinality(Readers \ {t}) = Cardinality(Readers) - 1
    BY <1>1, FS_RemoveElement
  <1>6. QED
    BY <1>1, <1>2, <1>3, <1>4, <1>5

\* Steps that neither acquire nor release keep the holders and the word.
LEMMA HoldersKept ==
    ASSUME IInv, word' = word, TypeOK', ExpectedSane',
           Readers' = Readers, Writers' = Writers
    PROVE  IInv'
  BY DEF IInv, Exclusion, WordCounts

\* Each step of sh_rwlock keeps the types; that the word is a number needs the exact count.
LEMMA TypeStep ==
    ASSUME IInv, [Next]_vars
    PROVE  TypeOK'
  <1>1. CASE UNCHANGED vars
    BY <1>1 DEF IInv, TypeOK, vars
  <1>2. ASSUME NEW t \in Threads, StartRead(t) \/ StartWrite(t) \/ Lock(t) \/ UnlockWrite(t)
        PROVE  TypeOK'
    BY <1>2 DEF IInv, TypeOK, ExpectedSane, StartRead, StartWrite, Lock, LoadRead, CasReadOk,
         CasReadFail, CasWriteOk, CasWriteFail, ResetWrite, UnlockWrite, Goto, Free, Written
  <1>3. ASSUME NEW t \in Threads, UnlockRead(t)
        PROVE  TypeOK'
    <2>1. t \in Readers
      BY <1>3 DEF UnlockRead, Goto, Readers
    <2>2. word = Cardinality(Readers) /\ word \in Nat \ {0}
      BY <2>1, ReadersFinite DEF IInv, Exclusion, WordCounts
    <2>3. QED
      BY <1>3, <2>2 DEF IInv, TypeOK, UnlockRead, Goto
  <1>4. QED
    BY <1>1, <1>2, <1>3 DEF Next, Unlock

\* Each step of sh_rwlock keeps the exclusion and the exact count.
LEMMA InvStep ==
    ASSUME IInv, [Next]_vars
    PROVE  IInv'
  <1> USE DEF IInv
  <1>0. TypeOK'
    BY TypeStep
  <1>1. CASE UNCHANGED vars
    BY <1>1, <1>0, HoldersKept DEF vars, ExpectedSane, Readers, Writers
  <1>2. ASSUME NEW t \in Threads, StartRead(t)
        PROVE  IInv'
    BY <1>2, <1>0, HoldersKept DEF StartRead, Goto, ExpectedSane, Readers, Writers, TypeOK
  <1>3. ASSUME NEW t \in Threads, LoadRead(t)
        PROVE  IInv'
    BY <1>3, <1>0, HoldersKept DEF LoadRead, Goto, ExpectedSane, Readers, Writers, TypeOK
  <1>4. ASSUME NEW t \in Threads, CasReadFail(t)
        PROVE  IInv'
    BY <1>4, <1>0, HoldersKept DEF CasReadFail, Goto, ExpectedSane, Readers, Writers, TypeOK
  <1>5. ASSUME NEW t \in Threads, StartWrite(t)
        PROVE  IInv'
    BY <1>5, <1>0, HoldersKept DEF StartWrite, Goto, ExpectedSane, Readers, Writers, TypeOK, Free
  <1>6. ASSUME NEW t \in Threads, CasWriteFail(t)
        PROVE  IInv'
    BY <1>6, <1>0, HoldersKept DEF CasWriteFail, Goto, ExpectedSane, Readers, Writers, TypeOK
  <1>7. ASSUME NEW t \in Threads, ResetWrite(t)
        PROVE  IInv'
    BY <1>7, <1>0, HoldersKept DEF ResetWrite, Goto, ExpectedSane, Readers, Writers, TypeOK, Free
  <1>8. ASSUME NEW t \in Threads, CasReadOk(t)
        PROVE  IInv'
    <2>1. t \notin Readers /\ Readers' = Readers \cup {t} /\ Writers' = Writers
      BY <1>8 DEF CasReadOk, Goto, Readers, Writers, TypeOK
    <2>2. Writers = {} /\ word' = Cardinality(Readers) + 1
      BY <1>8 DEF CasReadOk, Goto, ExpectedSane, WordCounts, Written, TypeOK
    <2>3. WordCounts'
      BY <2>1, <2>2, ReadersFinite DEF WordCounts
    <2>4. Exclusion'
      BY <2>1, <2>2 DEF Exclusion
    <2>5. ExpectedSane'
      BY <1>8 DEF CasReadOk, Goto, ExpectedSane, TypeOK
    <2>6. QED
      BY <1>0, <2>3, <2>4, <2>5
  <1>9. ASSUME NEW t \in Threads, UnlockRead(t)
        PROVE  IInv'
    <2>1. t \in Readers /\ Readers' = Readers \ {t} /\ Writers' = Writers
      BY <1>9 DEF UnlockRead, Goto, Readers, Writers, TypeOK
    <2>2. Writers = {} /\ word' = Cardinality(Readers) - 1
      BY <1>9, <2>1 DEF UnlockRead, Exclusion, WordCounts
    <2>3. WordCounts'
      BY <2>1, <2>2, ReadersFinite DEF WordCounts
    <2>4. Exclusion'
      BY <2>1, <2>2 DEF Exclusion
    <2>5. ExpectedSane'
      BY <1>9 DEF UnlockRead, Goto, ExpectedSane, TypeOK
    <2>6. QED
      BY <1>0, <2>3, <2>4, <2>5
  <1>10. ASSUME NEW t \in Threads, CasWriteOk(t)
         PROVE  IInv'
    <2>1. Readers' = Readers /\ Writers' = Writers \cup {t}
      BY <1>10 DEF CasWriteOk, Goto, Readers, Writers, TypeOK
    <2>2. Writers = {} /\ Readers = {}
      BY <1>10, ReadersFinite
         DEF CasWriteOk, Goto, ExpectedSane, WordCounts, Written, Free
    <2>3. WordCounts'
      BY <1>10, <2>1, <2>2 DEF WordCounts, CasWriteOk
    <2>4. Exclusion'
      BY <2>1, <2>2 DEF Exclusion
    <2>5. ExpectedSane'
      BY <1>10 DEF CasWriteOk, Goto, ExpectedSane, TypeOK
    <2>6. QED
      BY <1>0, <2>3, <2>4, <2>5
  <1>11. ASSUME NEW t \in Threads, UnlockWrite(t)
         PROVE  IInv'
    <2>1. t \in Writers /\ Readers' = Readers /\ Writers' = Writers \ {t}
      BY <1>11 DEF UnlockWrite, Goto, Readers, Writers, TypeOK
    <2>2. Readers = {} /\ Writers' = {}
      BY <2>1 DEF Exclusion
    <2>3. WordCounts'
      BY <1>11, <2>1, <2>2, FS_EmptySet DEF WordCounts, UnlockWrite, Free
    <2>4. Exclusion'
      BY <2>2 DEF Exclusion
    <2>5. ExpectedSane'
      BY <1>11 DEF UnlockWrite, Goto, ExpectedSane, TypeOK
    <2>6. QED
      BY <1>0, <2>3, <2>4, <2>5
  <1>12. QED
    BY <1>1, <1>2, <1>3, <1>4, <1>5, <1>6, <1>7, <1>8, <1>9, <1>10, <1>11
       DEF Next, Lock, Unlock

\* Nobody has the lock yet.
LEMMA InvInit == ASSUME Init PROVE IInv
  <1>1. TypeOK /\ ExpectedSane /\ Exclusion
    BY DEF Init, TypeOK, ExpectedSane, Exclusion, Free, Written, Writers
  <1>2. Readers = {} /\ Writers = {}
    BY DEF Init, Readers, Writers
  <1>3. WordCounts
    BY <1>2, FS_EmptySet DEF Init, WordCounts, Free
  <1>4. QED
    BY <1>1, <1>3 DEF IInv

\* The strengthened invariant of every execution of lock_read, lock_write and
\* their unlocks.
THEOREM Invariance == Spec => []IInv
  BY InvInit, InvStep, PTL DEF Spec

\* The lock word, the locals and the program counters keep their types.
THEOREM Typing == Spec => []TypeOK
  <1>1. IInv => TypeOK
    BY DEF IInv
  <1>2. QED
    BY <1>1, Invariance, PTL

\* A thread inside lock_write's critical section is alone, whatever the
\* interleaving of the loads and compare-exchanges.
THEOREM MutualExclusion == Spec => []Exclusion
  <1>1. IInv => Exclusion
    BY DEF IInv
  <1>2. QED
    BY <1>1, Invariance, PTL

\* The word is the exact number of readers, or -1 under a writer.
THEOREM WordIsExact == Spec => []WordCounts
  <1>1. IInv => WordCounts
    BY DEF IInv
  <1>2. QED
    BY <1>1, Invariance, PTL
-----------------------------------------------------------------------------
\* Each step of the lock's code is a step of the abstract lock, or a stutter.
LEMMA RefinementStep ==
    ASSUME IInv, [Next]_vars
    PROVE  [RW!Next]_(RW!vars)
  <1> USE DEF IInv
  <1> DEFINE Kept == Readers' = Readers /\ Writers' = Writers
  <1>1. Kept => UNCHANGED RW!vars
    BY DEF RW!vars
  <1>2. CASE UNCHANGED vars
    BY <1>1, <1>2 DEF vars, Readers, Writers
  <1>3. ASSUME NEW t \in Threads, StartRead(t) \/ StartWrite(t) \/ LoadRead(t) \/ CasReadFail(t)
                                  \/ CasWriteFail(t) \/ ResetWrite(t)
        PROVE  Kept
    BY <1>3 DEF StartRead, StartWrite, LoadRead, CasReadFail, CasWriteFail, ResetWrite,
                Goto, Readers, Writers, TypeOK
  <1>4. ASSUME NEW t \in Threads, CasReadOk(t)
        PROVE  RW!AcquireRead(t)
    BY <1>4 DEF CasReadOk, Goto, Readers, Writers, TypeOK, WordCounts, Written,
                ExpectedSane, RW!AcquireRead
  <1>5. ASSUME NEW t \in Threads, UnlockRead(t)
        PROVE  RW!ReleaseRead(t)
    BY <1>5 DEF UnlockRead, Goto, Readers, Writers, TypeOK, RW!ReleaseRead
  <1>6. ASSUME NEW t \in Threads, CasWriteOk(t)
        PROVE  RW!AcquireWrite(t)
    <2>1. Writers = {} /\ Readers = {}
      BY <1>6, ReadersFinite DEF CasWriteOk, Goto, ExpectedSane, WordCounts, Written, Free
    <2>2. Readers' = Readers /\ Writers' = Writers \cup {t}
      BY <1>6 DEF CasWriteOk, Goto, Readers, Writers, TypeOK
    <2>3. QED
      BY <2>1, <2>2 DEF RW!AcquireWrite
  <1>7. ASSUME NEW t \in Threads, UnlockWrite(t)
        PROVE  RW!ReleaseWrite(t)
    BY <1>7 DEF UnlockWrite, Goto, Readers, Writers, TypeOK, RW!ReleaseWrite
  <1>8. QED
    BY <1>1, <1>2, <1>3, <1>4, <1>5, <1>6, <1>7 DEF Next, Lock, Unlock, RW!Next

\* sh_rwlock implements the readers/writer lock of RwLockSpec.
THEOREM Refinement == Spec => ImplementsRwLock
  <1>1. Init => RW!Init
    BY DEF Init, RW!Init, Readers, Writers
  <1>2. IInv /\ [Next]_vars => [RW!Next]_(RW!vars)
    BY RefinementStep
  <1>3. QED
    BY <1>1, <1>2, Invariance, PTL DEF Spec, ImplementsRwLock, RW!Spec
-----------------------------------------------------------------------------
(***************************************************************************)
(* The counters of rte_atomic.h.                                           *)
(***************************************************************************)
\* The numbers a counter holds.
Word == 0 .. WordSize - 1

\* What the operations are.
OpTypes == [does : {"cmpset", "set", "add", "read"}, exp : Word, arg : Word,
            gives : {"success", "old", "new", "zero", "nothing"}, loop : BOOLEAN]

LoadedHalves == UNION {[D -> 0 .. HalfWord - 1] : D \in SUBSET {"hi", "lo"}}

CoreTypes == [at : {"idle", "do", "load", "cmpset"}, op : OpTypes, tmp : LoadedHalves]

\* The two halves are what one operation after the other leaves in the counter.
AtomicInv ==
    /\ exact \in Word
    /\ cnt = Halves(exact)
    /\ core \in [Cores -> CoreTypes]
    /\ wrong = FALSE

\* There is more than one number.
LEMMA WordSizeIsLarge == WordSize \in Nat /\ WordSize > 1
BY AtomicAssumption DEF WordSize

\* What is wrapped fits in the counter.
LEMMA WrapIsWord == ASSUME NEW x \in Int PROVE Wrap(x) \in Word
BY WordSizeIsLarge DEF Wrap, Word

\* Both halves of a number fit in a half.
LEMMA HalvesTyped ==
    ASSUME NEW v \in Word
    PROVE  Halves(v).hi \in 0 .. HalfWord - 1 /\ Halves(v).lo \in 0 .. HalfWord - 1
<1>1. HalfWord \in Nat /\ HalfWord > 1 /\ v \in Nat /\ v < HalfWord * HalfWord
  BY AtomicAssumption, WordSizeIsLarge DEF Word, WordSize
<1>2. v % HalfWord \in 0 .. HalfWord - 1
  BY <1>1
<1>3. v \div HalfWord \in Nat
  BY <1>1
<1>4. v = HalfWord * (v \div HalfWord) + (v % HalfWord)
  BY <1>1
<1>5. v \div HalfWord < HalfWord
  <2>1. SUFFICES ASSUME v \div HalfWord >= HalfWord PROVE FALSE
    BY <1>1, <1>3
  <2>2. HalfWord * (v \div HalfWord) >= HalfWord * HalfWord
    BY <1>1, <1>3, <2>1
  <2> QED  BY <1>1, <1>2, <1>3, <1>4, <2>2
<1> QED  BY <1>1, <1>2, <1>3, <1>5 DEF Halves

\* Putting the two halves together gives the number back.
LEMMA ValueOfHalves == ASSUME NEW v \in Word PROVE Value(Halves(v)) = v
<1>1. HalfWord \in Nat /\ HalfWord > 1 /\ v \in Nat
  BY AtomicAssumption, WordSizeIsLarge DEF Word
<1>2. v = (v \div HalfWord) * HalfWord + (v % HalfWord)
  BY <1>1
<1> QED  BY <1>2 DEF Value, Halves

\* An operation leaves a number that fits in the counter.
LEMMA AfterIsWord == ASSUME NEW op \in OpTypes, NEW v \in Word PROVE After(op, v) \in Word
<1>1. op.exp \in Word /\ op.arg \in Word /\ op.does \in {"cmpset", "set", "add", "read"}
  BY DEF OpTypes
<1>2. Wrap(v + op.arg) \in Word
  BY <1>1, WrapIsWord, WordSizeIsLarge DEF Word
<1> QED  BY <1>1, <1>2 DEF After

\* The amounts, and what adding their negatives wraps to, fit in the counter.
LEMMA NumbersFit ==
    /\ 0 \in Word /\ 1 \in Word /\ Wrap(-1) \in Word
    /\ \A i \in Amounts : i \in Word /\ Wrap(-i) \in Word
BY AtomicAssumption, WrapIsWord, WordSizeIsLarge DEF Word

\* The families of operations the builds share.
LEMMA FamiliesTyped ==
    /\ Cmpsets \subseteq OpTypes /\ Exchanges \subseteq OpTypes /\ InitSets \subseteq OpTypes
    /\ Read \subseteq OpTypes /\ IncDec \subseteq OpTypes /\ Adds \subseteq OpTypes
    /\ AddReturn \subseteq OpTypes /\ AndTests \subseteq OpTypes /\ TestSet \subseteq OpTypes
    /\ Clear \subseteq OpTypes
<1>1. \A does \in {"cmpset", "set", "add", "read"}, exp, arg \in Word,
         gives \in {"success", "old", "new", "zero", "nothing"} :
             Op(does, exp, arg, gives) \in OpTypes
  BY DEF Op, OpTypes
<1>2. Cmpsets \subseteq OpTypes /\ Exchanges \subseteq OpTypes /\ InitSets \subseteq OpTypes
  BY <1>1, NumbersFit DEF Cmpsets, Exchanges, InitSets
<1>3. Read \subseteq OpTypes /\ IncDec \subseteq OpTypes /\ AndTests \subseteq OpTypes
      /\ TestSet \subseteq OpTypes /\ Clear \subseteq OpTypes
  BY <1>1, NumbersFit DEF Read, IncDec, AndTests, TestSet, Clear
<1>4. Adds \subseteq OpTypes
  BY <1>1, NumbersFit DEF Adds
<1>5. AddReturn \subseteq OpTypes
  BY <1>1, NumbersFit DEF AddReturn
<1> QED  BY <1>2, <1>3, <1>4, <1>5

\* Looped only sets the flag of an operation.
LEMMA LoopedTyped == ASSUME NEW ops, ops \subseteq OpTypes PROVE Looped(ops) \subseteq OpTypes
BY DEF Looped, OpTypes

\* Each build chooses among operations of these families, each as it is or as a loop.
LEMMA OperationsTyped == Operations \subseteq OpTypes
<1> DEFINE Fine(ops) == ops \subseteq OpTypes
<1>1. \A a, b : Fine(a) /\ Fine(b) => Fine(a \cup b)
  OBVIOUS
<1>2. \A a : Fine(a) => /\ Fine(Intrinsic(a)) /\ Fine(Assembler(a)) /\ Fine(PlainAccess64(a))
                        /\ Fine(X86_64(a)) /\ Fine(I686(a)) /\ Fine(Looped(a))
  BY LoopedTyped DEF Intrinsic, Assembler, PlainAccess64, X86_64, I686
<1>3. /\ Fine(Cmpsets) /\ Fine(Exchanges) /\ Fine(InitSets) /\ Fine(Read) /\ Fine(IncDec)
      /\ Fine(Adds) /\ Fine(AddReturn) /\ Fine(AndTests) /\ Fine(TestSet) /\ Fine(Clear)
  BY FamiliesTyped
<1> HIDE DEF Fine
<1>4. /\ Fine(generic16_cmpset_exchange) /\ Fine(generic16_init_read_set)
      /\ Fine(generic16_add_to_sub_return) /\ Fine(generic16_tests_clear)
      /\ Fine(x86_16_operations)
  BY <1>1, <1>2, <1>3 DEF generic16_cmpset_exchange, generic16_init_read_set,
     generic16_add_to_sub_return, generic16_tests_clear, x86_16_operations
<1>5. /\ Fine(generic32_cmpset_exchange) /\ Fine(generic32_init_read_set)
      /\ Fine(generic32_add_to_sub_return) /\ Fine(generic32_tests_clear)
      /\ Fine(x86_32_operations)
  BY <1>1, <1>2, <1>3 DEF generic32_cmpset_exchange, generic32_init_read_set,
     generic32_add_to_sub_return, generic32_tests_clear, x86_32_operations
<1>6. /\ Fine(generic64_cmpset_exchange) /\ Fine(generic64_init_read_set)
      /\ Fine(generic64_add_to_sub_return) /\ Fine(generic64_tests_clear)
  BY <1>1, <1>2, <1>3 DEF generic64_cmpset_exchange, generic64_init_read_set,
     generic64_add_to_sub_return, generic64_tests_clear
<1>7. /\ Fine(x86_64_cmpset_exchange) /\ Fine(x86_64_init_read_set)
      /\ Fine(x86_64_add_to_sub_return) /\ Fine(x86_64_tests_clear)
  BY <1>1, <1>2, <1>3 DEF x86_64_cmpset_exchange, x86_64_init_read_set,
     x86_64_add_to_sub_return, x86_64_tests_clear
<1>8. /\ Fine(i686_cmpset_exchange) /\ Fine(i686_init_read_set)
      /\ Fine(i686_add_to_sub_return) /\ Fine(i686_tests_clear)
  BY <1>1, <1>2, <1>3 DEF i686_cmpset_exchange, i686_init_read_set, i686_add_to_sub_return,
     i686_tests_clear
<1>9. Fine({})
  BY DEF Fine
<1>10. Fine(Operations)
  <2>1. CASE width = 16
    <3>1. Operations = generic16_cmpset_exchange \cup generic16_init_read_set
                       \cup generic16_add_to_sub_return \cup generic16_tests_clear
                       \cup x86_16_operations
      BY <2>1 DEF Operations
    <3> QED  BY <1>1, <1>4, <3>1
  <2>2. CASE width = 32
    <3>1. Operations = generic32_cmpset_exchange \cup generic32_init_read_set
                       \cup generic32_add_to_sub_return \cup generic32_tests_clear
                       \cup x86_32_operations
      BY <2>2 DEF Operations
    <3> QED  BY <1>1, <1>5, <3>1
  <2>3. CASE width = 64
    <3>1. Operations = generic64_cmpset_exchange \cup generic64_init_read_set
                       \cup generic64_add_to_sub_return \cup generic64_tests_clear
                       \cup x86_64_cmpset_exchange \cup x86_64_init_read_set
                       \cup x86_64_add_to_sub_return \cup x86_64_tests_clear
                       \cup i686_cmpset_exchange \cup i686_init_read_set
                       \cup i686_add_to_sub_return \cup i686_tests_clear
      BY <2>3 DEF Operations
    <3> QED  BY <1>1, <1>6, <1>7, <1>8, <3>1
  <2>4. CASE width \notin {16, 32, 64}
    BY <1>9, <2>4 DEF Operations
  <2> QED  BY <2>1, <2>2, <2>3, <2>4
<1> QED  BY <1>10 DEF Fine

\* Before the first load a thread has no half.
LEMMA NothingLoaded == <<>> \in LoadedHalves
<1>1. <<>> = [x \in {} |-> 0]
  OBVIOUS
<1>2. <<>> \in [{} -> 0 .. HalfWord - 1]
  BY <1>1
<1> QED  BY <1>2 DEF LoadedHalves

\* The state of a thread between two operations.
LEMMA IdleTyped == IdleCore \in CoreTypes
<1>1. Op("read", 0, 0, "old") \in OpTypes
  BY NumbersFit DEF Op, OpTypes
<1> QED  BY <1>1, NothingLoaded DEF IdleCore, CoreTypes

\* At the start both halves are zero.
LEMMA AtomicStart == AtomicInit => AtomicInv
<1> SUFFICES ASSUME AtomicInit PROVE AtomicInv
  OBVIOUS
<1>1. exact \in Word /\ cnt = Halves(exact) /\ wrong = FALSE
  BY NumbersFit DEF AtomicInit
<1> QED  BY <1>1, IdleTyped DEF AtomicInit, AtomicInv

\* An operation that has found the value the others left does what it does alone.
LEMMA FinishStep ==
    ASSUME AtomicInv, NEW c \in Cores, NEW v, v = exact, Finish(c, v)
    PROVE  AtomicInv'
<1>1. core[c].op \in OpTypes
  BY DEF AtomicInv, CoreTypes
<1>2. exact' \in Word /\ cnt' = Halves(exact') /\ wrong' = FALSE
  <2>1. exact' = After(core[c].op, exact) /\ cnt' = Halves(After(core[c].op, exact))
    BY DEF Finish
  <2>2. After(core[c].op, exact) \in Word
    BY <1>1, AfterIsWord DEF AtomicInv
  <2>3. wrong' = FALSE
    BY DEF Finish, AtomicInv
  <2> QED  BY <2>1, <2>2, <2>3
<1>3. core' \in [Cores -> CoreTypes]
  BY IdleTyped DEF Finish, AtomicInv
<1> QED  BY <1>2, <1>3 DEF AtomicInv

\* Choosing an operation touches nothing shared.
LEMMA BeginStep ==
    ASSUME AtomicInv, NEW c \in Cores, NEW op \in Operations, Begin(c, op)
    PROVE  AtomicInv'
<1>1. op \in OpTypes
  BY OperationsTyped
<1>2. [at |-> IF op.loop THEN "load" ELSE "do", op |-> op, tmp |-> <<>>] \in CoreTypes
  BY <1>1, NothingLoaded DEF CoreTypes
<1>3. core' \in [Cores -> CoreTypes]
  BY <1>2 DEF Begin, AtomicInv
<1> QED  BY <1>3 DEF Begin, AtomicInv

\* A half is a number below HalfWord, whichever is loaded first.
LEMMA LoadHalfStep ==
    ASSUME AtomicInv, NEW c \in Cores, NEW h \in {"hi", "lo"}, LoadHalf(c, h)
    PROVE  AtomicInv'
<1> DEFINE old  == core[c].tmp
           tmp1 == [x \in {h} \cup DOMAIN old |-> IF x = h THEN cnt[h] ELSE old[x]]
<1>1. cnt[h] \in 0 .. HalfWord - 1
  <2>1. Halves(exact).hi \in 0 .. HalfWord - 1 /\ Halves(exact).lo \in 0 .. HalfWord - 1
    BY HalvesTyped DEF AtomicInv
  <2>2. cnt.hi \in 0 .. HalfWord - 1 /\ cnt.lo \in 0 .. HalfWord - 1
    BY <2>1 DEF AtomicInv
  <2> QED  BY <2>2
<1>2. old \in LoadedHalves
  BY DEF AtomicInv, CoreTypes
<1>3. PICK D \in SUBSET {"hi", "lo"} : old \in [D -> 0 .. HalfWord - 1]
  BY <1>2 DEF LoadedHalves
<1>4. tmp1 \in [{h} \cup D -> 0 .. HalfWord - 1]
  BY <1>1, <1>3
<1>5. tmp1 \in LoadedHalves
  BY <1>4 DEF LoadedHalves
<1> HIDE DEF tmp1
<1>6. core' = [core EXCEPT ![c].tmp = tmp1, ![c].at = IF old = <<>> THEN "load" ELSE "cmpset"]
  BY DEF LoadHalf, AtomicInv, tmp1
<1>7. core' \in [Cores -> CoreTypes]
  BY <1>5, <1>6 DEF AtomicInv, CoreTypes
<1> QED  BY <1>7 DEF LoadHalf, AtomicInv

\* One instruction does the whole operation.
LEMMA OneInstructionStep ==
    ASSUME AtomicInv, NEW c \in Cores, OneInstruction(c)
    PROVE  AtomicInv'
<1>1. Value(cnt) = exact
  BY ValueOfHalves DEF AtomicInv
<1> QED  BY <1>1, FinishStep DEF OneInstruction

\* What is compared is both halves, so whatever happened since they were loaded, the value
\* that takes effect is the one the counter has now.
LEMMA CmpsetStep ==
    ASSUME AtomicInv, NEW c \in Cores, Cmpset(c)
    PROVE  AtomicInv'
<1>1. CASE cnt = core[c].tmp
  <2>1. Value(core[c].tmp) = exact
    BY <1>1, ValueOfHalves DEF AtomicInv
  <2> QED  BY <1>1, <2>1, FinishStep DEF Cmpset
<1>2. CASE cnt # core[c].tmp
  <2>1. core' \in [Cores -> CoreTypes]
    BY <1>2, NothingLoaded DEF Cmpset, AtomicInv, CoreTypes
  <2> QED  BY <1>2, <2>1 DEF Cmpset, AtomicInv
<1> QED  BY <1>1, <1>2

\* Every step of every thread keeps the two halves one number.
LEMMA AtomicStep == AtomicInv /\ [AtomicNext]_atomicVars => AtomicInv'
<1> SUFFICES ASSUME AtomicInv, [AtomicNext]_atomicVars PROVE AtomicInv'
  OBVIOUS
<1>1. ASSUME NEW b, NEW lp, NEW w, Declare(b, lp, w) PROVE AtomicInv'
  BY <1>1 DEF Declare, AtomicInv
<1>2. ASSUME NEW c \in Cores, NEW op \in Operations, Begin(c, op) PROVE AtomicInv'
  BY <1>2, BeginStep
<1>3. ASSUME NEW c \in Cores, OneInstruction(c) PROVE AtomicInv'
  BY <1>3, OneInstructionStep
<1>4. ASSUME NEW c \in Cores, Cmpset(c) PROVE AtomicInv'
  BY <1>4, CmpsetStep
<1>5. ASSUME NEW c \in Cores, NEW h \in {"hi", "lo"}, LoadHalf(c, h) PROVE AtomicInv'
  BY <1>5, LoadHalfStep
<1>6. CASE UNCHANGED atomicVars
  BY <1>6 DEF atomicVars, AtomicInv
<1> QED  BY <1>1, <1>2, <1>3, <1>4, <1>5, <1>6 DEF AtomicNext

\* Whatever the threads do to a counter, by one instruction or by a loop of loads and a
\* compare-and-set, the counter stays two halves of the exact value (rte_atomic.h and
\* rte_atomic_32.h, rte_atomic_64.h and rte_generic_atomic.h beside it).
THEOREM AtomicInvariance == AtomicSpec => []AtomicInv
<1> QED  BY AtomicStart, AtomicStep, PTL DEF AtomicSpec

\* OperationsAreAtomic: the loop that retries on i686 is atomic although its load is not,
\* for any number of threads, any width of the halves and any amounts.
THEOREM OperationsAreAtomicSafety == AtomicSpec => []OperationsAreAtomic
<1>1. AtomicInv => OperationsAreAtomic
  BY ValueOfHalves DEF AtomicInv, OperationsAreAtomic
<1> QED  BY <1>1, AtomicInvariance, PTL
-----------------------------------------------------------------------------
(***************************************************************************)
(* The locks of rte_spinlock.h and rte_rwlock.h.                           *)
(***************************************************************************)
\* What a thread is in the middle of.
LockerTypes ==
    [at : {"out", "try", "take", "wait", "spin", "own", "in", "free", "cmpset", "aborted"},
     tm : BOOLEAN, try : BOOLEAN, write : BOOLEAN, how : {"none", "tx", "lock"},
     depth : Nat, retries : Nat, status : {"none", "busy", "retry", "no"}, x : Int]

LocksTypes ==
    /\ lock \in LockKinds \cup {"none"}
    /\ rtm \in BOOLEAN
    /\ lockWord \in Int
    /\ owner \in Lockers \cup {NoOwner}
    /\ nested \in Int
    /\ locker \in [Lockers -> LockerTypes]

\* Who has got in is in a section, or just out of the last and about to free the lock.
DepthFits(me) ==
    /\ me.depth = 0 <=> me.how = "none" \/ me.at = "free"
    /\ me.at \in {"out", "own", "wait", "cmpset"} => me.how = "none"
    /\ me.at \in {"in", "free"} => me.how # "none"

\* Only the recursive lock is asked for by who has it; a reader or writer swaps the value
\* it has loaded, which for a writer is 0.
PlaceFits(me) ==
    /\ me.at \in {"own", "free"} => lock = "recursive"
    /\ me.at \in {"try", "take", "spin"} /\ me.how = "lock" => lock = "recursive"
    /\ lock = "none" => me.at = "out" /\ me.retries = 0
    /\ me.at = "cmpset" => lock = "rw" /\ me.x >= 0 /\ (me.write => me.x = 0)

\* A transaction that has not been aborted sees the lock free.
GuessFits(me, w) ==
    /\ me.how = "tx" => me.tm /\ rtm /\ me.at \in {"in", "try", "aborted"}
    /\ me.how = "tx" /\ me.at # "aborted" => w = 0
    /\ me.at = "aborted" => me.how = "tx"
    /\ me.at = "spin" \/ me.retries > 0 => rtm /\ me.tm

ThreadsFit == \A t \in Lockers : /\ DepthFits(locker[t])
                                 /\ PlaceFits(locker[t])
                                 /\ GuessFits(locker[t], lockWord)

\* Who has exchanged the word of a spinlock and found it 0 has it alone.
Holds(t)  == locker[t].how = "lock" \/ locker[t].at = "own"
OneHolder == lock # "rw" =>
    /\ lockWord \in {0, 1} /\ (lock = "none" => lockWord = 0)
    /\ \A t \in Lockers : Holds(t) => lockWord = 1
    /\ \A t, u \in Lockers : Holds(t) /\ Holds(u) => t = u

\* The user of the recursive lock is who is in it, and its count how often.
OwnsIt(t)  == lock = "recursive" /\ locker[t].how = "lock" /\ locker[t].at # "free"
OwnerHolds ==
    /\ \A t \in Lockers : (owner = t <=> OwnsIt(t)) /\ (owner = t => nested = locker[t].depth)
    /\ owner = NoOwner => nested = 0

\* The word of the read-write lock is -1 for its one writer or the number of its readers.
Takers     == {t \in Lockers : locker[t].how = "lock"}
ReadersAreCounted == lock = "rw" =>
    /\ IsFiniteSet(Takers)
    /\ \/ lockWord = -1 /\ \E t \in Lockers : Takers = {t} /\ locker[t].write
       \/ lockWord = Cardinality(Takers) /\ \A t \in Takers : ~locker[t].write

LocksInv == LocksTypes /\ ThreadsFit /\ OneHolder /\ OwnerHolds /\ ReadersAreCounted
-----------------------------------------------------------------------------
\* What holds of a thread by its type.
LEMMA LockerTyped ==
    ASSUME LocksInv, NEW t \in Lockers
    PROVE  /\ locker[t].at \in {"out", "try", "take", "wait", "spin", "own", "in", "free",
                                "cmpset", "aborted"}
           /\ locker[t].tm \in BOOLEAN /\ locker[t].try \in BOOLEAN
           /\ locker[t].write \in BOOLEAN /\ locker[t].how \in {"none", "tx", "lock"}
           /\ locker[t].depth \in Nat /\ locker[t].retries \in Nat
           /\ locker[t].x \in Int
           /\ locker[t].status \in {"none", "busy", "retry", "no"}
           /\ locker[t] \in LockerTypes
BY DEF LocksInv, LocksTypes, LockerTypes

\* The word of a lock that is taken is not 0.
LEMMA HeldIsSeen ==
    ASSUME LocksInv, NEW t \in Lockers, lockWord = 0
    PROVE  ~Holds(t)
<1>1. CASE lock # "rw"
  BY <1>1 DEF LocksInv, OneHolder
<1>2. CASE lock = "rw"
  <2>1. locker[t].at # "own"
    BY <1>2 DEF LocksInv, ThreadsFit, PlaceFits
  <2>2. locker[t].how # "lock"
    <3>1. SUFFICES ASSUME t \in Takers PROVE FALSE
      BY DEF Takers
    <3>2. IsFiniteSet(Takers) /\ Cardinality(Takers) = 0
      BY <1>2 DEF LocksInv, ReadersAreCounted
    <3> QED  BY <3>1, <3>2, FS_EmptySet
  <2> QED  BY <2>1, <2>2 DEF Holds
<1> QED  BY <1>1, <1>2

\* A thread that is out fits whatever w is.
LEMMA OutFits ==
    ASSUME NEW w
    PROVE  /\ OutLocker \in LockerTypes /\ DepthFits(OutLocker) /\ PlaceFits(OutLocker)
           /\ GuessFits(OutLocker, w)
<1>1. PICK zero \in Int : zero = 0
  OBVIOUS
<1>2. [OutLocker EXCEPT !.x = zero] \in LockerTypes
  BY DEF OutLocker, LockerTypes
<1>3. OutLocker = [OutLocker EXCEPT !.x = zero]
  BY <1>1 DEF OutLocker
<1>4. OutLocker \in LockerTypes
  BY <1>2, <1>3
<1> QED  BY <1>4 DEF OutLocker, DepthFits, PlaceFits, GuessFits

\* What taking the lock does to a thread.
LEMMA EnteredTyped ==
    ASSUME NEW m \in LockerTypes
    PROVE  /\ Entered(m) \in LockerTypes
           /\ Entered(m).at = "in" /\ Entered(m).how = "lock" /\ Entered(m).depth = m.depth + 1
           /\ m.depth \in Nat /\ Entered(m).write = m.write /\ Entered(m).retries = 0
<1>1. PICK zero \in Int : zero = 0
  OBVIOUS
<1>2. m.depth + 1 \in Nat /\ m.depth \in Nat
  BY DEF LockerTypes
<1>3. [m EXCEPT !.at = "in", !.how = "lock", !.depth = @ + 1, !.retries = 0, !.status = "none",
                !.x = zero] \in LockerTypes
  BY <1>2 DEF LockerTypes
<1>4. Entered(m) \in LockerTypes
  BY <1>1, <1>3 DEF Entered
<1> QED  BY <1>2, <1>4 DEF Entered, LockerTypes

\* A thread that changes only what it does, not what it has, keeps the invariant.
LEMMA GoesStep ==
    ASSUME LocksInv, NEW t \in Lockers, NEW me \in LockerTypes, Goes(t, me),
           DepthFits(me), PlaceFits(me), GuessFits(me, lockWord),
           me.how = "lock" <=> locker[t].how = "lock",
           me.at \notin {"own", "free"}, locker[t].at \notin {"own", "free"},
           me.how = "lock" => me.depth = locker[t].depth /\ (lock = "rw" => me.write = locker[t].write)
    PROVE  LocksInv'
<1>1. /\ UNCHANGED <<lock, rtm, lockWord, owner, nested>>
      /\ locker' = [locker EXCEPT ![t] = me]
  BY DEF Goes
<1>2. LocksTypes'
  BY <1>1 DEF LocksInv, LocksTypes
<1>3. \A u \in Lockers : locker'[u] = IF u = t THEN me ELSE locker[u]
  BY <1>1 DEF LocksInv, LocksTypes
<1>4. ThreadsFit'
  <2>1. \A u \in Lockers : u # t => /\ DepthFits(locker[u]) /\ PlaceFits(locker[u])
                                    /\ GuessFits(locker[u], lockWord)
    BY DEF LocksInv, ThreadsFit
  <2>2. \A u \in Lockers : /\ DepthFits(locker'[u]) /\ PlaceFits(locker'[u])
                           /\ GuessFits(locker'[u], lockWord)
    BY <1>3, <2>1
  <2> QED  BY <1>1, <2>2 DEF ThreadsFit, DepthFits, PlaceFits, GuessFits
<1>5. \A u \in Lockers : /\ locker'[u].how = "lock" <=> locker[u].how = "lock"
                         /\ locker'[u].at = "own" <=> locker[u].at = "own"
                         /\ locker'[u].at = "free" <=> locker[u].at = "free"
                         /\ locker[u].how = "lock" =>
                                /\ locker'[u].depth = locker[u].depth
                                /\ (lock = "rw" => locker'[u].write = locker[u].write)
  <2>1. SUFFICES ASSUME NEW u \in Lockers
                 PROVE  /\ locker'[u].how = "lock" <=> locker[u].how = "lock"
                        /\ locker'[u].at = "own" <=> locker[u].at = "own"
                        /\ locker'[u].at = "free" <=> locker[u].at = "free"
                        /\ locker[u].how = "lock" =>
                                /\ locker'[u].depth = locker[u].depth
                                /\ (lock = "rw" => locker'[u].write = locker[u].write)
    BY Zenon
  <2>2. CASE u = t
    BY <1>3, <2>2
  <2>3. CASE u # t
    BY <1>3, <2>3
  <2> QED  BY <2>2, <2>3
<1>6. OneHolder'
  BY <1>1, <1>5 DEF LocksInv, OneHolder, Holds
<1>7. OwnerHolds'
  BY <1>1, <1>5 DEF LocksInv, OwnerHolds, OwnsIt
<1>8. ReadersAreCounted'
  <2>1. Takers' = Takers
    BY <1>5 DEF Takers
  <2>2. \A u \in Takers : u \in Lockers /\ (lock = "rw" => locker'[u].write = locker[u].write)
    BY <1>5 DEF Takers
  <2> HIDE DEF Takers
  <2>3. \A u \in Lockers : Takers = {u} /\ lock = "rw" => locker'[u].write = locker[u].write
    BY <2>2
  <2> QED  BY <1>1, <2>1, <2>2, <2>3 DEF LocksInv, ReadersAreCounted
<1> QED  BY <1>2, <1>4, <1>6, <1>7, <1>8 DEF LocksInv

\* Writing the word aborts the transactions and changes nothing else of the others.
LEMMA WriteEffect ==
    ASSUME LocksInv, NEW t \in Lockers, NEW me \in LockerTypes, NEW v \in Int, Write(v, t, me),
           DepthFits(me), PlaceFits(me), GuessFits(me, v)
    PROVE  /\ lock' = lock /\ rtm' = rtm /\ lockWord' = v
           /\ locker' \in [Lockers -> LockerTypes]
           /\ locker'[t] = me
           /\ \A u \in Lockers \ {t} : /\ locker'[u].how = locker[u].how
                                       /\ locker'[u].depth = locker[u].depth
                                       /\ locker'[u].write = locker[u].write
                                       /\ locker[u].how # "tx" => locker'[u].at = locker[u].at
                                       /\ locker[u].how = "tx" => locker'[u].at = "aborted"
           /\ ThreadsFit'
<1>1. lock' = lock /\ rtm' = rtm /\ lockWord' = v
  BY DEF Write
<1>2. \A u \in Lockers : locker'[u] = IF u = t THEN me
                                      ELSE IF locker[u].how = "tx"
                                           THEN [locker[u] EXCEPT !.at = "aborted"]
                                           ELSE locker[u]
  BY DEF Write, InTx
<1>3. \A u \in Lockers : locker'[u] \in LockerTypes
  <2>1. \A u \in Lockers : locker[u] \in LockerTypes
    BY LockerTyped
  <2>2. \A u \in Lockers : [locker[u] EXCEPT !.at = "aborted"] \in LockerTypes
    BY <2>1 DEF LockerTypes
  <2> QED  BY <1>2, <2>1, <2>2
<1>4. locker' \in [Lockers -> LockerTypes]
  <2>1. locker' = [u \in Lockers |-> locker'[u]]
    BY DEF Write
  <2> QED  BY <1>3, <2>1
<1>5. \A u \in Lockers \ {t} : /\ locker'[u].how = locker[u].how
                               /\ locker'[u].depth = locker[u].depth
                               /\ locker'[u].write = locker[u].write
                               /\ locker'[u].tm = locker[u].tm
                               /\ locker'[u].retries = locker[u].retries
                               /\ locker'[u].x = locker[u].x
                               /\ locker[u].how # "tx" => locker'[u].at = locker[u].at
                               /\ locker[u].how = "tx" => locker'[u].at = "aborted"
  <2>1. SUFFICES ASSUME NEW u \in Lockers \ {t}
                 PROVE  /\ locker'[u].how = locker[u].how
                        /\ locker'[u].depth = locker[u].depth
                        /\ locker'[u].write = locker[u].write
                        /\ locker'[u].tm = locker[u].tm
                        /\ locker'[u].retries = locker[u].retries
                        /\ locker'[u].x = locker[u].x
                        /\ locker[u].how # "tx" => locker'[u].at = locker[u].at
                        /\ locker[u].how = "tx" => locker'[u].at = "aborted"
    BY Zenon
  <2>2. CASE locker[u].how = "tx"
    <3>1. locker'[u] = [locker[u] EXCEPT !.at = "aborted"] /\ locker[u] \in LockerTypes
      BY <1>2, <2>2, LockerTyped
    <3> QED  BY <2>2, <3>1 DEF LockerTypes
  <2>3. CASE locker[u].how # "tx"
    <3>1. locker'[u] = locker[u]
      BY <1>2, <2>3
    <3> QED  BY <2>3, <3>1
  <2> QED  BY <2>2, <2>3
<1>6. ThreadsFit'
  <2>1. SUFFICES ASSUME NEW u \in Lockers
                 PROVE  (DepthFits(locker[u]) /\ PlaceFits(locker[u])
                         /\ GuessFits(locker[u], lockWord))'
    BY DEF ThreadsFit
  <2>2. CASE u = t
    BY <1>1, <1>2, <2>2 DEF DepthFits, PlaceFits, GuessFits
  <2>3. CASE u # t
    <3>1. DepthFits(locker[u]) /\ PlaceFits(locker[u]) /\ GuessFits(locker[u], lockWord)
      BY DEF LocksInv, ThreadsFit
    <3>2. CASE locker[u].how = "tx"
      BY <1>1, <1>5, <2>3, <3>1, <3>2 DEF DepthFits, PlaceFits, GuessFits
    <3>3. CASE locker[u].how # "tx"
      BY <1>1, <1>5, <2>3, <3>1, <3>3 DEF DepthFits, PlaceFits, GuessFits
    <3> QED  BY <3>2, <3>3
  <2> QED  BY <2>2, <2>3
<1> QED  BY <1>1, <1>2, <1>4, <1>5, <1>6

\* Only who is out, or has the recursive lock, asks.
LEMMA AskStep ==
    ASSUME LocksInv, NEW t \in Lockers, NEW tm \in BOOLEAN, NEW try \in BOOLEAN,
           NEW write \in BOOLEAN, Ask(t, tm, try, write)
    PROVE  LocksInv'
<1> DEFINE m  == locker[t]
           me == [m EXCEPT !.at = IF tm THEN "try" ELSE "take", !.tm = tm, !.try = try, !.write = write,
                        !.retries = IF ~(tm /\ rtm) THEN 0 ELSE IF InTx(t) THEN @ ELSE MaxRetries]
<1>1. m \in LockerTypes /\ DepthFits(m) /\ PlaceFits(m) /\ GuessFits(m, lockWord)
  BY LockerTyped DEF LocksInv, ThreadsFit
<1>2. me \in LockerTypes
  BY <1>1, LockAssumption DEF LockerTypes, InTx
<1>3. Goes(t, me)
  BY DEF Ask, InTx
<1>4. /\ DepthFits(me) /\ PlaceFits(me) /\ GuessFits(me, lockWord)
      /\ me.how = m.how /\ me.at \notin {"own", "free"} /\ m.at \notin {"own", "free"}
      /\ me.how = "lock" => me.depth = m.depth /\ (lock = "rw" => me.write = m.write)
  <2>1. /\ me.at = IF tm THEN "try" ELSE "take"
        /\ me.tm = tm /\ me.how = m.how /\ me.depth = m.depth /\ me.x = m.x
        /\ me.retries = IF ~(tm /\ rtm) THEN 0 ELSE IF m.how = "tx" THEN m.retries ELSE MaxRetries
        /\ m.at = "out" \/ (lock = "recursive" /\ m.at = "in" /\ m.tm = tm)
        /\ lock # "none"
    BY <1>1 DEF Ask, InTx, LockerTypes
  <2>2. tm \in BOOLEAN /\ m.tm \in BOOLEAN /\ rtm \in BOOLEAN /\ m.how \in {"none", "tx", "lock"}
    BY <1>1 DEF LockerTypes, LocksInv, LocksTypes
  <2> HIDE DEF m, me
  <2>3. DepthFits(me) /\ PlaceFits(me)
    BY <1>1, <2>1 DEF DepthFits, PlaceFits
  <2>4. GuessFits(me, lockWord)
    BY <1>1, <2>1, <2>2 DEF DepthFits, GuessFits
  <2> QED  BY <1>1, <2>1, <2>3, <2>4 DEF PlaceFits, DepthFits
<1> HIDE DEF me
<1> QED  BY <1>2, <1>3, <1>4, GoesStep

\* The word is 0 again.
LEMMA SpinEndsStep ==
    ASSUME LocksInv, NEW t \in Lockers, SpinEnds(t)
    PROVE  LocksInv'
<1> DEFINE m  == locker[t]
           me == [m EXCEPT !.at = IF m.status = "no" THEN "take" ELSE "try", !.status = "none"]
<1>1. m \in LockerTypes /\ DepthFits(m) /\ PlaceFits(m) /\ GuessFits(m, lockWord)
  BY LockerTyped DEF LocksInv, ThreadsFit
<1>2. me \in LockerTypes
  BY <1>1 DEF LockerTypes
<1>3. Goes(t, me)
  BY DEF SpinEnds
<1>4. /\ DepthFits(me) /\ PlaceFits(me) /\ GuessFits(me, lockWord)
      /\ me.how = m.how /\ me.at \notin {"own", "free"} /\ m.at \notin {"own", "free"}
      /\ me.how = "lock" => me.depth = m.depth /\ (lock = "rw" => me.write = m.write)
  BY <1>1, LockAssumption DEF SpinEnds, DepthFits, PlaceFits, GuessFits, LockerTypes, LocksInv,
     LocksTypes
<1> HIDE DEF me
<1> QED  BY <1>2, <1>3, <1>4, GoesStep

\* No retries are left.
LEMMA GiveUpTmStep ==
    ASSUME LocksInv, NEW t \in Lockers, GiveUpTm(t)
    PROVE  LocksInv'
<1> DEFINE m  == locker[t]
           me == [m EXCEPT !.at = "take"]
<1>1. m \in LockerTypes /\ DepthFits(m) /\ PlaceFits(m) /\ GuessFits(m, lockWord)
  BY LockerTyped DEF LocksInv, ThreadsFit
<1>2. me \in LockerTypes
  BY <1>1 DEF LockerTypes
<1>3. Goes(t, me)
  BY DEF GiveUpTm, Begins, InTx
<1>4. /\ DepthFits(me) /\ PlaceFits(me) /\ GuessFits(me, lockWord)
      /\ me.how = m.how /\ me.at \notin {"own", "free"} /\ m.at \notin {"own", "free"}
      /\ me.how = "lock" => me.depth = m.depth /\ (lock = "rw" => me.write = m.write)
  BY <1>1, LockAssumption DEF GiveUpTm, Begins, InTx, DepthFits, PlaceFits, GuessFits,
     LockerTypes, LocksInv, LocksTypes
<1> HIDE DEF me
<1> QED  BY <1>2, <1>3, <1>4, GoesStep

\* The word is 0 again, or was.
LEMMA WaitUnlockedStep ==
    ASSUME LocksInv, NEW t \in Lockers, WaitUnlocked(t)
    PROVE  LocksInv'
<1> DEFINE m  == locker[t]
           me == [m EXCEPT !.at = "take"]
<1>1. m \in LockerTypes /\ DepthFits(m) /\ PlaceFits(m) /\ GuessFits(m, lockWord)
  BY LockerTyped DEF LocksInv, ThreadsFit
<1>2. me \in LockerTypes
  BY <1>1 DEF LockerTypes
<1>3. Goes(t, me)
  BY DEF WaitUnlocked
<1>4. /\ DepthFits(me) /\ PlaceFits(me) /\ GuessFits(me, lockWord)
      /\ me.how = m.how /\ me.at \notin {"own", "free"} /\ m.at \notin {"own", "free"}
      /\ me.how = "lock" => me.depth = m.depth /\ (lock = "rw" => me.write = m.write)
  BY <1>1, LockAssumption DEF WaitUnlocked, DepthFits, PlaceFits, GuessFits, LockerTypes,
     LocksInv, LocksTypes
<1> HIDE DEF me
<1> QED  BY <1>2, <1>3, <1>4, GoesStep

\* The value a reader or a writer will replace.
LEMMA LoadCntStep ==
    ASSUME LocksInv, NEW t \in Lockers, LoadCnt(t)
    PROVE  LocksInv'
<1> DEFINE m  == locker[t]
           me == [m EXCEPT !.at = "cmpset", !.x = lockWord]
<1>1. m \in LockerTypes /\ DepthFits(m) /\ PlaceFits(m) /\ GuessFits(m, lockWord)
  BY LockerTyped DEF LocksInv, ThreadsFit
<1>2. me \in LockerTypes
  <2>1. lockWord \in Int
    BY DEF LocksInv, LocksTypes
  <2> HIDE DEF m
  <2> QED  BY <1>1, <2>1 DEF LockerTypes
<1>3. Goes(t, me)
  BY DEF LoadCnt
<1>4. /\ DepthFits(me) /\ PlaceFits(me) /\ GuessFits(me, lockWord)
      /\ me.how = m.how /\ me.at \notin {"own", "free"} /\ m.at \notin {"own", "free"}
      /\ me.how = "lock" => me.depth = m.depth /\ (lock = "rw" => me.write = m.write)
  BY <1>1, LockAssumption DEF LoadCnt, DepthFits, PlaceFits, GuessFits, LockerTypes, LocksInv,
     LocksTypes
<1> HIDE DEF me
<1> QED  BY <1>2, <1>3, <1>4, GoesStep

\* Somebody else was first.
LEMMA CmpsetFailsStep ==
    ASSUME LocksInv, NEW t \in Lockers, CmpsetFails(t)
    PROVE  LocksInv'
<1> DEFINE m  == locker[t]
           me == [m EXCEPT !.at = "take", !.x = 0]
<1>1. m \in LockerTypes /\ DepthFits(m) /\ PlaceFits(m) /\ GuessFits(m, lockWord)
  BY LockerTyped DEF LocksInv, ThreadsFit
<1>2. me \in LockerTypes
  <2>1. PICK zero \in Int : zero = 0
    OBVIOUS
  <2>2. [m EXCEPT !.at = "take", !.x = zero] \in LockerTypes
    BY <1>1 DEF LockerTypes
  <2> QED  BY <2>1, <2>2
<1>3. Goes(t, me)
  BY DEF CmpsetFails
<1>4. /\ DepthFits(me) /\ PlaceFits(me) /\ GuessFits(me, lockWord)
      /\ me.how = m.how /\ me.at \notin {"own", "free"} /\ m.at \notin {"own", "free"}
      /\ me.how = "lock" => me.depth = m.depth /\ (lock = "rw" => me.write = m.write)
  BY <1>1, LockAssumption DEF CmpsetFails, DepthFits, PlaceFits, GuessFits, LockerTypes,
     LocksInv, LocksTypes
<1> HIDE DEF me
<1> QED  BY <1>2, <1>3, <1>4, GoesStep

\* The retries left after one more try.
LEMMA RetriesTyped ==
    ASSUME LocksInv, NEW t \in Lockers, Begins(t)
    PROVE  /\ RetriesLeft(t) \in Nat
           /\ rtm /\ locker[t].tm
           /\ InTx(t) <=> locker[t].how = "tx"
           /\ locker[t].how = "tx" => lockWord = 0
<1>1. /\ locker[t].retries \in Nat
      /\ locker[t].at = "try" /\ (locker[t].retries > 0 \/ locker[t].how = "tx")
      /\ GuessFits(locker[t], lockWord)
  BY LockerTyped DEF LocksInv, ThreadsFit, Begins, InTx
<1>2. RetriesLeft(t) \in Nat
  BY <1>1 DEF RetriesLeft, InTx
<1> QED  BY <1>1, <1>2 DEF GuessFits, InTx

\* A transaction starts with the word 0; one that finds the lock held waits for it.
LEMMA XbeginStep ==
    ASSUME LocksInv, NEW t \in Lockers, Xbegin(t)
    PROVE  LocksInv'
<1> DEFINE m == locker[t]
<1>1. m \in LockerTypes /\ DepthFits(m) /\ PlaceFits(m) /\ GuessFits(m, lockWord)
  BY LockerTyped DEF LocksInv, ThreadsFit
<1>2. /\ Begins(t) /\ m.at = "try"
      /\ RetriesLeft(t) \in Nat /\ rtm /\ m.tm /\ (m.how = "tx" => lockWord = 0)
  BY RetriesTyped DEF Xbegin, Begins
<1>3. CASE lockWord = 0
  <2> DEFINE me == InSection(t)
  <2>1. me \in LockerTypes
    <3>1. m.depth + 1 \in Nat
      BY <1>1 DEF LockerTypes
    <3>2. \A d, r \in Nat : [m EXCEPT !.at = "in", !.how = "tx", !.depth = d, !.retries = r]
                              \in LockerTypes
      BY <1>1 DEF LockerTypes
    <3> QED  BY <1>2, <3>1, <3>2 DEF InSection
  <2>2. /\ me.at = "in" /\ me.how = "tx" /\ me.depth = m.depth + 1 /\ me.tm
        /\ m.depth \in Nat /\ me.retries \in Nat
    BY <1>1, <1>2 DEF InSection, LockerTypes
  <2>3. m.how # "lock"
    BY <1>3, HeldIsSeen DEF Holds
  <2>4. DepthFits(me) /\ PlaceFits(me) /\ GuessFits(me, lockWord)
    <3> HIDE DEF me, m
    <3>1. lock # "none"
      BY <1>1, <1>2 DEF PlaceFits
    <3> QED  BY <1>2, <1>3, <2>2, <3>1 DEF DepthFits, PlaceFits, GuessFits
  <2>5. Goes(t, me)
    BY <1>3 DEF Xbegin
  <2> HIDE DEF me
  <2> QED  BY <1>2, <2>1, <2>2, <2>3, <2>4, <2>5, GoesStep
<1>4. CASE lockWord # 0
  <2> DEFINE me == [m EXCEPT !.at = "spin", !.retries = RetriesLeft(t), !.status = "busy"]
  <2>1. me \in LockerTypes
    BY <1>1, <1>2 DEF LockerTypes
  <2>2. /\ me.at = "spin" /\ me.how = m.how /\ me.depth = m.depth /\ me.tm = m.tm
        /\ me.write = m.write /\ me.x = m.x
    BY <1>1 DEF LockerTypes
  <2>3. Goes(t, me)
    BY <1>4 DEF Xbegin
  <2> HIDE DEF m, me
  <2>4. DepthFits(me) /\ PlaceFits(me) /\ GuessFits(me, lockWord)
    BY <1>1, <1>2, <1>4, <2>2 DEF DepthFits, PlaceFits, GuessFits
  <2> QED  BY <1>2, <2>1, <2>2, <2>3, <2>4, GoesStep DEF m
<1> QED  BY <1>3, <1>4

\* An abort takes the thread back to where the outer transaction began.
LEMMA XabortStep ==
    ASSUME LocksInv, NEW t \in Lockers, NEW status \in {"retry", "no"}, Xabort(t, status)
    PROVE  LocksInv'
<1> DEFINE m == locker[t]
<1>1. m \in LockerTypes /\ DepthFits(m) /\ PlaceFits(m) /\ GuessFits(m, lockWord)
  BY LockerTyped DEF LocksInv, ThreadsFit
<1>2. rtm /\ (Begins(t) \/ m.at = "aborted" \/ (m.at = "in" /\ m.how = "tx"))
      /\ m.at \in {"try", "aborted", "in"}
  BY DEF Xabort, Begins, InTx
<1>3. CASE m.how = "tx"
  <2> DEFINE me == [m EXCEPT !.at = "spin", !.status = status, !.how = "none", !.depth = 0]
  <2>1. me \in LockerTypes
    BY <1>1 DEF LockerTypes
  <2>2. me.at = "spin" /\ me.how = "none" /\ me.depth = 0 /\ me.tm = m.tm
    BY <1>1 DEF LockerTypes
  <2>3. Goes(t, me)
    BY <1>3 DEF Xabort, InTx
  <2> HIDE DEF m, me
  <2>4. DepthFits(me) /\ PlaceFits(me) /\ GuessFits(me, lockWord)
    BY <1>1, <1>2, <1>3, <2>2 DEF DepthFits, PlaceFits, GuessFits
  <2> QED  BY <1>2, <1>3, <2>1, <2>2, <2>3, <2>4, GoesStep DEF m
<1>4. CASE m.how # "tx"
  <2> DEFINE me == [m EXCEPT !.at = "spin", !.status = status, !.retries = RetriesLeft(t)]
  <2>1. Begins(t) /\ m.at = "try" /\ m.tm /\ RetriesLeft(t) \in Nat
    BY <1>1, <1>2, <1>4, RetriesTyped DEF GuessFits, Begins
  <2>2. me \in LockerTypes
    BY <1>1, <2>1 DEF LockerTypes
  <2>3. /\ me.at = "spin" /\ me.how = m.how /\ me.depth = m.depth /\ me.tm = m.tm
        /\ me.write = m.write
    BY <1>1 DEF LockerTypes
  <2>4. Goes(t, me)
    BY <1>4 DEF Xabort, InTx
  <2> HIDE DEF m, me
  <2>5. DepthFits(me) /\ PlaceFits(me) /\ GuessFits(me, lockWord)
    BY <1>1, <1>2, <1>4, <2>1, <2>3 DEF DepthFits, PlaceFits, GuessFits
  <2> QED  BY <1>2, <2>2, <2>1, <2>3, <2>4, <2>5, GoesStep DEF m
<1> QED  BY <1>3, <1>4

\* Who ends a section with the word 0 is in a transaction.
LEMMA XendStep ==
    ASSUME LocksInv, NEW t \in Lockers, Xend(t)
    PROVE  LocksInv'
<1> DEFINE m == locker[t]
<1>1. m \in LockerTypes /\ DepthFits(m) /\ PlaceFits(m) /\ GuessFits(m, lockWord)
  BY LockerTyped DEF LocksInv, ThreadsFit
<1>2. m.at = "in" /\ m.tm /\ lockWord = 0
  BY DEF Xend
<1>3. m.how = "tx"
  <2>1. m.how # "lock"
    BY <1>2, HeldIsSeen DEF Holds
  <2>2. m.how \in {"none", "tx", "lock"}
    BY <1>1 DEF LockerTypes
  <2> QED  BY <1>1, <1>2, <2>1, <2>2 DEF DepthFits
<1>4. CASE m.depth > 1
  <2> DEFINE me == [m EXCEPT !.depth = @ - 1]
  <2>1. me \in LockerTypes
    BY <1>1, <1>4 DEF LockerTypes
  <2>2. /\ me.at = "in" /\ me.how = "tx" /\ me.tm /\ me.retries = m.retries
        /\ me.depth \in Nat /\ me.depth # 0
    BY <1>1, <1>2, <1>3, <1>4 DEF LockerTypes
  <2>3. Goes(t, me)
    BY <1>4 DEF Xend
  <2> HIDE DEF m, me
  <2>4. DepthFits(me) /\ PlaceFits(me) /\ GuessFits(me, lockWord)
    BY <1>1, <1>2, <1>3, <2>2 DEF DepthFits, PlaceFits, GuessFits
  <2> QED  BY <1>2, <1>3, <2>1, <2>2, <2>3, <2>4, GoesStep DEF m
<1>5. CASE ~(m.depth > 1)
  <2>1. Goes(t, OutLocker)
    BY <1>5 DEF Xend
  <2>2. OutLocker \in LockerTypes /\ DepthFits(OutLocker) /\ PlaceFits(OutLocker)
        /\ GuessFits(OutLocker, lockWord)
    BY OutFits
  <2> QED  BY <1>2, <1>3, <2>1, <2>2, GoesStep DEF OutLocker
<1> QED  BY <1>4, <1>5

\* The lock is made before anybody uses it.
LEMMA MakeLockStep ==
    ASSUME LocksInv, NEW kind \in LockKinds, NEW supported \in BOOLEAN, MakeLock(kind, supported)
    PROVE  LocksInv'
<1>1. /\ lock = "none" /\ lock' = kind /\ rtm' = supported
      /\ UNCHANGED <<lockWord, owner, nested, locker>>
  BY DEF MakeLock
<1>2. /\ \A t \in Lockers : /\ locker[t].at = "out" /\ locker[t].how = "none"
                            /\ locker[t].retries = 0 /\ DepthFits(locker[t])
      /\ lockWord = 0
  BY <1>1 DEF LocksInv, ThreadsFit, PlaceFits, DepthFits, OneHolder
<1>3. LocksTypes'
  BY <1>1 DEF LocksInv, LocksTypes
<1>4. ThreadsFit'
  BY <1>1, <1>2 DEF ThreadsFit, DepthFits, PlaceFits, GuessFits, LockKinds
<1>5. OneHolder' /\ OwnerHolds'
  BY <1>1, <1>2 DEF LocksInv, OneHolder, Holds, OwnerHolds, OwnsIt, LockKinds
<1>6. ReadersAreCounted'
  <2>1. Takers' = {}
    BY <1>1, <1>2 DEF Takers
  <2> QED  BY <1>1, <1>2, <2>1, FS_EmptySet DEF ReadersAreCounted
<1> QED  BY <1>3, <1>4, <1>5, <1>6 DEF LocksInv

\* Who leaves a section outside a transaction, or finds the word taken, has taken it.
LEMMA UnlockerHolds ==
    ASSUME LocksInv, NEW t \in Lockers, NEW kind, Unlocks(t, kind)
    PROVE  locker[t].how = "lock" /\ locker[t].at = "in" /\ lock = kind
<1>1. locker[t].at = "in" /\ lock = kind /\ (locker[t].tm => lockWord # 0)
  BY DEF Unlocks
<1>2. locker[t].how \in {"none", "tx", "lock"} /\ locker[t].how # "none" /\ locker[t].how # "tx"
  BY <1>1, LockerTyped DEF LocksInv, ThreadsFit, DepthFits, GuessFits
<1> QED  BY <1>1, <1>2

\* The user is written after the word, or by the user.
LEMMA OwnStep ==
    ASSUME LocksInv, NEW t \in Lockers, Own(t)
    PROVE  LocksInv'
<1> DEFINE m  == locker[t]
           me == Entered(m)
<1>1. m \in LockerTypes /\ DepthFits(m) /\ PlaceFits(m)
  BY LockerTyped DEF LocksInv, ThreadsFit
<1>2. /\ UNCHANGED <<lock, rtm, lockWord>>
      /\ owner' = t /\ nested' = nested + 1 /\ locker' = [locker EXCEPT ![t] = me]
      /\ m.at = "own" \/ owner = t
  BY DEF Own, Again
<1>3. /\ me \in LockerTypes /\ me.at = "in" /\ me.how = "lock" /\ me.depth = m.depth + 1
      /\ m.depth \in Nat /\ me.retries = 0
  BY <1>1, EnteredTyped
<1>4. lock = "recursive" /\ Holds(t) /\ nested = m.depth
  <2>1. CASE m.at = "own"
    <3>1. \A u \in Lockers : owner # u
      BY <1>1, <2>1 DEF LocksInv, OneHolder, OwnerHolds, OwnsIt, Holds, DepthFits, PlaceFits
    <3>2. nested = 0
      BY <3>1 DEF LocksInv, LocksTypes, OwnerHolds
    <3> QED  BY <1>1, <2>1, <3>2 DEF DepthFits, PlaceFits, Holds
  <2>2. CASE owner = t
    BY <2>2 DEF LocksInv, OwnerHolds, OwnsIt, Holds
  <2> QED  BY <1>2, <2>1, <2>2
<1> HIDE DEF me, m
<1>5. \A u \in Lockers : locker'[u] = IF u = t THEN me ELSE locker[u]
  BY <1>2 DEF LocksInv, LocksTypes
<1>6. LocksTypes'
  BY <1>2, <1>3 DEF LocksInv, LocksTypes
<1>7. ThreadsFit'
  <2>1. DepthFits(me) /\ PlaceFits(me) /\ GuessFits(me, lockWord)
    BY <1>3, <1>4 DEF DepthFits, PlaceFits, GuessFits
  <2>2. \A u \in Lockers : /\ DepthFits(locker'[u]) /\ PlaceFits(locker'[u])
                           /\ GuessFits(locker'[u], lockWord)
    BY <1>5, <2>1 DEF LocksInv, ThreadsFit
  <2> QED  BY <1>2, <2>2 DEF ThreadsFit, DepthFits, PlaceFits, GuessFits
<1>8. OneHolder'
  <2>1. \A u \in Lockers : Holds(u)' => Holds(u)
    BY <1>4, <1>5 DEF Holds
  <2> QED  BY <1>2, <1>4, <2>1 DEF LocksInv, OneHolder
<1>9. OwnerHolds'
  <2>1. \A u \in Lockers : u # t => ~Holds(u) /\ ~OwnsIt(u)'
    BY <1>4, <1>5 DEF LocksInv, OneHolder, Holds, OwnsIt
  <2>2. OwnsIt(t)' /\ nested' = locker'[t].depth
    BY <1>2, <1>3, <1>4, <1>5 DEF OwnsIt
  <2>3. owner' # NoOwner
    BY <1>2, LockAssumption DEF NoOwner
  <2> QED  BY <1>2, <2>1, <2>2, <2>3 DEF OwnerHolds
<1>10. ReadersAreCounted'
  BY <1>2, <1>4 DEF ReadersAreCounted
<1> QED  BY <1>6, <1>7, <1>8, <1>9, <1>10 DEF LocksInv

\* The last unlock clears the user and leaves the word to be cleared.
LEMMA DisownStep ==
    ASSUME LocksInv, NEW t \in Lockers, Disown(t)
    PROVE  LocksInv'
<1> DEFINE m  == locker[t]
           me == [m EXCEPT !.at = IF nested = 1 THEN "free" ELSE @,
                           !.depth = IF nested = 1 THEN 0 ELSE @ - 1]
<1>1. m \in LockerTypes /\ DepthFits(m) /\ PlaceFits(m) /\ GuessFits(m, lockWord)
  BY LockerTyped DEF LocksInv, ThreadsFit
<1>2. /\ UNCHANGED <<lock, rtm, lockWord>>
      /\ owner' = IF nested = 1 THEN NoOwner ELSE owner
      /\ nested' = nested - 1 /\ locker' = [locker EXCEPT ![t] = me]
  <2>1. locker' = [locker EXCEPT ![t].at = IF nested = 1 THEN "free" ELSE locker[t].at,
                              ![t].depth = IF nested = 1 THEN 0 ELSE locker[t].depth - 1]
    BY DEF Disown
  <2> QED  BY <2>1 DEF Disown, LocksInv, LocksTypes
<1>3. m.how = "lock" /\ m.at = "in" /\ lock = "recursive"
  BY UnlockerHolds DEF Disown
<1>4. owner = t /\ nested = m.depth /\ m.depth \in Nat /\ m.depth # 0
  BY <1>1, <1>3 DEF LocksInv, OwnerHolds, OwnsIt, DepthFits, LockerTypes
<1>5. /\ me \in LockerTypes /\ me.how = "lock" /\ me.depth = m.depth - 1
      /\ me.tm = m.tm /\ me.retries = m.retries
      /\ me.at = IF nested = 1 THEN "free" ELSE "in"
  <2>1. PICK d \in Nat : d = IF nested = 1 THEN 0 ELSE m.depth - 1
    BY <1>4
  <2>2. PICK place \in {"free", "in"} : place = IF nested = 1 THEN "free" ELSE "in"
    OBVIOUS
  <2>3. me = [m EXCEPT !.at = place, !.depth = d]
    BY <1>3, <2>1, <2>2
  <2>4. d = m.depth - 1
    BY <1>4, <2>1
  <2> HIDE DEF me, m
  <2> QED  BY <1>1, <1>3, <2>2, <2>3, <2>4 DEF LockerTypes
<1> HIDE DEF me, m
<1>6. \A u \in Lockers : locker'[u] = IF u = t THEN me ELSE locker[u]
  BY <1>2 DEF LocksInv, LocksTypes
<1>7. LocksTypes'
  BY <1>2, <1>5 DEF LocksInv, LocksTypes
<1>8. ThreadsFit'
  <2>1. DepthFits(me) /\ PlaceFits(me) /\ GuessFits(me, lockWord)
    BY <1>1, <1>3, <1>4, <1>5 DEF DepthFits, PlaceFits, GuessFits
  <2>2. \A u \in Lockers : /\ DepthFits(locker'[u]) /\ PlaceFits(locker'[u])
                           /\ GuessFits(locker'[u], lockWord)
    BY <1>6, <2>1 DEF LocksInv, ThreadsFit
  <2> QED  BY <1>2, <2>2 DEF ThreadsFit, DepthFits, PlaceFits, GuessFits
<1>9. OneHolder'
  <2>1. \A u \in Lockers : Holds(u)' => Holds(u)
    BY <1>3, <1>6 DEF Holds, m
  <2> QED  BY <1>2, <1>3, <2>1 DEF LocksInv, OneHolder
<1>10. OwnerHolds'
  <2>1. \A u \in Lockers : u # t => ~OwnsIt(u)' /\ owner' # u
    BY <1>2, <1>3, <1>4, <1>6, LockAssumption DEF LocksInv, OneHolder, Holds, OwnsIt, m, NoOwner
  <2>2. nested' = me.depth
    BY <1>2, <1>4, <1>5
  <2>3. CASE nested = 1
    BY <1>2, <1>5, <1>6, <2>1, <2>2, <2>3, LockAssumption DEF OwnerHolds, OwnsIt, NoOwner
  <2>4. CASE nested # 1
    BY <1>2, <1>3, <1>4, <1>5, <1>6, <2>1, <2>2, <2>4, LockAssumption
    DEF OwnerHolds, OwnsIt, NoOwner
  <2> QED  BY <2>3, <2>4
<1>11. ReadersAreCounted'
  BY <1>2, <1>3 DEF ReadersAreCounted
<1> QED  BY <1>7, <1>8, <1>9, <1>10, <1>11 DEF LocksInv

\* The exchange: who finds the word 0 takes it, and nobody else has it.
LEMMA XchgStep ==
    ASSUME LocksInv, NEW t \in Lockers, Xchg(t)
    PROVE  LocksInv'
<1> DEFINE m  == locker[t]
           me == IF lockWord = 0 THEN IF lock = "spin" THEN Entered(m) ELSE [m EXCEPT !.at = "own"]
                 ELSE IF m.try THEN OutLocker ELSE [m EXCEPT !.at = "wait"]
<1>1. m \in LockerTypes /\ DepthFits(m) /\ PlaceFits(m) /\ GuessFits(m, lockWord)
  BY LockerTyped DEF LocksInv, ThreadsFit
<1>2. m.at = "take" /\ lock # "rw" /\ owner' = owner /\ nested' = nested
      /\ (lock = "recursive" => owner # t)
  BY DEF Xchg, Again
<1>3. m.how = "none" /\ m.depth = 0 /\ lock \in {"spin", "recursive"} /\ lockWord \in {0, 1}
  <2>1. m.how # "lock"
    BY <1>1, <1>2 DEF PlaceFits, LocksInv, OwnerHolds, OwnsIt
  <2>2. m.how # "tx"
    BY <1>1, <1>2 DEF GuessFits
  <2>3. m.how \in {"none", "tx", "lock"}
    BY <1>1 DEF LockerTypes
  <2> QED  BY <1>1, <1>2, <2>1, <2>2, <2>3
      DEF DepthFits, PlaceFits, LocksInv, LocksTypes, LockKinds, OneHolder
<1>4. me \in LockerTypes /\ DepthFits(me) /\ PlaceFits(me) /\ GuessFits(me, 1)
  <2>1. /\ Entered(m) \in LockerTypes /\ Entered(m).at = "in" /\ Entered(m).how = "lock"
        /\ Entered(m).depth = 1 /\ Entered(m).retries = 0
    BY <1>1, <1>3, EnteredTyped
  <2>2. CASE me = Entered(m)
    <3>1. DepthFits(Entered(m)) /\ PlaceFits(Entered(m)) /\ GuessFits(Entered(m), 1)
      <4> HIDE DEF m
      <4> QED  BY <1>3, <2>1 DEF DepthFits, PlaceFits, GuessFits
    <3> HIDE DEF m, me
    <3> QED  BY <2>1, <2>2, <3>1
  <2>3. CASE me = OutLocker
    BY <2>3, OutFits
  <2>4. CASE lock = "recursive" /\ me = [m EXCEPT !.at = "own"]
    <3>1. me \in LockerTypes /\ me.at = "own" /\ me.how = m.how /\ me.depth = m.depth
          /\ me.tm = m.tm /\ me.retries = m.retries
      BY <1>1, <2>4 DEF LockerTypes
    <3> HIDE DEF m, me
    <3> QED  BY <1>1, <1>3, <2>4, <3>1 DEF DepthFits, PlaceFits, GuessFits
  <2>5. CASE me = [m EXCEPT !.at = "wait"]
    <3>1. me \in LockerTypes /\ me.at = "wait" /\ me.how = m.how /\ me.depth = m.depth
          /\ me.tm = m.tm /\ me.retries = m.retries
      BY <1>1, <2>5 DEF LockerTypes
    <3> HIDE DEF m, me
    <3> QED  BY <1>1, <1>3, <3>1 DEF DepthFits, PlaceFits, GuessFits
  <2> QED  BY <1>3, <2>2, <2>3, <2>4, <2>5
<1>5. Write(1, t, me)
  BY DEF Xchg
<1>6. /\ me.how = IF lockWord = 0 /\ lock = "spin" THEN "lock" ELSE "none"
      /\ me.at = "own" => lockWord = 0
  BY <1>1, <1>3, EnteredTyped DEF OutLocker, LockerTypes
<1> HIDE DEF m, me
<1>7. /\ lock' = lock /\ rtm' = rtm /\ lockWord' = 1
      /\ locker' \in [Lockers -> LockerTypes] /\ locker'[t] = me
      /\ \A u \in Lockers \ {t} : /\ locker'[u].how = locker[u].how
                                  /\ locker'[u].depth = locker[u].depth
                                  /\ locker[u].how # "tx" => locker'[u].at = locker[u].at
                                  /\ locker[u].how = "tx" => locker'[u].at = "aborted"
      /\ ThreadsFit'
  BY <1>4, <1>5, WriteEffect
<1>8. LocksTypes'
  BY <1>2, <1>7 DEF LocksInv, LocksTypes
<1>9. \A u \in Lockers \ {t} : Holds(u)' => Holds(u)
  BY <1>7 DEF Holds
<1>10. OneHolder'
  <2>1. Holds(t)' => lockWord = 0
    BY <1>6, <1>7 DEF Holds
  <2>2. lockWord = 0 => \A u \in Lockers : ~Holds(u)
    BY HeldIsSeen
  <2>3. \A u, w \in Lockers : Holds(u)' /\ Holds(w)' => u = w
    <3>1. SUFFICES ASSUME NEW u \in Lockers, NEW w \in Lockers, Holds(u)', Holds(w)' PROVE u = w
      OBVIOUS
    <3>2. CASE u = t \/ w = t
      BY <1>9, <2>1, <2>2, <3>1, <3>2
    <3>3. CASE u # t /\ w # t
      BY <1>2, <1>9, <3>1, <3>3 DEF LocksInv, OneHolder
    <3> QED  BY <3>2, <3>3
  <2> QED  BY <1>3, <1>7, <2>3 DEF OneHolder
<1>11. OwnerHolds'
  <2>1. \A u \in Lockers : /\ OwnsIt(u)' <=> OwnsIt(u)
                           /\ OwnsIt(u) => u # t
    <3>1. ~OwnsIt(t) /\ ~OwnsIt(t)'
      BY <1>3, <1>6, <1>7 DEF OwnsIt, m
    <3>2. \A u \in Lockers \ {t} : OwnsIt(u)' <=> OwnsIt(u)
      BY <1>7 DEF OwnsIt
    <3> QED  BY <3>1, <3>2
  <2> QED  BY <1>2, <1>7, <2>1 DEF LocksInv, OwnerHolds
<1>12. ReadersAreCounted'
  BY <1>2, <1>7 DEF ReadersAreCounted
<1> QED  BY <1>7, <1>8, <1>10, <1>11, <1>12 DEF LocksInv

\* The word of a spinlock becomes 0: by who had taken it, so nobody has it.
LEMMA UnlockStep ==
    ASSUME LocksInv, NEW t \in Lockers, rte_spinlock_unlock(t)
    PROVE  LocksInv'
<1>1. Write(0, t, OutLocker) /\ owner' = owner /\ nested' = nested
  BY DEF rte_spinlock_unlock
<1>2. locker[t].how = "lock" /\ lock # "rw" /\ ~OwnsIt(t)
  <2>1. CASE locker[t].at = "free"
    <3>1. GuessFits(locker[t], lockWord) /\ DepthFits(locker[t]) /\ PlaceFits(locker[t])
      BY DEF LocksInv, ThreadsFit
    <3>2. locker[t].how = "lock"
      BY <2>1, <3>1, LockerTyped DEF GuessFits, DepthFits
    <3> QED  BY <2>1, <3>1, <3>2 DEF PlaceFits, OwnsIt
  <2>2. CASE Unlocks(t, "spin")
    BY <2>2, UnlockerHolds DEF OwnsIt
  <2> QED  BY <2>1, <2>2 DEF rte_spinlock_unlock
<1>3. /\ lock' = lock /\ rtm' = rtm /\ lockWord' = 0
      /\ locker' \in [Lockers -> LockerTypes] /\ locker'[t] = OutLocker
      /\ \A u \in Lockers \ {t} : /\ locker'[u].how = locker[u].how
                                  /\ locker[u].how # "tx" => locker'[u].at = locker[u].at
                                  /\ locker[u].how = "tx" => locker'[u].at = "aborted"
      /\ ThreadsFit'
  BY <1>1, OutFits, WriteEffect
<1>4. LocksTypes'
  BY <1>1, <1>3 DEF LocksInv, LocksTypes
<1>5. \A u \in Lockers : ~Holds(u)' /\ ~OwnsIt(u) /\ ~OwnsIt(u)'
  <2>1. \A u \in Lockers \ {t} : ~Holds(u)
    BY <1>2 DEF LocksInv, OneHolder, Holds
  <2>2. ~Holds(t)' /\ ~OwnsIt(t)'
    BY <1>3 DEF Holds, OwnsIt, OutLocker
  <2>3. \A u \in Lockers \ {t} : ~Holds(u)' /\ ~OwnsIt(u) /\ ~OwnsIt(u)'
    BY <1>3, <2>1 DEF Holds, OwnsIt
  <2> QED  BY <1>2, <2>2, <2>3
<1>6. OneHolder'
  BY <1>3, <1>5 DEF OneHolder
<1>7. OwnerHolds'
  BY <1>1, <1>5 DEF LocksInv, OwnerHolds
<1>8. ReadersAreCounted'
  BY <1>2, <1>3 DEF ReadersAreCounted
<1> QED  BY <1>3, <1>4, <1>6, <1>7, <1>8 DEF LocksInv

\* Nobody owns a read-write lock.
LEMMA RwOwnerHolds ==
    ASSUME LocksInv, lock = "rw", lock' = lock, owner' = owner, nested' = nested
    PROVE  OwnerHolds' /\ \A t \in Lockers : locker[t].at \notin {"own", "free"}
<1>1. \A t \in Lockers : locker[t].at \notin {"own", "free"}
  BY DEF LocksInv, ThreadsFit, PlaceFits
<1>2. OwnerHolds'
  BY DEF LocksInv, OwnerHolds, OwnsIt
<1> QED  BY <1>1, <1>2

\* The word is still the one that was loaded: 0 for a writer, the number of readers else.
LEMMA CmpsetCntStep ==
    ASSUME LocksInv, NEW t \in Lockers, CmpsetCnt(t)
    PROVE  LocksInv'
<1> DEFINE m  == locker[t]
           me == Entered(m)
           v  == IF m.write THEN -1 ELSE lockWord + 1
<1>1. m \in LockerTypes /\ DepthFits(m) /\ PlaceFits(m)
  BY LockerTyped DEF LocksInv, ThreadsFit
<1>2. m.at = "cmpset" /\ lockWord = m.x /\ Write(v, t, me) /\ owner' = owner /\ nested' = nested
  BY DEF CmpsetCnt
<1>3. /\ lock = "rw" /\ m.how = "none" /\ m.depth = 0 /\ lockWord \in Int /\ lockWord >= 0
      /\ m.write => lockWord = 0
      /\ m.write \in BOOLEAN /\ v \in Int
  BY <1>1, <1>2 DEF DepthFits, PlaceFits, LockerTypes, LocksInv, LocksTypes
<1>4. /\ me \in LockerTypes /\ me.at = "in" /\ me.how = "lock" /\ me.depth = 1
      /\ me.retries = 0 /\ me.write = m.write
  BY <1>1, <1>3, EnteredTyped
<1> HIDE DEF me, m
<1>5. DepthFits(me) /\ PlaceFits(me) /\ GuessFits(me, v)
  BY <1>3, <1>4 DEF DepthFits, PlaceFits, GuessFits
<1> HIDE DEF v
<1>6. /\ lock' = lock /\ rtm' = rtm /\ lockWord' = v
      /\ locker' \in [Lockers -> LockerTypes] /\ locker'[t] = me
      /\ \A u \in Lockers \ {t} : /\ locker'[u].how = locker[u].how
                                  /\ locker'[u].write = locker[u].write
      /\ ThreadsFit'
  BY <1>2, <1>3, <1>4, <1>5, WriteEffect
<1>7. LocksTypes'
  BY <1>2, <1>3, <1>6 DEF LocksInv, LocksTypes
<1>8. OneHolder' /\ OwnerHolds'
  BY <1>2, <1>3, <1>6, RwOwnerHolds DEF OneHolder
<1>9. ReadersAreCounted'
  <2>1. /\ IsFiniteSet(Takers) /\ lockWord = Cardinality(Takers)
        /\ \A u \in Takers : ~locker[u].write
    BY <1>3 DEF LocksInv, ReadersAreCounted
  <2>2. Takers' = Takers \cup {t} /\ t \notin Takers
    BY <1>3, <1>4, <1>6 DEF Takers, m
  <2>3. IsFiniteSet(Takers') /\ Cardinality(Takers') = lockWord + 1
    BY <2>1, <2>2, FS_AddElement
  <2>4. CASE m.write
    <3>1. Takers = {}
      BY <1>3, <2>1, <2>4, FS_EmptySet
    <3> QED  BY <1>4, <1>6, <2>2, <2>3, <2>4, <3>1 DEF ReadersAreCounted, v
  <2>5. CASE ~m.write
    <3>1. \A u \in Takers' : ~locker'[u].write
      <4>1. ~locker'[t].write
        BY <1>4, <1>6, <2>5
      <4>2. \A u \in Takers : u \in Lockers \ {t} /\ ~locker'[u].write
        BY <1>6, <2>1, <2>2 DEF Takers
      <4> QED  BY <2>2, <4>1, <4>2
    <3>2. lockWord' = Cardinality(Takers')
      BY <1>6, <2>3, <2>5 DEF v
    <3> QED  BY <2>3, <3>1, <3>2 DEF ReadersAreCounted
  <2> QED  BY <2>4, <2>5
<1> QED  BY <1>6, <1>7, <1>8, <1>9 DEF LocksInv

\* The writer takes its -1 back, a reader its 1.
LEMMA RwUnlockStep ==
    ASSUME LocksInv, NEW t \in Lockers, rte_rwlock_unlock(t)
    PROVE  LocksInv'
<1> DEFINE m == locker[t]
           v == IF m.write THEN lockWord + 1 ELSE lockWord - 1
<1>1. Write(v, t, OutLocker) /\ owner' = owner /\ nested' = nested
  BY DEF rte_rwlock_unlock
<1>2. m.how = "lock" /\ lock = "rw" /\ lockWord \in Int /\ v \in Int /\ m.write \in BOOLEAN
  BY UnlockerHolds, LockerTyped DEF rte_rwlock_unlock, LocksInv, LocksTypes
<1> HIDE DEF v
<1>3. /\ lock' = lock /\ rtm' = rtm /\ lockWord' = v
      /\ locker' \in [Lockers -> LockerTypes] /\ locker'[t] = OutLocker
      /\ \A u \in Lockers \ {t} : /\ locker'[u].how = locker[u].how
                                  /\ locker'[u].write = locker[u].write
      /\ ThreadsFit'
  BY <1>1, <1>2, OutFits, WriteEffect
<1>4. LocksTypes'
  BY <1>1, <1>2, <1>3 DEF LocksInv, LocksTypes
<1>5. OneHolder' /\ OwnerHolds'
  BY <1>1, <1>2, <1>3, RwOwnerHolds DEF OneHolder
<1>6. ReadersAreCounted'
  <2>1. IsFiniteSet(Takers) /\ t \in Takers
    BY <1>2 DEF LocksInv, ReadersAreCounted, Takers
  <2>2. Takers' = Takers \ {t}
    BY <1>3 DEF Takers, OutLocker
  <2>3. IsFiniteSet(Takers') /\ Cardinality(Takers') = Cardinality(Takers) - 1
    BY <2>1, <2>2, FS_RemoveElement
  <2>4. CASE lockWord = -1 /\ \E u \in Lockers : Takers = {u} /\ locker[u].write
    <3>1. Takers = {t} /\ m.write
      BY <2>1, <2>4
    <3>2. Takers' = {} /\ lockWord' = 0
      BY <1>3, <2>2, <2>4, <3>1 DEF v
    <3> QED  BY <3>2, FS_EmptySet DEF ReadersAreCounted
  <2>5. CASE lockWord = Cardinality(Takers) /\ \A u \in Takers : ~locker[u].write
    <3>1. ~m.write /\ lockWord' = Cardinality(Takers')
      BY <1>2, <1>3, <2>1, <2>3, <2>5 DEF v
    <3>2. \A u \in Takers' : ~locker'[u].write
      BY <1>3, <2>2, <2>5 DEF Takers
    <3> QED  BY <2>3, <3>1, <3>2 DEF ReadersAreCounted
  <2> QED  BY <1>2, <2>4, <2>5 DEF LocksInv, ReadersAreCounted
<1> QED  BY <1>3, <1>4, <1>5, <1>6 DEF LocksInv
-----------------------------------------------------------------------------
\* At the start there is no lock and nobody has it.
LEMMA LocksStart == LocksInit => LocksInv
<1> SUFFICES ASSUME LocksInit PROVE LocksInv
  OBVIOUS
<1>1. /\ lock = "none" /\ rtm = FALSE /\ lockWord = 0 /\ owner = NoOwner /\ nested = 0
      /\ locker = [t \in Lockers |-> OutLocker]
  BY DEF LocksInit
<1>2. LocksTypes
  <2>1. locker \in [Lockers -> LockerTypes]
    BY <1>1, OutFits
  <2>2. lock \in LockKinds \cup {"none"} /\ owner \in Lockers \cup {NoOwner}
    BY <1>1
  <2>3. lockWord \in Int /\ nested \in Int
    BY <1>1
  <2>4. rtm \in BOOLEAN
    BY <1>1, Zenon
  <2> QED  BY <2>1, <2>2, <2>3, <2>4 DEF LocksTypes
<1>3. ThreadsFit
  BY <1>1, OutFits DEF ThreadsFit
<1>4. OneHolder /\ OwnerHolds /\ ReadersAreCounted
  BY <1>1, LockAssumption DEF OneHolder, Holds, OwnerHolds, OwnsIt, ReadersAreCounted, OutLocker,
     NoOwner
<1> QED  BY <1>2, <1>3, <1>4 DEF LocksInv

\* Every step of a thread keeps the invariant.
LEMMA LocksStep == LocksInv /\ [LocksNext]_lockVars => LocksInv'
<1> SUFFICES ASSUME LocksInv, [LocksNext]_lockVars PROVE LocksInv'
  OBVIOUS
<1>1. ASSUME NEW kind \in LockKinds, NEW supported \in BOOLEAN, MakeLock(kind, supported)
      PROVE  LocksInv'
  BY <1>1, MakeLockStep
<1>2. ASSUME NEW t \in Lockers, NEW tm \in BOOLEAN, NEW try \in BOOLEAN, NEW write \in BOOLEAN,
             Ask(t, tm, try, write)
      PROVE  LocksInv'
  BY <1>2, AskStep
<1>3. ASSUME NEW t \in Lockers, rte_try_tm(t) PROVE LocksInv'
  BY <1>3, XbeginStep, SpinEndsStep, GiveUpTmStep, XabortStep DEF rte_try_tm
<1>4. ASSUME NEW t \in Lockers, rte_spinlock_lock(t) PROVE LocksInv'
  BY <1>4, XchgStep, WaitUnlockedStep DEF rte_spinlock_lock
<1>5. ASSUME NEW t \in Lockers, Own(t) \/ Disown(t) \/ rte_spinlock_unlock(t) PROVE LocksInv'
  BY <1>5, OwnStep, DisownStep, UnlockStep
<1>6. ASSUME NEW t \in Lockers, rte_rwlock_read_lock(t) \/ rte_rwlock_write_lock(t) PROVE LocksInv'
  BY <1>6, LoadCntStep, CmpsetCntStep, CmpsetFailsStep DEF rte_rwlock_read_lock,
     rte_rwlock_write_lock
<1>7. ASSUME NEW t \in Lockers, rte_rwlock_unlock(t) \/ Xend(t) PROVE LocksInv'
  BY <1>7, RwUnlockStep, XendStep
<1>8. CASE UNCHANGED lockVars
  <2>1. UNCHANGED <<lock, rtm, lockWord, owner, nested, locker>>
    BY <1>8 DEF lockVars
  <2>2. LocksTypes' /\ ThreadsFit'
    BY <2>1 DEF LocksInv, LocksTypes, ThreadsFit, DepthFits, PlaceFits, GuessFits
  <2>3. OneHolder' /\ OwnerHolds' /\ ReadersAreCounted'
    BY <2>1 DEF LocksInv, OneHolder, Holds, OwnerHolds, OwnsIt, ReadersAreCounted, Takers
  <2> QED  BY <2>2, <2>3 DEF LocksInv
<1> QED  BY <1>1, <1>2, <1>3, <1>4, <1>5, <1>6, <1>7, <1>8 DEF LocksNext

\* The word of each lock says who has it, the user of the recursive lock is in it, and a
\* transaction that runs has the word 0 (rte_spinlock.h, rte_rwlock.h, rte_rtm.h).
THEOREM LocksInvariance == LocksSpec => []LocksInv
<1> QED  BY LocksStart, LocksStep, PTL DEF LocksSpec

\* SectionsExclude: a section under the lock excludes all others, transactions included,
\* but for readers among themselves, for any number of threads, retries and nestings.
THEOREM SectionsExcludeSafety == LocksSpec => []SectionsExclude
<1>1. LocksInv => SectionsExclude
  <2> SUFFICES ASSUME LocksInv PROVE SectionsExclude
    OBVIOUS
  <2>1. \A t \in Inside : /\ t \in Lockers /\ locker[t].how \in {"tx", "lock"}
                          /\ locker[t].how = "lock" => lockWord # 0
                          /\ locker[t].how = "tx" => lockWord = 0
    <3>1. SUFFICES ASSUME NEW t \in Lockers, locker[t].depth > 0, locker[t].at # "aborted"
                   PROVE  /\ locker[t].how \in {"tx", "lock"}
                          /\ locker[t].how = "lock" => lockWord # 0
                          /\ locker[t].how = "tx" => lockWord = 0
      BY DEF Inside
    <3>2. /\ DepthFits(locker[t]) /\ GuessFits(locker[t], lockWord)
          /\ locker[t].how \in {"none", "tx", "lock"} /\ locker[t].depth \in Nat
      BY LockerTyped DEF LocksInv, ThreadsFit
    <3> QED  BY <3>1, <3>2, HeldIsSeen DEF DepthFits, GuessFits, Holds
  <2>2. ASSUME NEW t \in Locked, NEW u \in Inside \ {t}
        PROVE  lock = "rw" /\ ~locker[t].write /\ u \in Locked /\ ~locker[u].write
    <3>1. t \in Inside /\ locker[t].how = "lock" /\ t # u /\ u \in Inside
      BY DEF Locked
    <3>2. locker[u].how = "lock" /\ t \in Lockers /\ u \in Lockers
      BY <2>1, <3>1
    <3>3. lock = "rw"
      BY <3>1, <3>2 DEF LocksInv, OneHolder, Holds
    <3>4. t \in Takers /\ u \in Takers
      BY <3>1, <3>2 DEF Takers
    <3>5. ~locker[t].write /\ ~locker[u].write
      BY <3>1, <3>3, <3>4 DEF LocksInv, ReadersAreCounted
    <3> QED  BY <3>1, <3>2, <3>3, <3>5 DEF Locked
  <2>3. lock = "rw" => lockWord = IF \E t \in Locked : locker[t].write THEN -1 ELSE Cardinality(Locked)
    <3>1. SUFFICES ASSUME lock = "rw"
                   PROVE  lockWord = IF \E t \in Locked : locker[t].write
                                     THEN -1 ELSE Cardinality(Locked)
      OBVIOUS
    <3>2. Locked = Takers
      <4>1. ASSUME NEW t \in Lockers, locker[t].how = "lock"
            PROVE  locker[t].depth > 0 /\ locker[t].at # "aborted"
        BY <3>1, <4>1, LockerTyped DEF LocksInv, ThreadsFit, DepthFits, PlaceFits, GuessFits
      <4> QED  BY <4>1 DEF Locked, Inside, Takers
    <3> QED  BY <3>1, <3>2 DEF LocksInv, ReadersAreCounted
  <2> QED  BY <2>1, <2>2, <2>3 DEF SectionsExclude
<1> QED  BY <1>1, LocksInvariance, PTL

\* WaitsForItselfOnlyInTm: the only way to wait for oneself is to ask for the recursive
\* lock through the transactional function while having it.
THEOREM WaitsForItselfSafety == LocksSpec => []WaitsForItselfOnlyInTm
<1>1. LocksInv => WaitsForItselfOnlyInTm
  BY DEF LocksInv, ThreadsFit, DepthFits, PlaceFits, GuessFits, WaitsForItselfOnlyInTm, Locked,
     Inside
<1> QED  BY <1>1, LocksInvariance, PTL
-----------------------------------------------------------------------------
(***************************************************************************)
(* The ring of dpdk_ring.                                                  *)
(***************************************************************************)
\* What a thread is in the middle of.
UserTypes == [at : {"idle", "load", "room", "move", "copy"}, single : BOOLEAN, fixed : BOOLEAN,
              max : Nat, n : Nat, old : Int, seen : Nat, i : Nat]

RingTypes ==
    /\ made \in Nat /\ made < IndexModulus
    /\ made # 0 => IndexModulus % made = 0
    /\ head \in [RingSides -> Int] /\ tail \in [RingSides -> Int]
    /\ single \in [RingSides -> BOOLEAN]
    /\ user \in [RingUsers -> UserTypes]
    /\ claimed \in [RingSides -> Nat]
    /\ lapped \in BOOLEAN
    /\ made # 0 => ring \in [0 .. made - 1 -> Int]

\* Before there is a ring nobody uses it.
NoRing == made = 0 => /\ head = [s \in RingSides |-> 0] /\ tail = head
                      /\ claimed = [s \in RingSides |-> 0]
                      /\ \A u \in RingUsers : user[u].at = "idle"

\* A single function has its side for itself.
SinglesAlone ==
    \A u, v \in RingUsers : u # v /\ SideOf(u) = SideOf(v) /\ user[u].at # "idle"
                            /\ user[v].at # "idle" => ~user[u].single

\* The index at which the first object that is followed was, or will be.
Base == Mod(head["prod"] - claimed["prod"])

\* The indexes are the places counted without wrapping, wrapped.
Indexes == \A s \in RingSides : /\ head[s] = Mod(Base + claimed[s])
                                /\ tail[s] = Mod(Base + Published(s))

\* The four indexes in their order; at most Capacity places are in use.
InOrder == /\ \A s \in RingSides : Published(s) <= claimed[s]
           /\ claimed["cons"] <= Published("prod")
           /\ made # 0 => claimed["prod"] <= Published("cons") + Capacity

\* What there is to claim.
Space(s) == IF s = "prod" THEN Capacity + Published("cons") - claimed["prod"]
                          ELSE Published("prod") - claimed["cons"]

\* A thread claims what it has seen free, if nobody has claimed since it looked.
Claiming(me, s) ==
    /\ me.at \in {"room", "move"} => /\ me.old = Mod(Base + me.seen)
                                     /\ me.seen <= claimed[s]
                                     /\ me.single => me.seen = claimed[s]
    /\ me.at = "move" => me.n > 0 /\ (me.seen = claimed[s] => me.n <= Space(s))

\* What a thread has claimed is its own until it publishes it.
Copying(me, s) ==
    me.at = "copy" => /\ me.old = Mod(Base + me.seen)
                      /\ me.n > 0 /\ me.i <= me.n
                      /\ Published(s) <= me.seen /\ me.seen + me.n <= claimed[s]

Claims(u, x) == user[u].at = "copy" /\ user[u].seen <= x /\ x < user[u].seen + user[u].n

Partition ==
    /\ \A u, v \in RingUsers : \A x \in Int :
           SideOf(u) = SideOf(v) /\ Claims(u, x) /\ Claims(v, x) => u = v
    /\ \A s \in RingSides : \A x \in Int :
           Published(s) <= x /\ x < claimed[s] =>
               \E u \in RingUsers : SideOf(u) = s /\ Claims(u, x)

\* Between the tails, and where a producer has copied already, each cell has its object.
PlacesWritten ==
    /\ \A x \in Int : Published("cons") <= x /\ x < Published("prod") => ring[Cell(Base + x)] = x
    /\ \A u \in Producers : \A x \in Int :
           Claims(u, x) /\ x < user[u].seen + user[u].i => ring[Cell(Base + x)] = x

InStep == /\ Indexes /\ InOrder
          /\ \A u \in RingUsers : Claiming(user[u], SideOf(u)) /\ Copying(user[u], SideOf(u))
          /\ Partition /\ PlacesWritten

RingInv == RingTypes /\ NoRing /\ SinglesAlone /\ (~lapped => InStep)

\* A thread between the two loads of rte_ring_count has a tail that was right when it was
\* loaded: the producers have published at least as much since.
CounterInv ==
    counter.at = "half" =>
        /\ made # 0 /\ counter.seen \in Int
        /\ ~lapped => counter.seen <= Published("prod") /\ counter.prod = Mod(Base + counter.seen)

\* What a step leaves alone of what such a thread relies on.
GoesOn == ~lapped' => /\ Base' = Base
                      /\ \A t \in RingSides : /\ Published(t) \in Int /\ Published(t)' \in Int
                                              /\ Published(t) <= Published(t)'

\* A number has one quotient and one remainder.
LEMMA Remainder ==
    ASSUME NEW m \in Nat \ {0}, NEW q \in Int, NEW r \in Int, 0 <= r, r < m
    PROVE  (m * q + r) % m = r
<1> DEFINE x == m * q + r
           p == x \div m
           t == x % m
<1>1. x \in Int /\ p \in Int /\ t \in Int /\ 0 <= t /\ t < m /\ x = m * p + t
  <2>1. m * q \in Int
    OBVIOUS
  <2>2. x \in Int
    BY <2>1
  <2> HIDE DEF x
  <2> QED  BY <2>2
<1>2. x = m * q + r
  OBVIOUS
<1> HIDE DEF x, p, t
<1>3. m * (q - p) = t - r
  <2>1. m * (q - p) = m * q - m * p /\ m * q \in Int /\ m * p \in Int
    BY <1>1
  <2> QED  BY <1>1, <1>2, <2>1
<1>4. q - p = 0
  <2>1. q - p >= 1 => m * (q - p) >= m
    BY <1>1
  <2>2. q - p <= -1 => m * (q - p) <= -m
    BY <1>1
  <2> QED  BY <1>1, <1>3, <2>1, <2>2
<1>5. t = r
  BY <1>1, <1>3, <1>4
<1> QED  BY <1>5 DEF t, x

\* The remainder is below the divisor, and the rest is a multiple of it.
LEMMA Quotient ==
    ASSUME NEW m \in Nat \ {0}, NEW x \in Int
    PROVE  /\ x % m \in Int /\ 0 <= x % m /\ x % m < m
           /\ \E q \in Int : x = m * q + (x % m)
<1>1. x \div m \in Int /\ x = m * (x \div m) + (x % m)
  OBVIOUS
<1>2. \E q \in Int : x = m * q + (x % m)
  BY <1>1
<1>3. x % m \in Int /\ 0 <= x % m /\ x % m < m
  OBVIOUS
<1> QED  BY <1>2, <1>3

\* Adding before or after wrapping.
LEMMA WrapAdd ==
    ASSUME NEW a \in Int, NEW b \in Int
    PROVE  Mod(Mod(a) + b) = Mod(a + b)
<1> DEFINE M == IndexModulus
<1>1. M \in Nat \ {0}
  BY RingAssumption
<1>2. PICK q \in Int : a = M * q + Mod(a)
  BY <1>1, Quotient DEF Mod
<1>3. Mod(a) \in Int /\ Mod(Mod(a) + b) \in Int /\ 0 <= Mod(Mod(a) + b) /\ Mod(Mod(a) + b) < M
  BY <1>1, Quotient DEF Mod
<1>4. PICK p \in Int : Mod(a) + b = M * p + Mod(Mod(a) + b)
  <2>1. PICK y \in Int : y = Mod(a) + b
    BY <1>3
  <2>2. \E p \in Int : y = M * p + Mod(y)
    BY <1>1, Quotient DEF Mod
  <2> QED  BY <2>1, <2>2
<1> DEFINE r == Mod(Mod(a) + b)
<1>5. a + b = M * (q + p) + r
  <2>1. M * (q + p) = M * q + M * p /\ M * q \in Int /\ M * p \in Int
    BY <1>1
  <2> HIDE DEF M, r
  <2>2. r \in Int /\ Mod(a) + b = M * p + r
    BY <1>3, <1>4 DEF r, M
  <2> QED  BY <1>2, <1>3, <2>1, <2>2 DEF M
<1>6. Mod(M * (q + p) + r) = r
  <2>1. q + p \in Int /\ r \in Int /\ 0 <= r /\ r < M
    BY <1>3
  <2> HIDE DEF M, r
  <2>2. (M * (q + p) + r) % M = r
    BY <1>1, <2>1, Remainder
  <2> QED  BY <2>2 DEF Mod, M
<1> QED  BY <1>5, <1>6

\* A wrapped number is an index.
LEMMA WrapTyped ==
    ASSUME NEW x \in Int
    PROVE  Mod(x) \in Int /\ 0 <= Mod(x) /\ Mod(x) < IndexModulus
BY RingAssumption, Quotient DEF Mod

\* An index is not changed by wrapping.
LEMMA WrapSmall ==
    ASSUME NEW x \in Int, 0 <= x, x < IndexModulus
    PROVE  Mod(x) = x
BY RingAssumption DEF Mod

\* Subtracting before or after wrapping.
LEMMA WrapSubtract ==
    ASSUME NEW a \in Int, NEW b \in Int
    PROVE  Mod(Mod(a) - Mod(b)) = Mod(a - b)
<1>1. Mod(a) \in Int /\ Mod(b) \in Int
  BY WrapTyped
<1>2. Mod(Mod(a) - Mod(b)) = Mod(a - Mod(b))
  BY <1>1, WrapAdd, Mod(a) + (-Mod(b)) = Mod(a) - Mod(b), a + (-Mod(b)) = a - Mod(b)
<1>3. PICK q \in Int : b = IndexModulus * q + Mod(b)
  BY RingAssumption, Quotient DEF Mod
<1>4. a - Mod(b) = (a - b) + IndexModulus * q
  BY <1>1, <1>3, RingAssumption
<1>5. Mod((a - b) + IndexModulus * q) = Mod(a - b)
  <2>1. PICK p \in Int : a - b = IndexModulus * p + Mod(a - b)
    <3>1. PICK y \in Int : y = a - b
      OBVIOUS
    <3>2. \E p \in Int : y = IndexModulus * p + Mod(y)
      BY RingAssumption, Quotient DEF Mod
    <3> QED  BY <3>1, <3>2
  <2>2. Mod(a - b) \in Int /\ 0 <= Mod(a - b) /\ Mod(a - b) < IndexModulus
    BY WrapTyped
  <2>3. (a - b) + IndexModulus * q = IndexModulus * (p + q) + Mod(a - b)
    <3>1. IndexModulus * (p + q) = IndexModulus * p + IndexModulus * q
          /\ IndexModulus * p \in Int /\ IndexModulus * q \in Int
      BY RingAssumption
    <3> QED  BY <2>1, <2>2, <3>1
  <2>4. Mod(IndexModulus * (p + q) + Mod(a - b)) = Mod(a - b)
    BY <2>2, RingAssumption, Remainder DEF Mod
  <2> QED  BY <2>3, <2>4
<1> QED  BY <1>2, <1>4, <1>5

\* The cell of a wrapped index is the cell of the index: the ring divides its numbers.
LEMMA CellOfWrapped ==
    ASSUME made \in Nat \ {0}, IndexModulus % made = 0, NEW x \in Int
    PROVE  Cell(Mod(x)) = Cell(x)
<1> DEFINE M == IndexModulus
<1>1. M \in Nat \ {0}
  BY RingAssumption
<1>2. PICK k \in Int : M = made * k
  BY <1>1, Quotient
<1>3. PICK q \in Int : x = M * q + Mod(x)
  BY <1>1, Quotient DEF Mod
<1>4. Mod(x) \in Int
  BY WrapTyped
<1>5. PICK p \in Int : Mod(x) = made * p + Cell(Mod(x))
  BY <1>4, Quotient DEF Cell
<1>6. Cell(Mod(x)) \in Int /\ 0 <= Cell(Mod(x)) /\ Cell(Mod(x)) < made
  BY <1>4, Quotient DEF Cell
<1>7. x = made * (k * q + p) + Cell(Mod(x))
  <2>1. M * q = made * (k * q)
    BY <1>2
  <2>2. made * (k * q + p) = made * (k * q) + made * p
        /\ made * (k * q) \in Int /\ made * p \in Int /\ k * q + p \in Int
    <3>1. k * q \in Int
      OBVIOUS
    <3> QED  BY <3>1
  <2> QED  BY <1>3, <1>4, <1>5, <1>6, <2>1, <2>2
<1>8. Cell(made * (k * q + p) + Cell(Mod(x))) = Cell(Mod(x))
  <2>1. k * q + p \in Int
    OBVIOUS
  <2> QED  BY <1>6, <2>1, Remainder DEF Cell
<1> QED  BY <1>7, <1>8

\* Two places in the ring are less than a round apart.
LEMMA LessThanARound ==
    ASSUME NEW b \in Int, NEW x \in Int, NEW y \in Int, NEW low \in Int, NEW high \in Int,
           NEW n \in Int, low <= x, x < y, y < high, high <= low + (n - 1)
    PROVE  b + x < b + y /\ b + y < (b + x) + n
OBVIOUS

\* Less than a lap apart, two places have two cells.
LEMMA CellsDiffer ==
    ASSUME made \in Nat \ {0}, NEW x \in Int, NEW y \in Int, x < y, y < x + made
    PROVE  Cell(x) # Cell(y)
<1>1. PICK p \in Int : x = made * p + Cell(x)
  BY Quotient DEF Cell
<1>2. PICK q \in Int : y = made * q + Cell(y)
  BY Quotient DEF Cell
<1>3. Cell(x) \in Int /\ Cell(y) \in Int
  BY Quotient DEF Cell
<1>4. SUFFICES ASSUME Cell(x) = Cell(y) PROVE FALSE
  OBVIOUS
<1>5. made * (q - p) = y - x
  <2>1. made * (q - p) = made * q - made * p /\ made * q \in Int /\ made * p \in Int
    OBVIOUS
  <2> QED  BY <1>1, <1>2, <1>3, <1>4, <2>1
<1>6. (q - p >= 1 => made * (q - p) >= made) /\ (q - p <= 0 => made * (q - p) <= 0)
  OBVIOUS
<1> QED  BY <1>5, <1>6

\* A thread is of one side.
LEMMA Sides ==
    /\ \A u \in RingUsers : SideOf(u) \in RingSides
    /\ \A u \in Producers : u \in RingUsers /\ SideOf(u) = "prod"
    /\ \A u \in Consumers : u \in RingUsers /\ SideOf(u) = "cons"
    /\ \A u \in RingUsers : SideOf(u) = "prod" => u \in Producers
BY RingAssumption DEF SideOf, RingSides, RingUsers

\* The fields of a thread, by its type.
LEMMA UserTyped ==
    ASSUME RingTypes, NEW u \in RingUsers
    PROVE  /\ user[u] \in UserTypes
           /\ user[u].at \in {"idle", "load", "room", "move", "copy"}
           /\ user[u].single \in BOOLEAN /\ user[u].fixed \in BOOLEAN
           /\ user[u].max \in Nat /\ user[u].n \in Nat /\ user[u].old \in Int
           /\ user[u].seen \in Nat /\ user[u].i \in Nat
BY DEF RingTypes, UserTypes

\* The places are numbers.
LEMMA PlacesTyped ==
    ASSUME RingTypes
    PROVE  /\ Base \in Int
           /\ made \in Nat /\ Capacity \in Int /\ Capacity = made - 1
           /\ \A s \in RingSides : /\ claimed[s] \in Nat /\ head[s] \in Int /\ tail[s] \in Int
                                   /\ Published(s) \in Int
           /\ Space("prod") \in Int /\ Space("cons") \in Int
<1>1. \A s \in RingSides : /\ claimed[s] \in Nat /\ head[s] \in Int /\ tail[s] \in Int
                           /\ Mod(head[s] - tail[s]) \in Int
  <2>1. \A s \in RingSides : claimed[s] \in Nat /\ head[s] \in Int /\ tail[s] \in Int
    BY DEF RingTypes
  <2>2. \A x \in Int : Mod(x) \in Int
    BY WrapTyped
  <2> QED  BY <2>1, <2>2
<1>2. \A s \in RingSides : Published(s) \in Int
  BY <1>1 DEF Published
<1>3. Base \in Int
  <2>1. head["prod"] - claimed["prod"] \in Int
    BY <1>1 DEF RingSides
  <2> QED  BY <2>1, WrapTyped DEF Base
<1>4. made \in Nat /\ Capacity \in Int /\ Capacity = made - 1
  BY DEF RingTypes, Capacity
<1> QED  BY <1>1, <1>2, <1>3, <1>4 DEF Space, RingSides

\* A thread that claims nothing and publishes nothing disturbs nobody.
LEMMA OutsideStep ==
    ASSUME RingInv, made # 0, NEW u \in RingUsers, NEW me \in UserTypes,
           user' = [user EXCEPT ![u] = me],
           UNCHANGED <<made, head, tail, single, ring, claimed, lapped>>,
           user[u].at # "copy", me.at # "copy",
           me.at # "idle" => \A v \in Fellows(u) : ~me.single /\ ~user[v].single,
           ~lapped => Claiming(me, SideOf(u))
    PROVE  RingInv'
<1>1. \A v \in RingUsers : user'[v] = IF v = u THEN me ELSE user[v]
  BY DEF RingInv, RingTypes
<1>2. RingTypes'
  BY DEF RingInv, RingTypes
<1>3. NoRing'
  BY DEF NoRing
<1>4. SinglesAlone'
  <2>1. SUFFICES ASSUME NEW v \in RingUsers, NEW w \in RingUsers, v # w, SideOf(v) = SideOf(w),
                        user'[v].at # "idle", user'[w].at # "idle"
                 PROVE  ~user'[v].single
    BY DEF SinglesAlone
  <2>2. CASE v = u
    BY <1>1, <2>1, <2>2 DEF Fellows
  <2>3. CASE w = u
    BY <1>1, <2>1, <2>3 DEF Fellows
  <2>4. CASE v # u /\ w # u
    BY <1>1, <2>1, <2>4 DEF RingInv, SinglesAlone
  <2> QED  BY <2>2, <2>3, <2>4
<1>5. ASSUME ~lapped PROVE InStep'
  <2>1. Base' = Base /\ Capacity' = Capacity /\ \A s : Published(s)' = Published(s) /\ Space(s)' = Space(s)
    BY DEF Base, Published, Space, Capacity
  <2>2. InStep
    BY <1>5 DEF RingInv
  <2>3. Indexes' /\ InOrder'
    BY <2>1, <2>2 DEF InStep, Indexes, InOrder
  <2>4. \A v \in RingUsers : (Claiming(user[v], SideOf(v)) /\ Copying(user[v], SideOf(v)))'
    <3>1. \A v \in RingUsers : Claiming(user'[v], SideOf(v)) /\ Copying(user'[v], SideOf(v))
      <4>1. Copying(me, SideOf(u))
        BY DEF Copying
      <4> QED  BY <1>1, <1>5, <2>2, <4>1 DEF InStep
    <3> QED  BY <2>1, <3>1 DEF Claiming, Copying
  <2>5. \A v \in RingUsers : \A x : Claims(v, x)' <=> Claims(v, x)
    BY <1>1 DEF Claims
  <2>6. Partition'
    BY <2>1, <2>2, <2>5 DEF InStep, Partition
  <2>7. PlacesWritten'
    <3>1. \A v \in Producers : v \in RingUsers
      BY DEF RingUsers
    <3>2. \A v \in Producers : \A x \in Int :
              Claims(v, x)' => user'[v].seen = user[v].seen /\ user'[v].i = user[v].i
      BY <1>1, <3>1 DEF Claims
    <3>3. \A x : Cell(x)' = Cell(x)
      BY DEF Cell
    <3> QED  BY <2>1, <2>2, <2>5, <3>1, <3>2, <3>3 DEF InStep, PlacesWritten
  <2> QED  BY <2>3, <2>4, <2>6, <2>7 DEF InStep
<1> QED  BY <1>2, <1>3, <1>4, <1>5 DEF RingInv

\* There is never more to claim than the ring holds.
LEMMA SpaceBounds ==
    ASSUME RingTypes, InOrder, made # 0, NEW s \in RingSides
    PROVE  Space(s) \in Int /\ 0 <= Space(s) /\ Space(s) <= Capacity /\ Capacity < IndexModulus
<1>1. /\ Published("prod") <= claimed["prod"] /\ Published("cons") <= claimed["cons"]
      /\ claimed["cons"] <= Published("prod")
      /\ claimed["prod"] <= Published("cons") + Capacity
  BY DEF InOrder, RingSides
<1>2. /\ Published("prod") \in Int /\ Published("cons") \in Int /\ claimed["prod"] \in Int
      /\ claimed["cons"] \in Int /\ Capacity \in Int /\ Capacity = made - 1
      /\ made \in Int /\ made < IndexModulus /\ IndexModulus \in Int
  BY PlacesTyped, RingAssumption DEF RingSides, RingTypes
<1>3. s = "prod" \/ s = "cons"
  BY DEF RingSides
<1>4. Capacity < IndexModulus
  BY <1>2
<1>5. Space("prod") = Capacity + Published("cons") - claimed["prod"]
      /\ Space("cons") = Published("prod") - claimed["cons"]
  BY DEF Space
<1>6. 0 <= Space("prod") /\ Space("prod") <= Capacity
  BY <1>1, <1>2, <1>5
<1>7. 0 <= Space("cons") /\ Space("cons") <= Capacity
  BY <1>1, <1>2, <1>5
<1> QED  BY <1>2, <1>3, <1>4, <1>5, <1>6, <1>7

\* The room a thread computes from wrapped indexes is what there is to claim, if its head
\* is the head still.
LEMMA RoomIsSpace ==
    ASSUME RingTypes, InStep, made # 0, NEW u \in RingUsers,
           user[u].old = Mod(Base + user[u].seen), user[u].seen = claimed[SideOf(u)]
    PROVE  Room(u) = Space(SideOf(u))
<1>1. /\ Base \in Int /\ Capacity \in Int
      /\ \A s \in RingSides : claimed[s] \in Int /\ Published(s) \in Int /\ tail[s] \in Int
  BY PlacesTyped
<1>2. /\ Indexes /\ InOrder
      /\ tail["prod"] = Mod(Base + Published("prod")) /\ tail["cons"] = Mod(Base + Published("cons"))
  BY DEF InStep, Indexes, RingSides
<1>3. Mod(Space(SideOf(u))) = Space(SideOf(u))
  <2>1. SideOf(u) \in RingSides
    BY Sides
  <2>2. /\ Space(SideOf(u)) \in Int /\ 0 <= Space(SideOf(u)) /\ Space(SideOf(u)) <= Capacity
        /\ Capacity < IndexModulus
    BY <1>2, <2>1, SpaceBounds
  <2>3. Space(SideOf(u)) < IndexModulus
    BY <1>1, <2>2, RingAssumption
  <2> QED  BY <2>2, <2>3, WrapSmall
<1>4. CASE u \in Producers
  <2>1. SideOf(u) = "prod"
    BY <1>4, Sides
  <2>2. PICK a \in Int : a = Base + Published("cons")
    BY <1>1 DEF RingSides
  <2>3. PICK b \in Int : b = Base + claimed["prod"]
    BY <1>1 DEF RingSides
  <2>4. Mod(a) \in Int /\ Mod(b) \in Int
    BY WrapTyped
  <2>5. Room(u) = Mod(Capacity + Mod(a) - Mod(b))
    BY <1>2, <1>4, <2>1, <2>2, <2>3 DEF Room
  <2>6. Mod(Capacity + Mod(a) - Mod(b)) = Mod(Mod(Capacity + Mod(a)) - Mod(b))
    <3>1. PICK c \in Int : c = Capacity + Mod(a)
      BY <1>1, <2>4
    <3>2. PICK d \in Int : d = -Mod(b)
      BY <2>4
    <3>3. Mod(Mod(c) + d) = Mod(c + d)
      BY WrapAdd
    <3>4. Mod(c) \in Int
      BY WrapTyped
    <3>5. Mod(c) + d = Mod(c) - Mod(b) /\ c + d = Capacity + Mod(a) - Mod(b)
      BY <1>1, <2>4, <3>1, <3>2, <3>4
    <3> QED  BY <3>1, <3>3, <3>5
  <2>7. Mod(Capacity + Mod(a)) = Mod(a + Capacity)
    <3>1. Capacity + Mod(a) = Mod(a) + Capacity
      BY <1>1, <2>4
    <3> QED  BY <1>1, <3>1, WrapAdd
  <2>8. Mod(Mod(a + Capacity) - Mod(b)) = Mod((a + Capacity) - b)
    <3>1. PICK e \in Int : e = a + Capacity
      BY <1>1
    <3> QED  BY <3>1, WrapSubtract
  <2>9. (a + Capacity) - b = Space("prod")
    BY <1>1, <2>2, <2>3 DEF Space, RingSides
  <2> QED  BY <1>3, <2>1, <2>5, <2>6, <2>7, <2>8, <2>9
<1>5. CASE u \notin Producers
  <2>1. SideOf(u) = "cons"
    BY <1>5 DEF SideOf
  <2>2. PICK a \in Int : a = Base + Published("prod")
    BY <1>1 DEF RingSides
  <2>3. PICK b \in Int : b = Base + claimed["cons"]
    BY <1>1 DEF RingSides
  <2>4. Room(u) = Mod(Mod(a) - Mod(b))
    BY <1>2, <1>5, <2>1, <2>2, <2>3 DEF Room
  <2>5. Mod(Mod(a) - Mod(b)) = Mod(a - b)
    BY WrapSubtract
  <2>6. a - b = Space("cons")
    BY <1>1, <2>2, <2>3 DEF Space, RingSides
  <2> QED  BY <1>3, <2>1, <2>4, <2>5, <2>6
<1> QED  BY <1>4, <1>5

\* What a thread sees free is a number.
LEMMA RoomTyped == ASSUME RingTypes, NEW u \in RingUsers PROVE Room(u) \in Nat
<1>1. /\ Capacity \in Int /\ tail["cons"] \in Int /\ tail["prod"] \in Int /\ user[u].old \in Int
  BY PlacesTyped, UserTyped DEF RingSides
<1>2. PICK a \in Int : a = Capacity + tail["cons"] - user[u].old
  BY <1>1
<1>3. PICK b \in Int : b = tail["prod"] - user[u].old
  BY <1>1
<1>4. Mod(a) \in Nat /\ Mod(b) \in Nat
  BY WrapTyped
<1> QED  BY <1>2, <1>3, <1>4 DEF Room

\* The state of a thread outside the ring.
LEMMA IdleUserTyped == IdleUser \in UserTypes
<1>1. PICK zero \in Nat : zero = 0
  OBVIOUS
<1>2. [at |-> "idle", single |-> FALSE, fixed |-> TRUE, max |-> zero, n |-> zero, old |-> zero,
       seen |-> zero, i |-> zero] \in UserTypes
  BY DEF UserTypes
<1> QED  BY <1>1, <1>2 DEF IdleUser

\* What the functions of the interface pass on.
LEMMA FunctionsTyped ==
    ASSUME RingTypes, NEW s \in RingSides, NEW f \in Functions(s)
    PROVE  f.single \in BOOLEAN /\ f.fixed \in BOOLEAN /\ f.most \in Nat
<1>1. single["prod"] \in BOOLEAN /\ single["cons"] \in BOOLEAN /\ MaxAtOnce \in Nat
  BY RingAssumption DEF RingTypes, RingSides
<1> DEFINE Fine(g) == g.single \in BOOLEAN /\ g.fixed \in BOOLEAN /\ g.most \in Nat
<1>2. \A b \in {"fixed", "variable"}, x \in BOOLEAN :
          Fine(Passes(b, x, MaxAtOnce)) /\ Fine([Passes(b, x, MaxAtOnce) EXCEPT !.most = 1])
  BY <1>1 DEF Passes
<1> HIDE DEF Fine
<1>3. /\ Fine(rte_ring_mp_enqueue_bulk) /\ Fine(rte_ring_sp_enqueue_bulk)
      /\ Fine(rte_ring_enqueue_bulk) /\ Fine(rte_ring_mp_enqueue) /\ Fine(rte_ring_sp_enqueue)
      /\ Fine(rte_ring_enqueue) /\ Fine(rte_ring_mp_enqueue_burst)
      /\ Fine(rte_ring_sp_enqueue_burst) /\ Fine(rte_ring_enqueue_burst)
  BY <1>1, <1>2 DEF rte_ring_mp_enqueue_bulk, rte_ring_sp_enqueue_bulk, rte_ring_enqueue_bulk,
     rte_ring_mp_enqueue, rte_ring_sp_enqueue, rte_ring_enqueue, rte_ring_mp_enqueue_burst,
     rte_ring_sp_enqueue_burst, rte_ring_enqueue_burst
<1>4. /\ Fine(rte_ring_mc_dequeue_bulk) /\ Fine(rte_ring_sc_dequeue_bulk)
      /\ Fine(rte_ring_dequeue_bulk) /\ Fine(rte_ring_mc_dequeue) /\ Fine(rte_ring_sc_dequeue)
      /\ Fine(rte_ring_dequeue) /\ Fine(rte_ring_mc_dequeue_burst)
      /\ Fine(rte_ring_sc_dequeue_burst) /\ Fine(rte_ring_dequeue_burst)
  BY <1>1, <1>2 DEF rte_ring_mc_dequeue_bulk, rte_ring_sc_dequeue_bulk, rte_ring_dequeue_bulk,
     rte_ring_mc_dequeue, rte_ring_sc_dequeue, rte_ring_dequeue, rte_ring_mc_dequeue_burst,
     rte_ring_sc_dequeue_burst, rte_ring_dequeue_burst
<1>5. Fine(f)
  BY <1>3, <1>4 DEF Functions
<1> QED  BY <1>5 DEF Fine

\* A thread comes in and loads the head of its side.
LEMMA CallStep ==
    ASSUME RingInv, NEW u \in RingUsers, NEW f \in Functions(SideOf(u)), NEW n \in 1 .. MaxAtOnce,
           Call(u, f, n)
    PROVE  RingInv'
<1> DEFINE me == [Loaded(u, IdleUser) EXCEPT !.single = f.single, !.fixed = f.fixed, !.max = n]
<1>1. /\ made # 0 /\ user[u].at = "idle" /\ user' = [user EXCEPT ![u] = me]
      /\ UNCHANGED <<made, head, tail, single, ring, claimed, lapped>>
      /\ IF f.single THEN Fellows(u) = {} ELSE \A v \in Fellows(u) : ~user[v].single
  BY DEF Call
<1>2. RingTypes /\ SideOf(u) \in RingSides
  BY Sides DEF RingInv
<1>3. f.single \in BOOLEAN /\ f.fixed \in BOOLEAN /\ n \in Nat
  BY <1>2, FunctionsTyped, RingAssumption
<1>4. head[SideOf(u)] \in Int /\ claimed[SideOf(u)] \in Nat
  BY <1>2, PlacesTyped
<1>5. /\ me \in UserTypes /\ me.at = "room" /\ me.old = head[SideOf(u)]
      /\ me.seen = claimed[SideOf(u)] /\ me.single = f.single
  <2> DEFINE l == Loaded(u, IdleUser)
  <2>1. l \in UserTypes /\ l.at = "room" /\ l.old = head[SideOf(u)] /\ l.seen = claimed[SideOf(u)]
    <3>1. PICK h \in Int : h = head[SideOf(u)]
      BY <1>4
    <3>2. PICK c \in Nat : c = claimed[SideOf(u)]
      BY <1>4
    <3>3. PICK r \in UserTypes : r = IdleUser
      BY IdleUserTyped
    <3>4. l = [r EXCEPT !.at = "room", !.old = h, !.seen = c]
      BY <3>1, <3>2, <3>3 DEF Loaded
    <3>5. /\ [r EXCEPT !.at = "room", !.old = h, !.seen = c] \in UserTypes
          /\ [r EXCEPT !.at = "room", !.old = h, !.seen = c].at = "room"
          /\ [r EXCEPT !.at = "room", !.old = h, !.seen = c].old = h
          /\ [r EXCEPT !.at = "room", !.old = h, !.seen = c].seen = c
      BY DEF UserTypes
    <3> HIDE DEF l
    <3> QED  BY <3>1, <3>2, <3>4, <3>5
  <2> HIDE DEF l
  <2>2. me = [l EXCEPT !.single = f.single, !.fixed = f.fixed, !.max = n]
    BY DEF l
  <2> HIDE DEF me
  <2> QED  BY <1>3, <2>1, <2>2 DEF UserTypes
<1> HIDE DEF me
<1>6. ~lapped => Claiming(me, SideOf(u))
  <2>1. ~lapped => head[SideOf(u)] = Mod(Base + claimed[SideOf(u)])
    BY <1>2 DEF RingInv, InStep, Indexes
  <2> QED  BY <1>4, <1>5, <2>1 DEF Claiming
<1>7. \A v \in Fellows(u) : ~me.single /\ ~user[v].single
  BY <1>1, <1>3, <1>5
<1> QED  BY <1>1, <1>5, <1>6, <1>7, OutsideStep

\* It tries again with the head of now.
LEMMA LoadHeadStep ==
    ASSUME RingInv, NEW u \in RingUsers, LoadHead(u)
    PROVE  RingInv'
<1> DEFINE m  == user[u]
           me == Loaded(u, m)
<1>1. /\ m.at = "load" /\ user' = [user EXCEPT ![u] = me]
      /\ UNCHANGED <<made, head, tail, single, ring, claimed, lapped>>
  BY DEF LoadHead
<1>2. RingTypes /\ SideOf(u) \in RingSides /\ made # 0 /\ m \in UserTypes
  BY <1>1, Sides, UserTyped DEF RingInv, NoRing
<1>3. head[SideOf(u)] \in Int /\ claimed[SideOf(u)] \in Nat
  BY <1>2, PlacesTyped
<1>4. /\ me \in UserTypes /\ me.at = "room" /\ me.old = head[SideOf(u)]
      /\ me.seen = claimed[SideOf(u)] /\ me.single = m.single
  <2> HIDE DEF m
  <2> QED  BY <1>2, <1>3 DEF Loaded, UserTypes
<1> HIDE DEF me
<1>5. ~lapped => Claiming(me, SideOf(u))
  <2>1. ~lapped => head[SideOf(u)] = Mod(Base + claimed[SideOf(u)])
    BY <1>2 DEF RingInv, InStep, Indexes
  <2> QED  BY <1>3, <1>4, <2>1 DEF Claiming
<1>6. \A v \in Fellows(u) : ~me.single /\ ~user[v].single
  BY <1>1, <1>4 DEF RingInv, SinglesAlone, Fellows
<1> QED  BY <1>1, <1>2, <1>4, <1>5, <1>6, OutsideStep

\* It will claim no more than the room it has computed, or goes.
LEMMA LoadRoomStep ==
    ASSUME RingInv, NEW u \in RingUsers, LoadRoom(u)
    PROVE  RingInv'
<1> DEFINE m  == user[u]
           n  == IF m.max <= Room(u) THEN m.max ELSE IF m.fixed THEN 0 ELSE Room(u)
           me == IF n = 0 THEN IdleUser ELSE [m EXCEPT !.at = "move", !.n = n]
<1>1. /\ m.at = "room" /\ user' = [user EXCEPT ![u] = me]
      /\ UNCHANGED <<made, head, tail, single, ring, claimed, lapped>>
  BY DEF LoadRoom
<1>2. RingTypes /\ SideOf(u) \in RingSides /\ made # 0 /\ m \in UserTypes
  BY <1>1, Sides, UserTyped DEF RingInv, NoRing
<1>3. n \in Nat /\ n <= Room(u)
  <2>1. Room(u) \in Nat /\ m.max \in Nat
    BY <1>2, RoomTyped, UserTyped
  <2> QED  BY <2>1
<1> HIDE DEF n
<1>4. CASE n = 0
  <2>1. me = IdleUser /\ me.at = "idle"
    BY <1>4 DEF IdleUser
  <2> HIDE DEF me
  <2>2. Claiming(me, SideOf(u))
    BY <2>1 DEF Claiming
  <2> QED  BY <1>1, <1>2, <2>1, <2>2, IdleUserTyped, OutsideStep
<1>5. CASE n # 0
  <2>1. /\ me \in UserTypes /\ me.at = "move" /\ me.n = n /\ me.old = m.old /\ me.seen = m.seen
        /\ me.single = m.single
    <3>1. me = [m EXCEPT !.at = "move", !.n = n]
      BY <1>5
    <3> HIDE DEF m, me
    <3> QED  BY <1>2, <1>3, <3>1 DEF UserTypes
  <2> HIDE DEF me
  <2>2. \A v \in Fellows(u) : ~me.single /\ ~user[v].single
    BY <1>1, <2>1 DEF RingInv, SinglesAlone, Fellows
  <2>3. ASSUME ~lapped PROVE Claiming(me, SideOf(u))
    <3>1. InStep /\ Claiming(m, SideOf(u))
      BY <2>3 DEF RingInv, InStep
    <3>2. /\ m.old = Mod(Base + m.seen) /\ m.seen <= claimed[SideOf(u)]
          /\ m.single => m.seen = claimed[SideOf(u)]
      BY <1>1, <3>1 DEF Claiming
    <3>3. m.seen = claimed[SideOf(u)] => n <= Space(SideOf(u))
      BY <1>2, <1>3, <3>1, <3>2, RoomIsSpace
    <3>4. n > 0
      BY <1>3, <1>5
    <3> HIDE DEF m
    <3> QED  BY <2>1, <3>2, <3>3, <3>4 DEF Claiming
  <2> QED  BY <1>1, <1>2, <2>1, <2>2, <2>3, OutsideStep
<1> QED  BY <1>4, <1>5

\* Somebody else has moved the head.
LEMMA MoveHeadFailsStep ==
    ASSUME RingInv, NEW u \in RingUsers, MoveHeadFails(u)
    PROVE  RingInv'
<1> DEFINE m  == user[u]
           me == [m EXCEPT !.at = "load", !.n = 0, !.old = 0, !.seen = 0]
<1>1. /\ m.at = "move" /\ UNCHANGED <<made, head, tail, single, ring, claimed, lapped>>
      /\ user' = [user EXCEPT ![u].at = "load", ![u].n = 0, ![u].old = 0, ![u].seen = 0]
  BY DEF MoveHeadFails
<1>2. RingTypes /\ SideOf(u) \in RingSides /\ made # 0 /\ m \in UserTypes
  BY <1>1, Sides, UserTyped DEF RingInv, NoRing
<1>3. user' = [user EXCEPT ![u] = me]
  BY <1>1, <1>2 DEF RingTypes
<1>4. me \in UserTypes /\ me.at = "load" /\ me.single = m.single
  <2>1. PICK zero \in Nat : zero = 0
    OBVIOUS
  <2>2. zero \in Int
    OBVIOUS
  <2>3. me = [m EXCEPT !.at = "load", !.n = zero, !.old = zero, !.seen = zero]
    BY <2>1
  <2> HIDE DEF m, me
  <2> QED  BY <1>2, <2>2, <2>3 DEF UserTypes
<1> HIDE DEF me
<1>5. Claiming(me, SideOf(u))
  BY <1>4 DEF Claiming
<1>6. \A v \in Fellows(u) : ~me.single /\ ~user[v].single
  BY <1>1, <1>4 DEF RingInv, SinglesAlone, Fellows
<1> QED  BY <1>1, <1>2, <1>3, <1>4, <1>5, <1>6, OutsideStep

\* The distance of two wrapped indexes is that of their places, when it is less than a lap.
LEMMA WrapDistance ==
    ASSUME NEW b \in Int, NEW x \in Int, NEW y \in Int, y <= x, x - y < IndexModulus
    PROVE  Mod(Mod(b + x) - Mod(b + y)) = x - y
<1>1. PICK p \in Int : p = b + x
  OBVIOUS
<1>2. PICK q \in Int : q = b + y
  OBVIOUS
<1>3. Mod(Mod(p) - Mod(q)) = Mod(p - q)
  BY WrapSubtract
<1>4. p - q = x - y /\ x - y \in Int /\ 0 <= x - y
  BY <1>1, <1>2
<1>5. Mod(x - y) = x - y
  BY <1>4, WrapSmall
<1> QED  BY <1>1, <1>2, <1>3, <1>4, <1>5

\* A wrapped index goes on by n places.
LEMMA WrapForward ==
    ASSUME NEW b \in Int, NEW x \in Int, NEW n \in Int
    PROVE  Mod(Mod(b + x) + n) = Mod(b + (x + n))
<1>1. PICK p \in Int : p = b + x
  OBVIOUS
<1>2. Mod(Mod(p) + n) = Mod(p + n)
  BY WrapAdd
<1>3. p + n = b + (x + n)
  BY <1>1
<1> QED  BY <1>1, <1>2, <1>3

\* The distance of a wrapped index from its place is the base.
LEMMA BaseOf ==
    ASSUME NEW b \in Int, NEW x \in Int, b = Mod(b)
    PROVE  Mod(Mod(b + x) - x) = b
<1>1. PICK p \in Int : p = b + x
  OBVIOUS
<1>2. PICK d \in Int : d = -x
  OBVIOUS
<1>3. Mod(Mod(p) + d) = Mod(p + d) /\ Mod(p) \in Int
  BY WrapAdd, WrapTyped
<1>4. p + d = b /\ Mod(p) + d = Mod(p) - x
  BY <1>1, <1>2, <1>3
<1> QED  BY <1>1, <1>3, <1>4

\* The base is an index itself.
LEMMA BaseWrapped == ASSUME RingTypes PROVE Base = Mod(Base) /\ Base \in Int
<1>1. PICK x \in Int : x = head["prod"] - claimed["prod"]
  BY PlacesTyped DEF RingSides
<1>2. Mod(x) \in Int /\ 0 <= Mod(x) /\ Mod(x) < IndexModulus
  BY WrapTyped
<1>3. Mod(Mod(x)) = Mod(x)
  BY <1>2, WrapSmall
<1> QED  BY <1>1, <1>2, <1>3 DEF Base

\* The compare-and-exchange of a head, no lap after it was loaded, claims the places from
\* the head on, and no others' places.
LEMMA MoveHeadStep ==
    ASSUME RingInv, NEW u \in RingUsers, MoveHead(u)
    PROVE  RingInv' /\ GoesOn
<1> DEFINE m  == user[u]
           s  == SideOf(u)
           me == [IdleUser EXCEPT !.at = "copy", !.single = m.single, !.n = m.n, !.old = m.old,
                                  !.seen = m.seen]
<1>1. /\ m.at = "move" /\ (m.single \/ head[s] = m.old)
      /\ head' = [head EXCEPT ![s] = Mod(m.old + m.n)]
      /\ claimed' = [claimed EXCEPT ![s] = @ + m.n]
      /\ lapped' = (lapped \/ m.seen # claimed[s])
      /\ user' = [user EXCEPT ![u] = me]
      /\ UNCHANGED <<made, tail, single, ring>>
  BY DEF MoveHead
<1>2. /\ RingTypes /\ s \in RingSides /\ made # 0
      /\ m \in UserTypes /\ m.single \in BOOLEAN /\ m.n \in Nat /\ m.old \in Int /\ m.seen \in Nat
  BY <1>1, Sides, UserTyped DEF RingInv, NoRing
<1>3. /\ me \in UserTypes /\ me.at = "copy" /\ me.single = m.single /\ me.n = m.n
      /\ me.old = m.old /\ me.seen = m.seen /\ me.i = 0
  <2>1. PICK r \in UserTypes : r = IdleUser
    BY IdleUserTyped
  <2>2. r.i = 0
    BY <2>1 DEF IdleUser
  <2>3. me = [r EXCEPT !.at = "copy", !.single = m.single, !.n = m.n, !.old = m.old,
                       !.seen = m.seen]
    BY <2>1
  <2> HIDE DEF m, me
  <2> QED  BY <1>2, <2>2, <2>3 DEF UserTypes
<1> HIDE DEF m, s, me
<1>4. /\ \A v \in RingUsers : user'[v] = IF v = u THEN me ELSE user[v]
      /\ \A t \in RingSides : /\ claimed'[t] = IF t = s THEN claimed[t] + m.n ELSE claimed[t]
                              /\ head'[t] = IF t = s THEN Mod(m.old + m.n) ELSE head[t]
  BY <1>1, <1>2 DEF RingTypes
<1>5. RingTypes'
  <2>1. Mod(m.old + m.n) \in Int
    BY <1>2, WrapTyped
  <2>2. head' \in [RingSides -> Int]
    BY <1>1, <1>2, <2>1 DEF RingTypes
  <2>3. claimed' \in [RingSides -> Nat]
    <3>1. claimed[s] + m.n \in Nat
      BY <1>2, PlacesTyped
    <3> QED  BY <1>1, <1>2, <3>1 DEF RingTypes
  <2>4. user' \in [RingUsers -> UserTypes]
    BY <1>1, <1>2, <1>3 DEF RingTypes
  <2>5. lapped' \in BOOLEAN
    BY <1>1
  <2> QED  BY <1>1, <1>2, <2>2, <2>3, <2>4, <2>5 DEF RingTypes
<1>6. NoRing'
  BY <1>1, <1>2 DEF NoRing
<1>7. SinglesAlone'
  <2>1. \A v \in RingUsers : /\ user'[v].at # "idle" <=> user[v].at # "idle"
                             /\ user'[v].single = user[v].single
    BY <1>1, <1>3, <1>4 DEF m
  <2> QED  BY <2>1 DEF RingInv, SinglesAlone
<1>8. ASSUME ~lapped'
      PROVE  /\ InStep' /\ Base' = Base
             /\ \A t \in RingSides : Published(t) \in Int /\ Published(t)' = Published(t)
  <2> DEFINE H == claimed[s]
  <2>1. ~lapped /\ m.seen = claimed[s] /\ InStep
    BY <1>1, <1>8 DEF RingInv
  <2>2. /\ m.old = Mod(Base + claimed[s]) /\ m.n > 0 /\ m.n <= Space(s)
    BY <1>1, <2>1 DEF InStep, Claiming, m, s
  <2>3. /\ Base \in Int /\ made \in Nat /\ Capacity = made - 1 /\ Capacity \in Int
        /\ claimed["prod"] \in Nat /\ claimed["cons"] \in Nat
        /\ Published("prod") \in Int /\ Published("cons") \in Int
        /\ made < IndexModulus /\ IndexModulus \in Nat
    BY <1>2, PlacesTyped, RingAssumption DEF RingSides, RingTypes
  <2>4. /\ Published("prod") <= claimed["prod"] /\ Published("cons") <= claimed["cons"]
        /\ claimed["cons"] <= Published("prod") /\ claimed["prod"] <= Published("cons") + Capacity
    BY <1>2, <2>1 DEF InStep, InOrder, RingSides
  <2>5. /\ s = "prod" => claimed["prod"] + m.n <= Published("cons") + Capacity
        /\ s = "cons" => claimed["cons"] + m.n <= Published("prod")
    BY <1>2, <2>2, <2>3 DEF Space
  <2>6. /\ Published(s) \in Int /\ H \in Nat /\ Published(s) <= H + m.n
        /\ (H + m.n) - Published(s) < IndexModulus
    BY <1>2, <2>3, <2>4, <2>5 DEF RingSides
  <2>7. Mod(m.old + m.n) = Mod(Base + (H + m.n))
    BY <1>2, <2>2, <2>3, <2>6, WrapForward
  <2>8. \A t \in RingSides : Published(t)' = Published(t)
    <3>1. \A t \in RingSides \ {s} : Published(t)' = Published(t)
      BY <1>1, <1>4 DEF Published
    <3>2. Mod(Mod(Base + (H + m.n)) - Mod(Base + Published(s))) = (H + m.n) - Published(s)
      <4>1. PICK y \in Int : y = H + m.n
        BY <1>2, <2>6
      <4>2. Published(s) <= y /\ y - Published(s) < IndexModulus
        BY <2>6, <4>1
      <4>3. PICK z \in Int : z = Published(s)
        BY <2>6
      <4>4. z <= y /\ y - z < IndexModulus /\ Base \in Int
        BY <2>3, <4>2, <4>3
      <4>5. Mod(Mod(Base + y) - Mod(Base + z)) = y - z
        BY <4>4, WrapDistance
      <4> QED  BY <4>1, <4>3, <4>5
    <3>3. tail[s] = Mod(Base + Published(s))
      BY <1>2, <2>1 DEF InStep, Indexes
    <3>4. Published(s)' = (H + m.n) - ((H + m.n) - Published(s))
      <4>1. Published(s)' = claimed'[s] - Mod(head'[s] - tail'[s])
        BY <1>1 DEF Published, s
      <4> QED  BY <1>1, <1>2, <1>4, <2>7, <3>2, <3>3, <4>1
    <3>5. Published(s)' = Published(s)
      BY <1>2, <2>6, <3>4
    <3> QED  BY <3>1, <3>5
  <2>9. Base' = Base
    <3>1. CASE s = "cons"
      BY <1>4, <3>1 DEF Base, RingSides
    <3>2. CASE s = "prod"
      <4>1. Mod(Mod(Base + (H + m.n)) - (H + m.n)) = Base
        <5>1. H + m.n \in Int
          BY <1>2, <2>6
        <5> HIDE DEF H
        <5> QED  BY <1>2, <5>1, BaseOf, BaseWrapped
      <4> QED  BY <1>2, <1>4, <2>7, <3>2, <4>1 DEF Base
    <3> QED  BY <1>2, <3>1, <3>2 DEF RingSides
  <2>10. Indexes'
    BY <1>1, <1>2, <1>4, <2>1, <2>7, <2>8, <2>9 DEF InStep, Indexes
  <2>11. InOrder'
    <3>1. Capacity' = Capacity
      BY <1>1 DEF Capacity
    <3>2. \A t \in RingSides : Published(t) <= claimed'[t]
      <4>1. \A t \in RingSides : t = "prod" \/ t = "cons"
        BY DEF RingSides
      <4> QED  BY <1>2, <1>4, <2>3, <2>4, <4>1
    <3>3. claimed'["cons"] <= Published("prod") /\ claimed'["prod"] <= Published("cons") + Capacity
      <4>1. "cons" \in RingSides /\ "prod" \in RingSides
        BY DEF RingSides
      <4> QED  BY <1>4, <2>4, <2>5, <4>1
    <3> QED  BY <2>8, <3>1, <3>2, <3>3 DEF InOrder, RingSides
  <2>12. ASSUME NEW v \in RingUsers
         PROVE  (Claiming(user[v], SideOf(v)) /\ Copying(user[v], SideOf(v)))'
    <3>1. /\ SideOf(v) \in RingSides /\ Claiming(user[v], SideOf(v)) /\ Copying(user[v], SideOf(v))
          /\ user[v].seen \in Nat /\ user[v].n \in Nat /\ user[v].old \in Int
          /\ claimed[SideOf(v)] \in Nat
      BY <1>2, <2>1, Sides, UserTyped, PlacesTyped DEF InStep
    <3>2. CASE v = u
      <4>1. /\ user'[v].at = "copy" /\ user'[v].n = m.n /\ user'[v].i = 0
            /\ user'[v].old = m.old /\ user'[v].seen = m.seen /\ SideOf(v) = s
        BY <1>3, <1>4, <3>2 DEF s
      <4>2. claimed'[SideOf(v)] = H + m.n /\ Published(SideOf(v))' = Published(s)
        BY <1>2, <1>4, <2>8, <4>1
      <4>3. Copying(user[v], SideOf(v))'
        <5> HIDE DEF H
        <5>1. m.seen = H /\ m.old = Mod(Base + H) /\ Published(s) <= H
          BY <1>2, <2>1, <2>2, <2>4 DEF H, RingSides
        <5>2. 0 <= m.n /\ Published(s) <= m.seen /\ m.seen + m.n <= H + m.n
          BY <1>2, <2>6, <5>1
        <5> QED  BY <2>2, <2>9, <4>1, <4>2, <5>1, <5>2 DEF Copying
      <4>4. Claiming(user[v], SideOf(v))'
        BY <4>1 DEF Claiming
      <4> QED  BY <4>3, <4>4
    <3>3. CASE v # u /\ SideOf(v) = s
      <4>1. user'[v] = user[v] /\ claimed'[SideOf(v)] = H + m.n
        BY <1>4, <3>1, <3>3
      <4>2. user[v].at # "idle" => ~user[v].single
        BY <1>1, <3>3 DEF RingInv, SinglesAlone, s, m
      <4>3. Claiming(user[v], SideOf(v))'
        BY <1>2, <2>2, <2>9, <3>1, <3>3, <4>1, <4>2 DEF Claiming
      <4>4. Copying(user[v], SideOf(v))'
        BY <1>2, <2>2, <2>8, <2>9, <3>1, <3>3, <4>1 DEF Copying
      <4> QED  BY <4>3, <4>4
    <3>4. CASE SideOf(v) # s
      <4>1. user'[v] = user[v] /\ claimed'[SideOf(v)] = claimed[SideOf(v)]
        BY <1>4, <3>1, <3>4 DEF s
      <4>2. Space(SideOf(v))' = Space(SideOf(v))
        BY <1>1, <1>2, <1>4, <2>8, <3>1, <3>4, <4>1 DEF Space, RingSides, Capacity
      <4> QED  BY <2>8, <2>9, <3>1, <4>1, <4>2 DEF Claiming, Copying
    <3> QED  BY <3>2, <3>3, <3>4
  <2>13. /\ \A v \in RingUsers \ {u} : \A x \in Int : Claims(v, x)' <=> Claims(v, x)
         /\ \A x \in Int : ~Claims(u, x)
         /\ \A x \in Int : Claims(u, x)' <=> (H <= x /\ x < H + m.n)
    BY <1>1, <1>3, <1>4, <2>1 DEF Claims, m
  <2>14. Partition'
    <3>1. \A v \in RingUsers : \A x \in Int : SideOf(v) = s /\ Claims(v, x) => x < H
      <4>1. SUFFICES ASSUME NEW v \in RingUsers, NEW x \in Int, SideOf(v) = s, Claims(v, x)
                     PROVE  x < H
        OBVIOUS
      <4>2. user[v].seen + user[v].n <= H /\ user[v].seen \in Nat /\ user[v].n \in Nat
        BY <1>2, <2>1, <4>1, UserTyped DEF InStep, Copying, Claims
      <4> QED  BY <2>6, <4>1, <4>2 DEF Claims
    <3>2. ASSUME NEW v \in RingUsers, NEW w \in RingUsers, NEW x \in Int,
                 SideOf(v) = SideOf(w), Claims(v, x)', Claims(w, x)'
          PROVE  v = w
      <4>1. CASE v # u /\ w # u
        BY <2>1, <2>13, <3>2, <4>1 DEF InStep, Partition
      <4>2. CASE v = u /\ w # u
        BY <2>6, <2>13, <3>1, <3>2, <4>2 DEF s
      <4>3. CASE v # u /\ w = u
        BY <2>6, <2>13, <3>1, <3>2, <4>3 DEF s
      <4> QED  BY <4>1, <4>2, <4>3
    <3>3. ASSUME NEW t \in RingSides, NEW x \in Int, Published(t) <= x, x < claimed'[t]
          PROVE  \E v \in RingUsers : SideOf(v) = t /\ Claims(v, x)'
      <4>1. CASE x < claimed[t]
        <5>1. PICK v \in RingUsers : SideOf(v) = t /\ Claims(v, x)
          BY <2>1, <3>3, <4>1 DEF InStep, Partition
        <5>2. v # u
          BY <2>13, <5>1
        <5> QED  BY <2>13, <5>1, <5>2
      <4>2. CASE ~(x < claimed[t])
        <5>1. t = s
          BY <1>4, <3>3, <4>2
        <5>2. H <= x /\ x < H + m.n
          BY <1>4, <2>6, <3>3, <4>2, <5>1
        <5> QED  BY <2>13, <5>1, <5>2 DEF s
      <4> QED  BY <4>1, <4>2
    <3> QED  BY <2>8, <3>2, <3>3 DEF Partition
  <2>15. PlacesWritten'
    <3>1. \A x : Cell(x)' = Cell(x)
      BY <1>1 DEF Cell
    <3>2. \A v \in Producers : v \in RingUsers
      BY Sides
    <3>3. ASSUME NEW v \in Producers, NEW x \in Int, Claims(v, x)', x < user'[v].seen + user'[v].i
          PROVE  ring[Cell(Base + x)] = x
      <4>1. CASE v = u
        <5>1. x < m.seen + 0
          BY <1>3, <1>4, <3>2, <3>3, <4>1
        <5> QED  BY <1>2, <2>1, <2>13, <3>3, <4>1, <5>1
      <4>2. CASE v # u
        BY <1>4, <2>1, <2>13, <3>2, <3>3, <4>2 DEF InStep, PlacesWritten
      <4> QED  BY <4>1, <4>2
    <3>4. \A x \in Int : Published("cons") <= x /\ x < Published("prod") => ring[Cell(Base + x)] = x
      BY <2>1 DEF InStep, PlacesWritten
    <3> QED  BY <1>1, <2>8, <2>9, <3>1, <3>3, <3>4 DEF PlacesWritten, RingSides
  <2>16. \A t \in RingSides : Published(t) \in Int
    BY <2>3 DEF RingSides
  <2> QED  BY <2>8, <2>9, <2>10, <2>11, <2>12, <2>14, <2>15, <2>16 DEF InStep
<1>9. GoesOn
  <2>1. SUFFICES ASSUME ~lapped', NEW t \in RingSides
                 PROVE  /\ Base' = Base /\ Published(t) \in Int /\ Published(t)' \in Int
                        /\ Published(t) <= Published(t)'
    BY <1>8 DEF GoesOn
  <2>2. PICK x \in Int : x = Published(t)
    BY <1>8, <2>1
  <2> QED  BY <1>8, <2>1, <2>2
<1> QED  BY <1>5, <1>6, <1>7, <1>8, <1>9 DEF RingInv

\* Going on by i places before or after wrapping leads to the same cell.
LEMMA CellForward ==
    ASSUME made \in Nat \ {0}, IndexModulus % made = 0, NEW x \in Int, NEW i \in Int
    PROVE  Cell(Mod(x) + i) = Cell(x + i)
<1>1. PICK y \in Int : y = Mod(x) + i
  BY WrapTyped
<1>2. PICK z \in Int : z = x + i
  OBVIOUS
<1>3. Cell(Mod(y)) = Cell(y) /\ Cell(Mod(z)) = Cell(z)
  BY CellOfWrapped
<1>4. Mod(y) = Mod(z)
  BY <1>1, <1>2, WrapAdd
<1> QED  BY <1>1, <1>2, <1>3, <1>4

\* A masked place is a cell.
LEMMA CellTyped ==
    ASSUME made \in Nat \ {0}, NEW x \in Int
    PROVE  Cell(x) \in 0 .. made - 1
<1>1. Cell(x) \in Int /\ 0 <= Cell(x) /\ Cell(x) < made
  BY Quotient DEF Cell
<1> QED  BY <1>1

\* A producer writes where neither a published object nor another's claim is.
LEMMA CopyPointerStep ==
    ASSUME RingInv, NEW u \in RingUsers, CopyPointer(u)
    PROVE  RingInv'
<1> DEFINE m  == user[u]
           x0 == m.seen + m.i
           me == [m EXCEPT !.i = m.i + 1]
<1>1. /\ m.at = "copy" /\ m.i < m.n
      /\ user' = [user EXCEPT ![u].i = m.i + 1]
      /\ ring' = IF u \in Producers THEN [ring EXCEPT ![Cell(m.old + m.i)] = x0] ELSE ring
      /\ UNCHANGED <<made, head, tail, single, claimed, lapped>>
  BY DEF CopyPointer
<1>2. /\ RingTypes /\ made # 0 /\ m \in UserTypes
      /\ m.n \in Nat /\ m.i \in Nat /\ m.old \in Int /\ m.seen \in Nat
  BY <1>1, UserTyped DEF RingInv, NoRing
<1>3. user' = [user EXCEPT ![u] = me]
  BY <1>1, <1>2 DEF RingTypes
<1>4. /\ me \in UserTypes /\ me.at = m.at /\ me.single = m.single /\ me.n = m.n
      /\ me.old = m.old /\ me.seen = m.seen /\ me.i = m.i + 1
  <2>1. PICK j \in Nat : j = m.i + 1
    BY <1>2
  <2>2. me = [m EXCEPT !.i = j]
    BY <2>1
  <2> HIDE DEF m, me
  <2> QED  BY <1>2, <2>1, <2>2 DEF UserTypes
<1> HIDE DEF m, me
<1>5. \A v \in RingUsers :
          /\ user'[v].at = user[v].at /\ user'[v].single = user[v].single
          /\ user'[v].n = user[v].n /\ user'[v].old = user[v].old /\ user'[v].seen = user[v].seen
          /\ user'[v].i = IF v = u THEN m.i + 1 ELSE user[v].i
  <2>1. SUFFICES ASSUME NEW v \in RingUsers
                 PROVE  /\ user'[v].at = user[v].at /\ user'[v].single = user[v].single
                        /\ user'[v].n = user[v].n /\ user'[v].old = user[v].old
                        /\ user'[v].seen = user[v].seen
                        /\ user'[v].i = IF v = u THEN m.i + 1 ELSE user[v].i
    BY Zenon
  <2>2. user'[v] = IF v = u THEN me ELSE user[v]
    BY <1>2, <1>3 DEF RingTypes
  <2>3. CASE v = u
    BY <1>4, <2>2, <2>3 DEF m
  <2>4. CASE v # u
    BY <2>2, <2>4
  <2> QED  BY <2>3, <2>4
<1>6. made \in Nat \ {0} /\ IndexModulus % made = 0 /\ ring \in [0 .. made - 1 -> Int]
  BY <1>2 DEF RingTypes
<1>7. RingTypes'
  <2>1. user' \in [RingUsers -> UserTypes]
    BY <1>2, <1>3, <1>4 DEF RingTypes
  <2>2. ring' \in [0 .. made - 1 -> Int]
    <3>1. x0 \in Int
      BY <1>2
    <3> HIDE DEF x0
    <3> QED  BY <1>1, <1>6, <3>1
  <2> QED  BY <1>1, <1>2, <2>1, <2>2 DEF RingTypes
<1>8. NoRing'
  BY <1>1, <1>2 DEF NoRing
<1>9. SinglesAlone'
  BY <1>5 DEF RingInv, SinglesAlone
<1>10. ASSUME ~lapped' PROVE InStep'
  <2>1. ~lapped /\ InStep
    BY <1>1, <1>10 DEF RingInv
  <2>2. Base' = Base /\ Capacity' = Capacity /\ (\A t : Published(t)' = Published(t) /\ Space(t)' = Space(t))
        /\ \A x : Cell(x)' = Cell(x)
    BY <1>1 DEF Base, Published, Space, Capacity, Cell
  <2>3. Indexes' /\ InOrder'
    BY <1>1, <2>1, <2>2 DEF InStep, Indexes, InOrder
  <2>4. \A v \in RingUsers : (Claiming(user[v], SideOf(v)) /\ Copying(user[v], SideOf(v)))'
    <3>1. SUFFICES ASSUME NEW v \in RingUsers
                   PROVE  (Claiming(user[v], SideOf(v)) /\ Copying(user[v], SideOf(v)))'
      OBVIOUS
    <3>2. Claiming(user[v], SideOf(v)) /\ Copying(user[v], SideOf(v))
      BY <2>1 DEF InStep
    <3>3. user'[v].at = "copy" => user'[v].i <= user'[v].n
      BY <1>1, <1>2, <1>5, <3>2 DEF Copying, m
    <3> QED  BY <1>1, <1>5, <2>2, <3>2, <3>3 DEF Claiming, Copying
  <2>5. \A v \in RingUsers : \A x : Claims(v, x)' <=> Claims(v, x)
    BY <1>5 DEF Claims
  <2>6. Partition'
    BY <1>1, <2>1, <2>2, <2>5 DEF InStep, Partition
  <2>7. PlacesWritten'
    <3>1. CASE u \notin Producers
      <4>1. \A v \in Producers : v \in RingUsers /\ v # u
        BY <3>1, Sides
      <4> QED  BY <1>1, <1>5, <2>1, <2>2, <2>5, <3>1, <4>1 DEF InStep, PlacesWritten
    <3>2. CASE u \in Producers
      <4>1. /\ Base \in Int /\ Capacity = made - 1
            /\ claimed["prod"] \in Int /\ Published("prod") \in Int /\ Published("cons") \in Int
            /\ claimed["cons"] \in Int /\ SideOf(u) = "prod"
        BY <1>2, <3>2, PlacesTyped, Sides DEF RingSides
      <4>2. /\ m.old = Mod(Base + m.seen)
            /\ Published("prod") <= m.seen /\ m.seen + m.n <= claimed["prod"]
        BY <1>1, <2>1, <4>1 DEF InStep, Copying, m
      <4>3. /\ claimed["prod"] <= Published("cons") + (made - 1)
            /\ Published("cons") <= Published("prod")
        <5>1. /\ Published("cons") <= claimed["cons"] /\ claimed["cons"] <= Published("prod")
              /\ claimed["prod"] <= Published("cons") + Capacity
          BY <1>2, <2>1 DEF InStep, InOrder, RingSides
        <5> QED  BY <4>1, <5>1
      <4>4. x0 \in Int /\ Published("prod") <= x0 /\ x0 < claimed["prod"] /\ Claims(u, x0)
        BY <1>1, <1>2, <4>1, <4>2 DEF Claims, m
      <4>5. Cell(m.old + m.i) = Cell(Base + x0)
        <5>1. PICK b \in Int : b = Base + m.seen
          BY <1>2, <4>1
        <5>2. Cell(Mod(b) + m.i) = Cell(b + m.i)
          <6>1. m.i \in Int
            BY <1>2
          <6> QED  BY <1>6, <6>1, CellForward
        <5>3. b + m.i = Base + x0
          BY <1>2, <4>1, <5>1
        <5> QED  BY <4>2, <5>1, <5>2, <5>3
      <4>6. Cell(Base + x0) \in 0 .. made - 1 /\ ring'[Cell(Base + x0)] = x0
        <5>1. PICK b \in Int : b = Base + x0
          BY <4>1, <4>4
        <5>2. Cell(b) \in 0 .. made - 1
          BY <1>6, CellTyped
        <5> HIDE DEF x0
        <5> QED  BY <1>1, <1>6, <3>2, <4>5, <5>1, <5>2
      <4>7. ASSUME NEW x \in Int, x # x0, Published("cons") <= x, x < claimed["prod"]
            PROVE  ring'[Cell(Base + x)] = ring[Cell(Base + x)]
        <5>1. PICK b \in Int : b = Base + x0
          BY <4>1, <4>4
        <5>2. PICK c \in Int : c = Base + x
          BY <4>1
        <5>3. Cell(b) # Cell(c)
          <6>1. CASE x < x0
            <7>1. c < b /\ b < c + made
              <8> HIDE DEF x0
              <8>1. x0 \in Int /\ made \in Int /\ Published("cons") <= x0
                BY <1>6, <4>1, <4>3, <4>4
              <8>2. Base + x < Base + x0 /\ Base + x0 < (Base + x) + made
                BY <4>1, <4>3, <4>4, <4>7, <6>1, <8>1, LessThanARound
              <8> QED  BY <5>1, <5>2, <8>2
            <7> QED  BY <1>6, <7>1, CellsDiffer
          <6>2. CASE x0 < x
            <7>1. b < c /\ c < b + made
              <8> HIDE DEF x0
              <8>1. x0 \in Int /\ made \in Int /\ Published("cons") <= x0
                BY <1>6, <4>1, <4>3, <4>4
              <8>2. Base + x0 < Base + x /\ Base + x < (Base + x0) + made
                BY <4>1, <4>3, <4>4, <4>7, <6>2, <8>1, LessThanARound
              <8> QED  BY <5>1, <5>2, <8>2
            <7> QED  BY <1>6, <7>1, CellsDiffer
          <6> QED  BY <4>4, <4>7, <6>1, <6>2
        <5>4. Cell(c) \in 0 .. made - 1
          BY <1>6, CellTyped
        <5> HIDE DEF x0
        <5> QED  BY <1>1, <1>6, <3>2, <4>5, <5>1, <5>2, <5>3, <5>4
      <4>8. \A x \in Int : Published("cons") <= x /\ x < Published("prod") => ring'[Cell(Base + x)] = x
        <5>1. SUFFICES ASSUME NEW x \in Int, Published("cons") <= x, x < Published("prod")
                       PROVE  ring'[Cell(Base + x)] = x
          OBVIOUS
        <5>2. x # x0 /\ x < claimed["prod"]
          BY <4>1, <4>4, <5>1
        <5>3. ring[Cell(Base + x)] = x
          BY <2>1, <5>1 DEF InStep, PlacesWritten
        <5> QED  BY <4>7, <5>1, <5>2, <5>3
      <4>9. ASSUME NEW v \in Producers, NEW x \in Int, Claims(v, x), x < user'[v].seen + user'[v].i
            PROVE  ring'[Cell(Base + x)] = x
        <5>1. v \in RingUsers /\ SideOf(v) = "prod"
          BY Sides
        <5>2. CASE x = x0
          BY <4>6, <5>2
        <5>3. CASE x # x0
          <6>1. x < user[v].seen + user[v].i
            <7>1. CASE v = u
              BY <1>2, <1>5, <4>9, <5>1, <5>3, <7>1 DEF m
            <7>2. CASE v # u
              BY <1>5, <4>9, <5>1, <7>2
            <7> QED  BY <7>1, <7>2
          <6>2. ring[Cell(Base + x)] = x
            BY <2>1, <4>9, <6>1 DEF InStep, PlacesWritten
          <6>3. Published("prod") <= x /\ x < claimed["prod"]
            <7>1. /\ user[v].seen \in Int /\ user[v].n \in Int
                  /\ Published("prod") <= user[v].seen /\ user[v].seen + user[v].n <= claimed["prod"]
                  /\ user[v].seen <= x /\ x < user[v].seen + user[v].n
              BY <1>2, <2>1, <4>9, <5>1, UserTyped DEF InStep, Copying, Claims
            <7> QED  BY <4>1, <7>1
          <6>4. Published("cons") <= x
            BY <4>1, <4>3, <6>3
          <6> QED  BY <4>7, <5>3, <6>2, <6>3, <6>4
        <5> QED  BY <5>2, <5>3
      <4>10. \A v \in Producers : v \in RingUsers
        BY Sides
      <4> QED  BY <2>2, <2>5, <4>8, <4>9, <4>10 DEF PlacesWritten
    <3> QED  BY <3>1, <3>2
  <2> QED  BY <2>3, <2>4, <2>6, <2>7 DEF InStep
<1> QED  BY <1>7, <1>8, <1>9, <1>10 DEF RingInv

\* Who publishes has its claim next to the tail: it has waited, or it is alone.
LEMMA TailIsNext ==
    ASSUME RingInv, ~lapped, NEW u \in RingUsers, UpdateTail(u)
    PROVE  Published(SideOf(u)) = user[u].seen
<1> DEFINE m == user[u]
           s == SideOf(u)
<1>1. m.at = "copy" /\ (m.single \/ tail[s] = m.old)
  BY DEF UpdateTail, Publish
<1>2. /\ RingTypes /\ InStep /\ s \in RingSides /\ made # 0
      /\ Base \in Int /\ Published(s) \in Int /\ claimed[s] \in Int
      /\ m.n \in Nat /\ m.seen \in Nat
  BY <1>1, Sides, UserTyped, PlacesTyped DEF RingInv, NoRing
<1>3. /\ m.old = Mod(Base + m.seen) /\ m.n > 0
      /\ Published(s) <= m.seen /\ m.seen + m.n <= claimed[s]
  BY <1>1, <1>2 DEF InStep, Copying
<1>4. CASE m.single
  <2>1. PICK w \in RingUsers : SideOf(w) = s /\ Claims(w, Published(s))
    <3>1. Published(s) < claimed[s]
      BY <1>2, <1>3
    <3> QED  BY <1>2, <3>1 DEF InStep, Partition
  <2>2. w = u
    BY <1>1, <1>4, <2>1 DEF RingInv, SinglesAlone, Claims
  <2>3. m.seen <= Published(s)
    BY <2>1, <2>2 DEF Claims
  <2> QED  BY <1>2, <1>3, <2>3
<1>5. CASE tail[s] = m.old
  <2>1. tail[s] = Mod(Base + Published(s))
    BY <1>2 DEF InStep, Indexes
  <2>2. m.seen - Published(s) < IndexModulus
    <3>1. claimed[s] - Published(s) <= Capacity /\ Capacity < IndexModulus /\ Capacity \in Int
      <4>1. /\ Published("prod") \in Int /\ Published("cons") \in Int /\ claimed["prod"] \in Int
            /\ claimed["cons"] \in Int /\ Capacity \in Int /\ Capacity = made - 1
            /\ made \in Nat /\ made < IndexModulus
        BY <1>2, PlacesTyped DEF RingSides, RingTypes
      <4>2. /\ Published("prod") <= claimed["prod"] /\ Published("cons") <= claimed["cons"]
            /\ claimed["cons"] <= Published("prod") /\ claimed["prod"] <= Published("cons") + Capacity
        BY <1>2 DEF InStep, InOrder, RingSides
      <4>3. s = "prod" \/ s = "cons"
        BY <1>2 DEF RingSides
      <4> QED  BY <4>1, <4>2, <4>3, RingAssumption
    <3> QED  BY <1>2, <1>3, <3>1, RingAssumption
  <2>3. Mod(Mod(Base + m.seen) - Mod(Base + Published(s))) = m.seen - Published(s)
    <3>1. PICK p \in Int : p = Published(s)
      BY <1>2
    <3>2. PICK q \in Int : q = m.seen
      BY <1>2
    <3>3. p <= q /\ q - p < IndexModulus
      BY <1>3, <2>2, <3>1, <3>2
    <3>4. Mod(Mod(Base + q) - Mod(Base + p)) = q - p
      BY <1>2, <3>3, WrapDistance
    <3> QED  BY <3>1, <3>2, <3>4
  <2>4. PICK x \in Int : x = Mod(Base + Published(s))
    <3>1. PICK y \in Int : y = Base + Published(s)
      BY <1>2
    <3> QED  BY <3>1, WrapTyped
  <2>5. x - x = 0 /\ Mod(0) = 0
    BY RingAssumption, WrapSmall
  <2>6. m.seen - Published(s) = 0
    BY <1>3, <1>5, <2>1, <2>3, <2>4, <2>5
  <2> QED  BY <1>2, <2>6
<1> QED  BY <1>1, <1>4, <1>5

\* What a producer publishes it has written; what a consumer gives back nobody needs.
LEMMA UpdateTailStep ==
    ASSUME RingInv, NEW u \in RingUsers, UpdateTail(u)
    PROVE  RingInv' /\ GoesOn
<1> DEFINE m == user[u]
           s == SideOf(u)
<1>1. /\ m.at = "copy" /\ m.i = m.n
      /\ tail' = [tail EXCEPT ![s] = Mod(m.old + m.n)]
      /\ user' = [user EXCEPT ![u] = IdleUser]
      /\ UNCHANGED <<made, head, single, ring, claimed, lapped>>
  BY DEF UpdateTail, Publish
<1>2. /\ RingTypes /\ s \in RingSides /\ made # 0
      /\ m.n \in Nat /\ m.old \in Int /\ m.seen \in Nat
  BY <1>1, Sides, UserTyped DEF RingInv, NoRing
<1> HIDE DEF m, s
<1>3. /\ \A v \in RingUsers : user'[v] = IF v = u THEN IdleUser ELSE user[v]
      /\ \A t \in RingSides : tail'[t] = IF t = s THEN Mod(m.old + m.n) ELSE tail[t]
      /\ IdleUser.at = "idle"
  BY <1>1, <1>2 DEF RingTypes, IdleUser
<1>4. RingTypes'
  <2>1. Mod(m.old + m.n) \in Int
    BY <1>2, WrapTyped
  <2>2. tail' \in [RingSides -> Int]
    BY <1>1, <1>2, <2>1 DEF RingTypes
  <2>3. user' \in [RingUsers -> UserTypes]
    BY <1>1, <1>2, IdleUserTyped DEF RingTypes
  <2> QED  BY <1>1, <1>2, <2>2, <2>3 DEF RingTypes
<1>5. NoRing'
  BY <1>1, <1>2 DEF NoRing
<1>6. SinglesAlone'
  BY <1>3 DEF RingInv, SinglesAlone
<1>7. ASSUME ~lapped'
      PROVE  /\ InStep' /\ Base' = Base
             /\ \A t \in RingSides : /\ Published(t) \in Int /\ Published(t)' \in Int
                                     /\ Published(t) <= Published(t)'
  <2>1. ~lapped /\ InStep
    BY <1>1, <1>7 DEF RingInv
  <2>2. Published(s) = m.seen
    BY <2>1, TailIsNext DEF m, s
  <2>3. /\ m.old = Mod(Base + m.seen) /\ m.n > 0 /\ m.seen + m.n <= claimed[s]
    BY <1>1, <2>1 DEF InStep, Copying, m, s
  <2>4. /\ Base \in Int /\ made \in Nat /\ Capacity = made - 1 /\ Capacity \in Int
        /\ claimed["prod"] \in Nat /\ claimed["cons"] \in Nat
        /\ Published("prod") \in Int /\ Published("cons") \in Int
        /\ made < IndexModulus /\ IndexModulus \in Nat
    BY <1>2, PlacesTyped, RingAssumption DEF RingSides, RingTypes
  <2>5. /\ Published("prod") <= claimed["prod"] /\ Published("cons") <= claimed["cons"]
        /\ claimed["cons"] <= Published("prod") /\ claimed["prod"] <= Published("cons") + Capacity
    BY <1>2, <2>1 DEF InStep, InOrder, RingSides
  <2>6. s = "prod" \/ s = "cons"
    BY <1>2 DEF RingSides
  <2>7. claimed[s] \in Nat /\ claimed[s] - (m.seen + m.n) < IndexModulus
    BY <1>2, <2>2, <2>3, <2>4, <2>5, <2>6
  <2>8. Base' = Base /\ Capacity' = Capacity /\ \A x : Cell(x)' = Cell(x)
    BY <1>1 DEF Base, Capacity, Cell
  <2>9. Mod(m.old + m.n) = Mod(Base + (m.seen + m.n))
    <3>1. m.seen \in Int /\ m.n \in Int
      BY <1>2
    <3> QED  BY <2>3, <2>4, <3>1, WrapForward
  <2>10. \A t \in RingSides : Published(t)' = IF t = s THEN m.seen + m.n ELSE Published(t)
    <3>1. \A t \in RingSides \ {s} : Published(t)' = Published(t)
      BY <1>1, <1>3 DEF Published
    <3>2. PICK y \in Int : y = m.seen + m.n
      BY <1>2
    <3>3. Mod(Mod(Base + claimed[s]) - Mod(Base + y)) = claimed[s] - y
      <4>1. claimed[s] \in Int /\ y <= claimed[s] /\ claimed[s] - y < IndexModulus
        BY <2>3, <2>7, <3>2
      <4>2. PICK x \in Int : x = claimed[s]
        BY <4>1
      <4>3. y <= x /\ x - y < IndexModulus /\ Base \in Int
        BY <2>4, <4>1, <4>2
      <4>4. Mod(Mod(Base + x) - Mod(Base + y)) = x - y
        BY <4>3, WrapDistance
      <4> QED  BY <4>2, <4>4
    <3>4. head[s] = Mod(Base + claimed[s])
      BY <1>2, <2>1 DEF InStep, Indexes
    <3>5. Published(s)' = claimed[s] - (claimed[s] - y)
      <4>1. Published(s)' = claimed'[s] - Mod(head'[s] - tail'[s])
        BY <1>1 DEF Published, s
      <4> QED  BY <1>1, <1>2, <1>3, <2>9, <3>2, <3>3, <3>4, <4>1
    <3>6. Published(s)' = m.seen + m.n
      BY <2>7, <3>2, <3>5
    <3> QED  BY <3>1, <3>6
  <2>11. Indexes'
    BY <1>1, <1>2, <1>3, <2>1, <2>8, <2>9, <2>10 DEF InStep, Indexes
  <2>12. /\ "prod" \in RingSides /\ "cons" \in RingSides
         /\ \A t \in RingSides : /\ Published(t)' \in Int /\ Published(t) <= Published(t)'
                                 /\ Published(t)' <= claimed[t]
    <3>1. \A t \in RingSides : t = "prod" \/ t = "cons"
      BY DEF RingSides
    <3>2. m.seen <= m.seen + m.n /\ m.seen + m.n \in Int
      BY <1>2
    <3> QED  BY <2>2, <2>3, <2>4, <2>5, <2>10, <3>1, <3>2 DEF RingSides
  <2>13. InOrder'
    <3>1. claimed["cons"] <= Published("prod")' /\ claimed["prod"] <= Published("cons")' + Capacity
      BY <2>4, <2>5, <2>12
    <3> QED  BY <1>1, <2>8, <2>12, <3>1 DEF InOrder
  <2>14. \A v \in RingUsers \ {u} : \A x \in Int : Claims(v, x)' <=> Claims(v, x)
    BY <1>3 DEF Claims
  <2>15. /\ \A x \in Int : ~Claims(u, x)'
         /\ \A x \in Int : Claims(u, x) <=> (m.seen <= x /\ x < m.seen + m.n)
    BY <1>1, <1>3 DEF Claims, m
  <2>16. ASSUME NEW v \in RingUsers
         PROVE  (Claiming(user[v], SideOf(v)) /\ Copying(user[v], SideOf(v)))'
    <3>1. /\ SideOf(v) \in RingSides /\ Claiming(user[v], SideOf(v)) /\ Copying(user[v], SideOf(v))
          /\ user[v].seen \in Nat /\ user[v].n \in Nat /\ claimed[SideOf(v)] \in Nat
      BY <1>2, <2>1, Sides, UserTyped, PlacesTyped DEF InStep
    <3>2. CASE v = u
      BY <1>3, <3>2 DEF Claiming, Copying
    <3>3. CASE v # u
      <4>1. user'[v] = user[v] /\ claimed' = claimed
        BY <1>1, <1>3, <3>3
      <4>2. /\ Space(SideOf(v)) \in Int /\ Space(SideOf(v))' \in Int
            /\ Space(SideOf(v)) <= Space(SideOf(v))'
        BY <2>4, <2>8, <2>12, <4>1 DEF Space
      <4>3. Claiming(user[v], SideOf(v))'
        BY <2>8, <3>1, <4>1, <4>2 DEF Claiming
      <4>4. user[v].at = "copy" => Published(SideOf(v))' <= user[v].seen
        <5>1. CASE SideOf(v) # s
          BY <2>10, <3>1, <5>1 DEF Copying
        <5>2. CASE SideOf(v) = s /\ user[v].at = "copy"
          <6>1. user[v].n > 0 /\ m.seen <= user[v].seen
            BY <2>2, <3>1, <5>2 DEF Copying
          <6>2. ~(user[v].seen < m.seen + m.n)
            <7>1. SUFFICES ASSUME user[v].seen < m.seen + m.n PROVE FALSE
              OBVIOUS
            <7>2. user[v].seen \in Int /\ Claims(v, user[v].seen)
              BY <3>1, <5>2, <6>1 DEF Claims
            <7>3. Claims(u, user[v].seen)
              BY <2>15, <6>1, <7>1, <7>2
            <7> QED  BY <2>1, <3>3, <5>2, <7>2, <7>3 DEF InStep, Partition, s
          <6> QED  BY <1>2, <2>10, <3>1, <5>2, <6>2
        <5> QED  BY <5>1, <5>2
      <4>5. Copying(user[v], SideOf(v))'
        BY <2>8, <3>1, <4>1, <4>4 DEF Copying
      <4> QED  BY <4>3, <4>5
    <3> QED  BY <3>2, <3>3
  <2>17. Partition'
    <3>1. ASSUME NEW v \in RingUsers, NEW w \in RingUsers, NEW x \in Int,
                 SideOf(v) = SideOf(w), Claims(v, x)', Claims(w, x)'
          PROVE  v = w
      BY <2>1, <2>14, <2>15, <3>1 DEF InStep, Partition
    <3>2. ASSUME NEW t \in RingSides, NEW x \in Int, Published(t)' <= x, x < claimed[t]
          PROVE  \E v \in RingUsers : SideOf(v) = t /\ Claims(v, x)'
      <4>1. Published(t) <= x
        <5>1. Published(t) \in Int
          BY <1>2, PlacesTyped
        <5> QED  BY <2>12, <3>2, <5>1
      <4>2. PICK v \in RingUsers : SideOf(v) = t /\ Claims(v, x)
        BY <2>1, <3>2, <4>1 DEF InStep, Partition
      <4>3. v # u
        <5>1. SUFFICES ASSUME v = u PROVE FALSE
          OBVIOUS
        <5>2. t = s /\ x < m.seen + m.n
          BY <2>15, <4>2, <5>1 DEF s
        <5> QED  BY <1>2, <2>10, <3>2, <5>2
      <4> QED  BY <2>14, <4>2, <4>3
    <3> QED  BY <1>1, <3>1, <3>2 DEF Partition
  <2>18. PlacesWritten'
    <3>1. \A v \in Producers : v \in RingUsers
      BY Sides
    <3>2. ASSUME NEW x \in Int, Published("cons")' <= x, x < Published("prod")'
          PROVE  ring[Cell(Base + x)] = x
      <4>1. Published("cons") <= x
        BY <2>4, <2>12, <3>2
      <4>2. CASE x < Published("prod")
        BY <2>1, <4>1, <4>2 DEF InStep, PlacesWritten
      <4>3. CASE ~(x < Published("prod"))
        <5>1. s = "prod"
          BY <2>10, <2>12, <3>2, <4>3
        <5>2. Claims(u, x) /\ u \in Producers /\ x < user[u].seen + user[u].i
          BY <1>1, <1>2, <2>2, <2>4, <2>10, <2>12, <2>15, <3>2, <4>3, <5>1, Sides DEF m, s
        <5> QED  BY <2>1, <5>2 DEF InStep, PlacesWritten
      <4> QED  BY <4>2, <4>3
    <3>3. ASSUME NEW v \in Producers, NEW x \in Int, Claims(v, x)', x < user'[v].seen + user'[v].i
          PROVE  ring[Cell(Base + x)] = x
      <4>1. v \in RingUsers /\ v # u
        BY <2>15, <3>1, <3>3
      <4> QED  BY <1>3, <2>1, <2>14, <3>3, <4>1 DEF InStep, PlacesWritten
    <3> QED  BY <1>1, <2>8, <3>2, <3>3 DEF PlacesWritten
  <2>19. \A t \in RingSides : Published(t) \in Int
    BY <2>4 DEF RingSides
  <2> QED  BY <2>8, <2>11, <2>12, <2>13, <2>16, <2>17, <2>18, <2>19 DEF InStep
<1>8. GoesOn
  BY <1>7 DEF GoesOn
<1> QED  BY <1>4, <1>5, <1>6, <1>7, <1>8 DEF RingInv
-----------------------------------------------------------------------------
\* A ring that nobody uses and that is empty.
FreshRing == /\ \A u \in RingUsers : user[u].at = "idle"
             /\ \A s \in RingSides : claimed[s] = 0 /\ head[s] = tail[s] /\ head[s] = head["prod"]
             /\ head["prod"] = Mod(head["prod"])

\* An empty ring that nobody uses is in order, wherever its indexes are.
LEMMA FreshInStep == RingTypes /\ FreshRing => InStep
<1> SUFFICES ASSUME RingTypes, FreshRing PROVE InStep
  OBVIOUS
<1>1. PICK h \in Int : h = head["prod"] /\ Mod(h) = h
  BY PlacesTyped DEF FreshRing, RingSides
<1>2. \A s \in RingSides : head[s] = h /\ tail[s] = h /\ claimed[s] = 0 /\ Published(s) = 0
  <2>1. h - h = 0 /\ Mod(0) = 0
    BY RingAssumption, WrapSmall
  <2> QED  BY <1>1, <2>1 DEF FreshRing, Published
<1>3. Base = h
  BY <1>1, <1>2 DEF Base, RingSides
<1>4. made \in Nat /\ Capacity = made - 1 /\ "prod" \in RingSides /\ "cons" \in RingSides
  BY PlacesTyped DEF RingSides
<1>5. Indexes /\ InOrder
  BY <1>1, <1>2, <1>3, <1>4 DEF Indexes, InOrder
<1>6. \A u \in RingUsers : /\ Claiming(user[u], SideOf(u)) /\ Copying(user[u], SideOf(u))
                           /\ \A x : ~Claims(u, x)
  BY DEF FreshRing, Claiming, Copying, Claims
<1>7. Partition /\ PlacesWritten
  BY <1>2, <1>4, <1>6, Sides DEF Partition, PlacesWritten
<1> QED  BY <1>5, <1>6, <1>7 DEF InStep

\* The same of the state after a step.
LEMMA FreshInStepNext == RingTypes' /\ FreshRing' => InStep'
BY FreshInStep, PTL

\* rte_ring_create: the ring begins empty.
LEMMA CreateRingStep ==
    ASSUME RingInv, NEW count \in Counts, NEW sp \in Flags, NEW sc \in Flags,
           CreateRing(count, sp, sc)
    PROVE  RingInv'
<1>1. /\ made = 0 /\ PowerOf2(count) /\ count <= SizeMask
      /\ made' = count /\ single' = [prod |-> sp, cons |-> sc]
      /\ ring' = [c \in 0 .. count - 1 |-> Empty]
      /\ UNCHANGED <<head, tail, user, claimed, lapped>>
  BY DEF CreateRing
<1>2. RingTypes /\ NoRing /\ SinglesAlone
  BY DEF RingInv
<1>3. count \in Nat /\ count < IndexModulus /\ (count # 0 => IndexModulus % count = 0)
  <2>1. IndexModulus \in Nat \ {0} /\ count \in Nat
    BY RingAssumption
  <2>2. IndexModulus \div 2 - 1 < IndexModulus /\ IndexModulus \div 2 \in Int
    BY <2>1
  <2> QED  BY <1>1, <2>1, <2>2, RingAssumption DEF SizeMask
<1>4. RingTypes'
  <2>1. single' \in [RingSides -> BOOLEAN]
    BY <1>1, RingAssumption DEF RingSides
  <2>2. ring' \in [0 .. made' - 1 -> Int]
    BY <1>1 DEF Empty
  <2> QED  BY <1>1, <1>2, <1>3, <2>1, <2>2 DEF RingTypes
<1>5. NoRing' /\ SinglesAlone'
  BY <1>1, <1>2, <1>3 DEF NoRing, SinglesAlone
<1>6. FreshRing'
  <2>1. Mod(0) = 0
    BY RingAssumption, WrapSmall
  <2> QED  BY <1>1, <1>2, <2>1 DEF NoRing, FreshRing, RingSides
<1> QED  BY <1>4, <1>5, <1>6, FreshInStepNext DEF RingInv

\* rte_ring_destory: nothing is left.
LEMMA DestroyRingStep == ASSUME RingInv, DestroyRing PROVE RingInv'
<1>1. /\ \A u \in RingUsers : user[u] = IdleUser
      /\ made' = 0 /\ head' = [s \in RingSides |-> 0] /\ tail' = head'
      /\ ring' = <<>> /\ claimed' = [s \in RingSides |-> 0] /\ lapped' = FALSE
      /\ UNCHANGED <<single, user>>
  BY DEF DestroyRing, Unused
<1>2. \A u \in RingUsers : user'[u].at = "idle"
  BY <1>1 DEF IdleUser
<1>3. RingTypes'
  <2>1. made' \in Nat /\ made' < IndexModulus
    BY <1>1, RingAssumption
  <2>2. lapped' \in BOOLEAN
    BY <1>1, Zenon
  <2>3. head' \in [RingSides -> Int] /\ tail' \in [RingSides -> Int] /\ claimed' \in [RingSides -> Nat]
    BY <1>1
  <2> QED  BY <1>1, <2>1, <2>3, <2>2 DEF RingInv, RingTypes
<1>4. NoRing' /\ SinglesAlone'
  BY <1>1, <1>2 DEF NoRing, SinglesAlone
<1>5. FreshRing'
  <2>1. Mod(0) = 0
    BY RingAssumption, WrapSmall
  <2> QED  BY <1>1, <1>2, <2>1 DEF FreshRing, RingSides
<1> QED  BY <1>3, <1>4, <1>5, FreshInStepNext DEF RingInv

\* An older ring is an empty one with other indexes.
LEMMA PassObjectsStep == ASSUME RingInv, NEW n \in Ages, PassObjects(n) PROVE RingInv'
<1>1. /\ made # 0 /\ \A u \in RingUsers : user[u] = IdleUser
      /\ \A s \in RingSides : claimed[s] = 0
      /\ head' = [s \in RingSides |-> Mod(n)] /\ tail' = head'
      /\ UNCHANGED <<made, single, ring, user, claimed, lapped>>
  BY DEF PassObjects, Unused
<1>2. PICK h \in Int : h = Mod(n) /\ Mod(h) = h
  <2>1. n \in Int
    BY RingAssumption
  <2>2. Mod(n) \in Int /\ 0 <= Mod(n) /\ Mod(n) < IndexModulus
    BY <2>1, WrapTyped
  <2> QED  BY <2>2, WrapSmall
<1>3. RingTypes' /\ NoRing' /\ SinglesAlone'
  BY <1>1, <1>2 DEF RingInv, RingTypes, NoRing, SinglesAlone
<1>4. FreshRing'
  BY <1>1, <1>2 DEF FreshRing, RingSides, IdleUser
<1> QED  BY <1>3, <1>4, FreshInStepNext DEF RingInv
-----------------------------------------------------------------------------
\* At the start there is no ring.
LEMMA RingStart == RingInit => RingInv
<1> SUFFICES ASSUME RingInit PROVE RingInv
  OBVIOUS
<1>1. /\ made = 0 /\ head = [s \in RingSides |-> 0] /\ tail = [s \in RingSides |-> 0]
      /\ single = [s \in RingSides |-> FALSE] /\ user = [u \in RingUsers |-> IdleUser]
      /\ claimed = [s \in RingSides |-> 0] /\ lapped = FALSE
  BY DEF RingInit
<1>2. RingTypes
  <2>1. made \in Nat /\ made < IndexModulus
    BY <1>1, RingAssumption
  <2>2. head \in [RingSides -> Int] /\ tail \in [RingSides -> Int] /\ claimed \in [RingSides -> Nat]
    BY <1>1
  <2>3. single \in [RingSides -> BOOLEAN] /\ lapped \in BOOLEAN
    BY <1>1
  <2>4. user \in [RingUsers -> UserTypes]
    BY <1>1, IdleUserTyped
  <2> QED  BY <1>1, <2>1, <2>2, <2>3, <2>4 DEF RingTypes
<1>3. \A u \in RingUsers : user[u].at = "idle"
  BY <1>1 DEF IdleUser
<1>4. NoRing /\ SinglesAlone
  BY <1>1, <1>3 DEF NoRing, SinglesAlone
<1>5. FreshRing
  <2>1. Mod(0) = 0
    BY RingAssumption, WrapSmall
  <2> QED  BY <1>1, <1>3, <2>1 DEF FreshRing, RingSides
<1> QED  BY <1>2, <1>4, <1>5, FreshInStep DEF RingInv

\* Every step of a producer or a consumer keeps the invariant.
LEMMA RingStep == RingInv /\ [RingNext]_ringVars => RingInv'
<1> SUFFICES ASSUME RingInv, [RingNext]_ringVars PROVE RingInv'
  OBVIOUS
<1>1. ASSUME NEW count \in Counts, NEW sp \in Flags, NEW sc \in Flags, CreateRing(count, sp, sc)
      PROVE  RingInv'
  BY <1>1, CreateRingStep
<1>2. CASE DestroyRing
  BY <1>2, DestroyRingStep
<1>3. ASSUME NEW n \in Ages, PassObjects(n) PROVE RingInv'
  BY <1>3, PassObjectsStep
<1>4. ASSUME NEW u \in RingUsers, NEW f \in Functions(SideOf(u)), NEW n \in 1 .. MaxAtOnce,
             Call(u, f, n)
      PROVE  RingInv'
  BY <1>4, CallStep
<1>5. ASSUME NEW u \in RingUsers, do_enqueue(u) \/ do_dequeue(u) PROVE RingInv'
  BY <1>5, LoadHeadStep, LoadRoomStep, MoveHeadStep, MoveHeadFailsStep, CopyPointerStep,
     UpdateTailStep DEF do_enqueue, do_dequeue
<1>6. CASE LoadProdTail \/ LoadConsTail \/ UNCHANGED ringVars
  <2>1. UNCHANGED <<made, head, tail, single, ring, user, claimed, lapped>>
    BY <1>6 DEF ringVars, LoadProdTail, LoadConsTail
  <2>2. RingTypes' /\ NoRing' /\ SinglesAlone'
    BY <2>1 DEF RingInv, RingTypes, NoRing, SinglesAlone
  <2>3. ~lapped' => InStep'
    BY <2>1 DEF RingInv, InStep, Indexes, InOrder, Claiming, Copying, Partition, PlacesWritten,
       Claims,
       Base, Published, Space, Capacity, Cell
  <2> QED  BY <2>2, <2>3 DEF RingInv
<1> QED  BY <1>1, <1>2, <1>3, <1>4, <1>5, <1>6 DEF RingNext

\* What is published stays published, and the base stays: a tail that a thread in
\* rte_ring_count has loaded remains one that was right.
LEMMA CounterKept ==
    ASSUME RingInv, CounterInv, GoesOn, UNCHANGED <<made, counter>>, lapped => lapped'
    PROVE  CounterInv'
<1> SUFFICES ASSUME counter.at = "half"
             PROVE  /\ made # 0 /\ counter.seen \in Int
                    /\ ~lapped' => /\ counter.seen <= Published("prod")'
                                   /\ counter.prod = Mod(Base' + counter.seen)
  BY DEF CounterInv, Mod
<1>1. made # 0 /\ counter.seen \in Int
  BY DEF CounterInv
<1>2. ASSUME ~lapped'
      PROVE  counter.seen <= Published("prod")' /\ counter.prod = Mod(Base' + counter.seen)
  <2>1. counter.seen <= Published("prod") /\ counter.prod = Mod(Base + counter.seen)
    BY <1>2 DEF CounterInv
  <2>2. /\ Base' = Base /\ Published("prod") \in Int /\ Published("prod")' \in Int
        /\ Published("prod") <= Published("prod")'
    BY <1>2 DEF GoesOn, RingSides
  <2>3. counter.seen <= Published("prod")'
    BY <1>1, <2>1, <2>2
  <2> QED  BY <2>1, <2>2, <2>3
<1> QED  BY <1>1, <1>2

\* A step that moves no index goes on.
LEMMA IndexesKept ==
    ASSUME RingInv, UNCHANGED <<made, head, tail, claimed, lapped>>
    PROVE  GoesOn
<1>1. \A t \in RingSides : Published(t)' = Published(t) /\ Published(t) \in Int
  BY PlacesTyped DEF Published, RingInv
<1>2. Base' = Base
  BY DEF Base
<1>3. SUFFICES ASSUME NEW t \in RingSides
               PROVE  /\ Published(t) \in Int /\ Published(t)' \in Int
                      /\ Published(t) <= Published(t)'
  BY <1>2 DEF GoesOn
<1>4. PICK x \in Int : x = Published(t)
  BY <1>1
<1> QED  BY <1>1, <1>4

\* Every step keeps what the counting thread relies on.
LEMMA CounterStep == RingInv /\ CounterInv /\ [RingNext]_ringVars => CounterInv'
<1> SUFFICES ASSUME RingInv, CounterInv, [RingNext]_ringVars PROVE CounterInv'
  OBVIOUS
<1>1. ASSUME NEW count \in Counts, NEW sp \in Flags, NEW sc \in Flags, CreateRing(count, sp, sc)
      PROVE  CounterInv'
  BY <1>1 DEF CreateRing, CounterInv
<1>2. ASSUME DestroyRing \/ \E n \in Ages : PassObjects(n) PROVE CounterInv'
  <2>1. counter = NoCount /\ counter' = counter
    BY <1>2 DEF DestroyRing, PassObjects, Unused
  <2> QED  BY <2>1 DEF CounterInv, NoCount
<1>3. ASSUME NEW u \in RingUsers, NEW f \in Functions(SideOf(u)), NEW n \in 1 .. MaxAtOnce,
             Call(u, f, n)
      PROVE  CounterInv'
  <2>1. UNCHANGED <<made, head, tail, claimed, lapped, counter>>
    BY <1>3 DEF Call
  <2> QED  BY <2>1, IndexesKept, CounterKept
<1>4. ASSUME NEW u \in RingUsers, do_enqueue(u) \/ do_dequeue(u) PROVE CounterInv'
  <2>1. CASE LoadHead(u) \/ LoadRoom(u) \/ MoveHeadFails(u) \/ CopyPointer(u)
    <3>1. UNCHANGED <<made, head, tail, claimed, lapped, counter>>
      BY <2>1 DEF LoadHead, LoadRoom, MoveHeadFails, CopyPointer
    <3> QED  BY <3>1, IndexesKept, CounterKept
  <2>2. CASE MoveHead(u)
    <3>1. UNCHANGED <<made, counter>> /\ (lapped => lapped')
      BY <2>2 DEF MoveHead
    <3> QED  BY <2>2, <3>1, MoveHeadStep, CounterKept
  <2>3. CASE UpdateTail(u)
    <3>1. UNCHANGED <<made, counter, lapped>>
      BY <2>3 DEF UpdateTail, Publish
    <3> QED  BY <2>3, <3>1, UpdateTailStep, CounterKept
  <2> QED  BY <1>4, <2>1, <2>2, <2>3 DEF do_enqueue, do_dequeue
<1>5. CASE LoadProdTail
  <2>1. /\ made # 0 /\ counter' = [at |-> "half", prod |-> tail["prod"], seen |-> Published("prod")]
        /\ UNCHANGED <<made, head, tail, claimed, lapped>>
    BY <1>5 DEF LoadProdTail
  <2>2. Base' = Base /\ Published("prod")' = Published("prod") /\ Published("prod") \in Int
    BY <2>1, PlacesTyped DEF RingInv, Base, Published, RingSides
  <2>3. ~lapped => tail["prod"] = Mod(Base + Published("prod"))
    BY DEF RingInv, InStep, Indexes, RingSides
  <2>4. PICK x \in Int : x = Published("prod")
    BY <2>2
  <2> QED  BY <2>1, <2>2, <2>3, <2>4 DEF CounterInv, Mod
<1>6. CASE LoadConsTail
  BY <1>6 DEF LoadConsTail, NoCount, CounterInv
<1>7. CASE UNCHANGED ringVars
  <2>1. UNCHANGED <<made, head, tail, claimed, lapped, counter>>
    BY <1>7 DEF ringVars
  <2> QED  BY <2>1, IndexesKept, CounterKept
<1> QED  BY <1>1, <1>2, <1>3, <1>4, <1>5, <1>6, <1>7 DEF RingNext

\* The invariant that carries the proofs about the ring: the indexes are the places counted
\* without wrapping, each place between the tail and the head of a side is claimed by one
\* thread of that side, the cells between the tails hold the objects of their places, and a
\* thread in rte_ring_count has loaded a tail the producers have since reached.
THEOREM RingInvariance == RingSpec => [](RingInv /\ CounterInv)
<1>1. RingInit => CounterInv
  BY DEF RingInit, NoCount, CounterInv
<1> QED  BY <1>1, RingStart, RingStep, CounterStep, PTL DEF RingSpec

\* What a consumer has claimed is published, and was not given back.
LEMMA ConsumerSeesWritten == RingInv => FifoOrder
<1> SUFFICES ASSUME RingInv, ~lapped, NEW u \in Consumers, user[u].at = "copy",
                    NEW j \in 0 .. user[u].n - 1
             PROVE  ring[Cell(user[u].old + j)] = user[u].seen + j
  BY DEF FifoOrder
<1>1. /\ RingTypes /\ InStep /\ u \in RingUsers /\ SideOf(u) = "cons" /\ made # 0
      /\ user[u].seen \in Nat /\ user[u].n \in Nat /\ j \in Int /\ Base \in Int
      /\ Published("cons") \in Int /\ Published("prod") \in Int /\ claimed["cons"] \in Int
  BY Sides, UserTyped, PlacesTyped DEF RingInv, NoRing, RingSides
<1>2. /\ user[u].old = Mod(Base + user[u].seen) /\ Published("cons") <= user[u].seen
      /\ user[u].seen + user[u].n <= claimed["cons"] /\ claimed["cons"] <= Published("prod")
  BY <1>1 DEF InStep, Copying, InOrder
<1>3. PICK x \in Int : x = user[u].seen + j
  BY <1>1
<1>4. Published("cons") <= x /\ x < Published("prod")
  BY <1>1, <1>2, <1>3
<1>5. ring[Cell(Base + x)] = x
  BY <1>1, <1>4 DEF InStep, PlacesWritten
<1>6. Cell(user[u].old + j) = Cell(Base + x)
  <2>1. PICK y \in Int : y = Base + user[u].seen
    BY <1>1
  <2>2. made \in Nat \ {0} /\ IndexModulus % made = 0
    BY <1>1, PlacesTyped DEF RingTypes
  <2>3. Cell(Mod(y) + j) = Cell(y + j)
    BY <1>1, <2>2, CellForward
  <2>4. y + j = Base + x
    BY <1>1, <1>3, <2>1
  <2> QED  BY <1>2, <2>1, <2>3, <2>4
<1> QED  BY <1>3, <1>5, <1>6

\* The order of the indexes is a part of the invariant.
LEMMA OrderKept == RingInv => IndexesKeepOrder
BY DEF RingInv, InStep, InOrder, IndexesKeepOrder, RingSides

\* The masked difference of the tail loaded first and the other tail is the distance of
\* their places, also when one of them has wrapped, as long as it is not negative.
LEMMA CountIsDistance == RingInv /\ CounterInv => CountIsExact
<1> SUFFICES ASSUME RingInv, CounterInv, counter.at = "half", ~lapped,
                    Published("cons") <= counter.seen
             PROVE  /\ rte_ring_count = counter.seen - Published("cons")
                    /\ rte_ring_count <= Published("prod") - Published("cons")
                    /\ rte_ring_full => Published("prod") = Published("cons") + Capacity
  BY DEF CountIsExact
<1>1. /\ RingTypes /\ InStep /\ made \in Nat /\ made # 0 /\ Base \in Int /\ Capacity = made - 1
      /\ Published("cons") \in Int /\ Published("prod") \in Int /\ made < IndexModulus
      /\ claimed["cons"] \in Int /\ claimed["prod"] \in Int
  BY PlacesTyped DEF RingInv, RingSides, RingTypes, CounterInv
<1>2. /\ Published("cons") <= claimed["cons"] /\ claimed["cons"] <= Published("prod")
      /\ Published("prod") <= claimed["prod"] /\ claimed["prod"] <= Published("cons") + Capacity
  BY <1>1 DEF InStep, InOrder, RingSides
<1>3. PICK p \in Int : p = counter.seen
  BY DEF CounterInv
<1>4. PICK c \in Int : c = Published("cons")
  BY <1>1
<1>5. PICK q \in Int : q = Published("prod") /\ p <= q /\ q <= c + Capacity
  BY <1>1, <1>2, <1>3, <1>4 DEF CounterInv
<1>6. PICK d \in Int : d = p - c /\ 0 <= d /\ d <= Capacity /\ d < made /\ d < IndexModulus
  BY <1>1, <1>3, <1>4, <1>5, RingAssumption
<1>7. Mod(counter.prod - tail["cons"]) = d
  <2>1. counter.prod = Mod(Base + p) /\ tail["cons"] = Mod(Base + c)
    BY <1>1, <1>3, <1>4 DEF InStep, Indexes, RingSides, CounterInv
  <2>2. c <= p /\ p - c < IndexModulus
    BY <1>3, <1>4, <1>6
  <2>3. Base \in Int
    BY <1>1
  <2>4. Mod(Mod(Base + p) - Mod(Base + c)) = p - c
    BY <2>2, <2>3, WrapDistance
  <2> QED  BY <1>6, <2>1, <2>4
<1>8. d % made = d
  BY <1>1, <1>6
<1>9. rte_ring_count = d
  BY <1>1, <1>6, <1>7, <1>8 DEF rte_ring_count
<1>10. rte_ring_full => q = c + Capacity
  BY <1>1, <1>5, <1>6, <1>9 DEF rte_ring_full, rte_ring_free_count
<1>11. d <= q - c
  BY <1>5, <1>6
<1> QED  BY <1>3, <1>4, <1>5, <1>6, <1>9, <1>10, <1>11

\* do_dequeue returns the objects in the order of the places, each one that was enqueued;
\* the indexes never pass each other; and rte_ring_count, with whatever happens between its
\* two loads, counts what was published before the first and not given back before the
\* second, unless that is negative: for every size of the ring and width of its indexes.
THEOREM RingIsFifoSafety == RingSpec => []RingIsFifo
<1>1. RingInv /\ CounterInv => RingIsFifo
  BY ConsumerSeesWritten, OrderKept, CountIsDistance DEF RingIsFifo
<1> QED  BY <1>1, RingInvariance, PTL
=============================================================================
