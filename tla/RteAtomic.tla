------------------------------ MODULE RteAtomic ------------------------------
(***************************************************************************)
(* The atomic counters beside the file-backed array, in the builds the     *)
(* headers have: assembler for x86_64 (rte_atomic.h, rte_atomic_64.h) and  *)
(* i686 (rte_atomic.h, rte_atomic_32.h), or compiler intrinsics for either *)
(* (rte_generic_atomic.h, which also has what every build shares).  All    *)
(* are one instruction but most 64 bit operations of 32 bit builds: they   *)
(* load the two halves one after the other and retry until a               *)
(* compare-and-set finds both unchanged.                                   *)
(*                                                                         *)
(* A counter is two halves of HalfWord values each, whatever its width.    *)
(***************************************************************************)
EXTENDS Integers, FiniteSets

CONSTANTS Cores,    \* threads
          HalfWord, \* 2^32 for a 64 bit counter
          Amounts   \* what is added, subtracted, compared with and stored

WordSize == HalfWord * HalfWord

\* A half has room for 1, and a number fits in the counter.
ASSUME AtomicAssumption == HalfWord \in Nat /\ HalfWord > 1 /\ Amounts \subseteq 0 .. WordSize - 1

Wrap(x)  == x % WordSize

VARIABLES build, lp64, width, \* "assembler" or "intrinsics", 64 bit or not, and the counter
          cnt,          \* the halves: [hi, lo -> value]
          core,         \* each thread: where it is, its operation, the halves it has loaded
          exact,        \* history: the value by the operations done, one after the other
          wrong         \* history: whether an operation returned something else

atomicVars == <<build, lp64, width, cnt, core, exact, wrong>>

Value(c)   == c.hi * HalfWord + c.lo
Halves(v)  == [hi |-> v \div HalfWord, lo |-> v % HalfWord]
\* What an operation does to the counter, with which number, what it returns, and
\* whether it is a loop of load and compare-and-set instead of one instruction.
Op(does, exp, arg, gives) == [does |-> does, exp |-> exp, arg |-> arg, gives |-> gives, loop |-> FALSE]
Looped(ops) == {[op EXCEPT !.loop = TRUE] : op \in ops}
IdleCore    == [at |-> "idle", op |-> Op("read", 0, 0, "old"), tmp |-> <<>>]

After(op, v)  == CASE op.does = "cmpset" -> IF v = op.exp THEN op.arg ELSE v
                   [] op.does = "set"    -> op.arg
                   [] op.does = "add"    -> Wrap(v + op.arg)
                   [] op.does = "read"   -> v
Answer(op, v) == CASE op.gives = "success" -> v = op.exp
                   [] op.gives = "old"     -> v
                   [] op.gives = "new"     -> After(op, v)
                   [] op.gives = "zero"    -> After(op, v) = 0
                   [] op.gives = "nothing" -> TRUE
-----------------------------------------------------------------------------
Cmpsets   == {Op("cmpset", e, v, "success") : e, v \in Amounts}
Exchanges == {Op("set", 0, v, "old") : v \in Amounts}
InitSets  == {Op("set", 0, v, "nothing") : v \in Amounts \cup {0}}
Read      == {Op("read", 0, 0, "old")}
IncDec    == {Op("add", 0, 1, "nothing"), Op("add", 0, Wrap(-1), "nothing")}
Adds      == {Op("add", 0, i, "nothing") : i \in Amounts \cup {Wrap(-i) : i \in Amounts}}
AddReturn == {Op("add", 0, i, "new") : i \in Amounts \cup {Wrap(-i) : i \in Amounts}}
AndTests  == {Op("add", 0, 1, "zero"), Op("add", 0, Wrap(-1), "zero")}
TestSet   == {Op("cmpset", 0, 1, "success")}
Clear     == {Op("set", 0, 0, "nothing")}

\* rte_generic_atomic.h: intrinsics; without __LP64__ a plain 64 bit access is a loop.
Intrinsic(ops)    == IF build = "intrinsics" THEN ops ELSE {}
PlainAccess64(ops) == IF lp64 THEN ops ELSE Looped(ops)

generic16_cmpset_exchange   == Intrinsic(Cmpsets \cup Exchanges)
generic16_init_read_set     == InitSets \cup Read
generic16_add_to_sub_return == Adds \cup Intrinsic(IncDec) \cup AddReturn
generic16_tests_clear       == Intrinsic(AndTests \cup TestSet) \cup Clear
generic32_cmpset_exchange   == Intrinsic(Cmpsets \cup Exchanges)
generic32_init_read_set     == InitSets \cup Read
generic32_add_to_sub_return == Adds \cup Intrinsic(IncDec) \cup AddReturn
generic32_tests_clear       == Intrinsic(AndTests \cup TestSet) \cup Clear
generic64_cmpset_exchange   == Intrinsic(Cmpsets \cup Exchanges)
generic64_init_read_set     == Intrinsic(PlainAccess64(InitSets \cup Read))
generic64_add_to_sub_return == Intrinsic(Adds \cup IncDec \cup AddReturn)
generic64_tests_clear       == Intrinsic(AndTests \cup TestSet \cup PlainAccess64(Clear))

\* rte_atomic.h, rte_atomic_64.h and rte_atomic_32.h: assembler.  i686 has one
\* instruction for a 64 bit compare-and-set, and nothing else for 64 bits.
Assembler(ops) == IF build = "assembler" THEN ops ELSE {}
X86_64(ops)    == Assembler(IF lp64 THEN ops ELSE {})
I686(ops)      == Assembler(IF lp64 THEN {} ELSE ops)

x86_16_operations == Assembler(Cmpsets \cup Exchanges \cup TestSet \cup IncDec \cup AndTests)
x86_32_operations == Assembler(Cmpsets \cup Exchanges \cup TestSet \cup IncDec \cup AndTests)

x86_64_cmpset_exchange   == X86_64(Cmpsets \cup Exchanges)
x86_64_init_read_set     == X86_64(InitSets \cup Read)
x86_64_add_to_sub_return == X86_64(Adds \cup IncDec \cup AddReturn)
x86_64_tests_clear       == X86_64(AndTests \cup TestSet \cup Clear)

i686_cmpset_exchange   == I686(Cmpsets \cup Looped(Exchanges))
i686_init_read_set     == I686(Looped(InitSets \cup Read))
i686_add_to_sub_return == I686(Looped(Adds \cup IncDec \cup AddReturn))
i686_tests_clear       == I686(Looped(AndTests) \cup TestSet \cup Looped(Clear))

Operations ==
    CASE width = 16 -> generic16_cmpset_exchange \cup generic16_init_read_set
                       \cup generic16_add_to_sub_return \cup generic16_tests_clear
                       \cup x86_16_operations
      [] width = 32 -> generic32_cmpset_exchange \cup generic32_init_read_set
                       \cup generic32_add_to_sub_return \cup generic32_tests_clear
                       \cup x86_32_operations
      [] width = 64 -> generic64_cmpset_exchange \cup generic64_init_read_set
                       \cup generic64_add_to_sub_return \cup generic64_tests_clear
                       \cup x86_64_cmpset_exchange \cup x86_64_init_read_set
                       \cup x86_64_add_to_sub_return \cup x86_64_tests_clear
                       \cup i686_cmpset_exchange \cup i686_init_read_set
                       \cup i686_add_to_sub_return \cup i686_tests_clear
      [] OTHER      -> {}   \* no counter declared yet
-----------------------------------------------------------------------------
AtomicInit == /\ build = "none" /\ lp64 = TRUE /\ width = 0
              /\ cnt = Halves(0) /\ exact = 0 /\ wrong = FALSE
              /\ core = [c \in Cores |-> IdleCore]

Declare(b, lp, w) == /\ build = "none" /\ build' = b /\ lp64' = lp /\ width' = w
                     /\ UNCHANGED <<cnt, core, exact, wrong>>

Begin(c, op) == /\ core[c].at = "idle" /\ op \in Operations
                /\ core' = [core EXCEPT ![c] = [at |-> IF op.loop THEN "load" ELSE "do",
                                                op |-> op, tmp |-> <<>>]]
                /\ UNCHANGED <<build, lp64, width, cnt, exact, wrong>>

\* The operation takes effect on the value v it has found, and returns.
Finish(c, v) == LET op == core[c].op IN
                /\ cnt' = Halves(After(op, v))
                /\ exact' = After(op, exact)
                /\ wrong' = (wrong \/ Answer(op, v) # Answer(op, exact))
                /\ core' = [core EXCEPT ![c] = IdleCore]
                /\ UNCHANGED <<build, lp64, width>>

OneInstruction(c) == core[c].at = "do" /\ Finish(c, Value(cnt))

\* tmp = v->cnt, in whichever order the compiler loads the halves.
LoadHalf(c, h) ==
    /\ core[c].at = "load" /\ h \notin DOMAIN core[c].tmp
    /\ core' = [core EXCEPT ![c].tmp = [x \in {h} \cup DOMAIN @ |-> IF x = h THEN cnt[h] ELSE @[x]],
                            ![c].at = IF core[c].tmp = <<>> THEN "load" ELSE "cmpset"]
    /\ UNCHANGED <<build, lp64, width, cnt, exact, wrong>>

\* Broken variant: compares 32 bits only.
CmpsetLow(c) ==
    /\ core[c].at = "cmpset"
    /\ IF cnt.lo = core[c].tmp.lo THEN Finish(c, Value(core[c].tmp))
       ELSE /\ core' = [core EXCEPT ![c].at = "load", ![c].tmp = <<>>]
            /\ UNCHANGED <<build, lp64, width, cnt, exact, wrong>>

\* cmpxchg8b: both halves or none.
Cmpset(c) ==
    /\ core[c].at = "cmpset"
    /\ IF cnt = core[c].tmp THEN Finish(c, Value(core[c].tmp))
       ELSE /\ core' = [core EXCEPT ![c].at = "load", ![c].tmp = <<>>]
            /\ UNCHANGED <<build, lp64, width, cnt, exact, wrong>>

AtomicNext ==
    \/ \E b \in {"assembler", "intrinsics"}, lp \in BOOLEAN, w \in {16, 32, 64} : Declare(b, lp, w)
    \/ \E c \in Cores : \/ \E op \in Operations : Begin(c, op)
                        \/ OneInstruction(c) \/ Cmpset(c)
                        \/ \E h \in {"hi", "lo"} : LoadHalf(c, h)

AtomicSpec == AtomicInit /\ [][AtomicNext]_atomicVars
-----------------------------------------------------------------------------
\* The counter has the value its operations give one after the other, and each returned
\* what it returns then, though on i686 a value may be torn when it is loaded, and may
\* have changed and changed back when it is compared.
OperationsAreAtomic == Value(cnt) = exact /\ ~wrong
=============================================================================
