------------------------------ MODULE RteLocks ------------------------------
(***************************************************************************)
(* The locks beside the file-backed array: spinlock, recursive spinlock    *)
(* (rte_spinlock.h) and read-write lock (rte_rwlock.h), each also in a     *)
(* form that first tries a hardware transaction (rte_rtm.h) and takes the  *)
(* lock when that fails.                                                   *)
(*                                                                         *)
(* A transaction reads the word of the lock, so the processor aborts it    *)
(* when anyone writes the word; it may also abort it for no reason.        *)
(***************************************************************************)
EXTENDS Integers, FiniteSets

CONSTANTS Lockers,    \* threads
          MaxRetries, \* RTE_RTM_MAX_RETRIES
          MaxDepth    \* how often one thread takes the recursive lock

ASSUME LockAssumption == MaxRetries \in Nat /\ MaxDepth \in Nat /\ -1 \notin Lockers

VARIABLES lock,   \* "none", then the kind of the one lock in use
          rtm,    \* rte_rtm_supported
          lockWord,   \* locked, or cnt of the read-write lock
          owner,  \* user of the recursive lock
          nested, \* count of the recursive lock
          locker  \* each thread: where it is and its locals

lockVars == <<lock, rtm, lockWord, owner, nested, locker>>

LockKinds == {"spin", "recursive", "rw"}
NoOwner   == -1
\* depth: sections entered.  tm, try, write: which function.  how: how it got in.
OutLocker == [at |-> "out", tm |-> FALSE, try |-> FALSE, write |-> TRUE, how |-> "none",
              depth |-> 0, retries |-> 0, status |-> "none", x |-> 0]

LocksInit ==
    /\ lock = "none" /\ rtm = FALSE
    /\ lockWord = 0 /\ owner = NoOwner /\ nested = 0
    /\ locker = [t \in Lockers |-> OutLocker]

\* rte_spinlock_init, rte_spinlock_recursive_init, rte_rwlock_init, rte_rtm_init.
MakeLock(kind, supported) == /\ lock = "none" /\ lock' = kind /\ rtm' = supported
                             /\ UNCHANGED <<lockWord, owner, nested, locker>>

Goes(t, me)      == locker' = [locker EXCEPT ![t] = me]
                    /\ UNCHANGED <<lock, rtm, lockWord, owner, nested>>
InTx(t)          == locker[t].how = "tx"

\* Writing the word aborts every transaction: they all have read it.
Write(v, t, me) ==
    /\ lockWord' = v
    /\ locker' = [u \in Lockers |-> IF u = t THEN me
                                    ELSE IF InTx(u) THEN [locker[u] EXCEPT !.at = "aborted"]
                                    ELSE locker[u]]
    /\ UNCHANGED <<lock, rtm>>

\* The lock is taken.
Entered(me) == [me EXCEPT !.at = "in", !.how = "lock", !.depth = @ + 1, !.retries = 0,
                          !.status = "none", !.x = 0]
-----------------------------------------------------------------------------
\* A thread asks for the lock; only the recursive one may be asked for by its holder.
Ask(t, tm, try, write) ==
    /\ lock # "none"
    /\ IF lock = "rw" THEN ~try ELSE write
    /\ \/ locker[t].at = "out"
       \/ lock = "recursive" /\ locker[t].at = "in" /\ locker[t].tm = tm /\ locker[t].depth < MaxDepth
    /\ Goes(t, [locker[t] EXCEPT
                   !.at = IF tm THEN "try" ELSE "take", !.tm = tm, !.try = try, !.write = write,
                   !.retries = IF ~(tm /\ rtm) THEN 0 ELSE IF InTx(t) THEN @ ELSE MaxRetries])
-----------------------------------------------------------------------------
(***************************************************************************)
(* rte_try_tm.                                                             *)
(***************************************************************************)
\* A transaction in a transaction is part of the outer one and ends with it.
Begins(t)   == locker[t].at = "try" /\ (locker[t].retries > 0 \/ InTx(t))
RetriesLeft(t) == IF InTx(t) THEN locker[t].retries ELSE locker[t].retries - 1
InSection(t) == [locker[t] EXCEPT !.at = "in", !.how = "tx", !.depth = @ + 1, !.retries = RetriesLeft(t)]

\* Broken variant: the transaction does not look at the lock.
XbeginBlind(t) == Begins(t) /\ Goes(t, InSection(t))

\* The transaction starts; with the lock held it aborts itself.
Xbegin(t) ==
    /\ Begins(t)
    /\ IF lockWord = 0 THEN Goes(t, InSection(t))
       ELSE Goes(t, [locker[t] EXCEPT !.at = "spin", !.retries = RetriesLeft(t), !.status = "busy"])

\* The processor aborts it before, or while, it is in the section: back to the outer
\* rte_xbegin, with what the thread had then.
Xabort(t, status) ==
    /\ rtm /\ (Begins(t) \/ locker[t].at = "aborted" \/ (locker[t].at = "in" /\ InTx(t)))
    /\ Goes(t, IF InTx(t)
               THEN [locker[t] EXCEPT !.at = "spin", !.status = status, !.how = "none", !.depth = 0]
               ELSE [locker[t] EXCEPT !.at = "spin", !.status = status, !.retries = RetriesLeft(t)])

\* while (*lock) rte_pause().
SpinEnds(t) ==
    /\ locker[t].at = "spin" /\ lockWord = 0
    /\ Goes(t, [locker[t] EXCEPT !.at = IF locker[t].status = "no" THEN "take" ELSE "try",
                                 !.status = "none"])

GiveUpTm(t) == locker[t].at = "try" /\ ~Begins(t) /\ Goes(t, [locker[t] EXCEPT !.at = "take"])

rte_try_tm(t) == Xbegin(t) \/ SpinEnds(t) \/ GiveUpTm(t)
                 \/ \E status \in {"retry", "no"} : Xabort(t, status)
-----------------------------------------------------------------------------
(***************************************************************************)
(* rte_spinlock_lock, rte_spinlock_trylock and their recursive forms.      *)
(***************************************************************************)
\* Broken variant: the thread that holds the lock is not recognised.
AgainNever(t) == FALSE

Again(t) == lock = "recursive" /\ owner = t

Xchg(t) ==
    /\ locker[t].at = "take" /\ lock # "rw" /\ ~Again(t)
    /\ Write(1, t, IF lockWord = 0
                   THEN IF lock = "spin" THEN Entered(locker[t])
                                         ELSE [locker[t] EXCEPT !.at = "own"]
                   ELSE IF locker[t].try THEN OutLocker ELSE [locker[t] EXCEPT !.at = "wait"])
    /\ UNCHANGED <<owner, nested>>

WaitUnlocked(t) == locker[t].at = "wait" /\ lockWord = 0
                   /\ Goes(t, [locker[t] EXCEPT !.at = "take"])

Own(t) == /\ locker[t].at = "own" \/ (locker[t].at = "take" /\ Again(t))
          /\ owner' = t /\ nested' = nested + 1
          /\ locker' = [locker EXCEPT ![t] = Entered(@)]
          /\ UNCHANGED <<lock, rtm, lockWord>>

rte_spinlock_lock(t) == Xchg(t) \/ WaitUnlocked(t)

\* The _tm unlocks tell a transaction from a taken lock by the word alone.
Unlocks(t, kind) == locker[t].at = "in" /\ lock = kind /\ (locker[t].tm => lockWord # 0)

\* The owner is cleared before the lock is free.
Disown(t) ==
    /\ Unlocks(t, "recursive")
    /\ nested' = nested - 1
    /\ owner' = IF nested = 1 THEN NoOwner ELSE owner
    /\ locker' = [locker EXCEPT ![t].at = IF nested = 1 THEN "free" ELSE @,
                                ![t].depth = IF nested = 1 THEN 0 ELSE @ - 1]
    /\ UNCHANGED <<lock, rtm, lockWord>>

rte_spinlock_unlock(t) ==
    /\ locker[t].at = "free" \/ Unlocks(t, "spin")
    /\ Write(0, t, OutLocker)
    /\ UNCHANGED <<owner, nested>>
-----------------------------------------------------------------------------
(***************************************************************************)
(* The read-write lock: a load, then a compare-and-set.                    *)
(***************************************************************************)
LoadCnt(t) == /\ locker[t].at = "take" /\ lock = "rw"
              /\ IF locker[t].write THEN lockWord = 0 ELSE lockWord >= 0
              /\ Goes(t, [locker[t] EXCEPT !.at = "cmpset", !.x = lockWord])

CmpsetCnt(t) ==
    /\ locker[t].at = "cmpset" /\ lockWord = locker[t].x
    /\ Write(IF locker[t].write THEN -1 ELSE lockWord + 1, t, Entered(locker[t]))
    /\ UNCHANGED <<owner, nested>>

CmpsetFails(t) == /\ locker[t].at = "cmpset" /\ lockWord # locker[t].x
                  /\ Goes(t, [locker[t] EXCEPT !.at = "take", !.x = 0])

rte_rwlock_read_lock(t)  == ~locker[t].write /\ (LoadCnt(t) \/ CmpsetCnt(t) \/ CmpsetFails(t))
rte_rwlock_write_lock(t) == locker[t].write /\ (LoadCnt(t) \/ CmpsetCnt(t) \/ CmpsetFails(t))

rte_rwlock_unlock(t) ==
    /\ Unlocks(t, "rw")
    /\ Write(IF locker[t].write THEN lockWord + 1 ELSE lockWord - 1, t, OutLocker)
    /\ UNCHANGED <<owner, nested>>

Xend(t) == /\ locker[t].at = "in" /\ locker[t].tm /\ lockWord = 0
           /\ Goes(t, IF locker[t].depth > 1 THEN [locker[t] EXCEPT !.depth = @ - 1] ELSE OutLocker)

LocksNext ==
    \/ \E kind \in LockKinds, supported \in BOOLEAN : MakeLock(kind, supported)
    \/ \E t \in Lockers :
          \/ \E tm, try, write \in BOOLEAN : Ask(t, tm, try, write)
          \/ rte_try_tm(t)
          \/ rte_spinlock_lock(t) \/ Own(t) \/ Disown(t) \/ rte_spinlock_unlock(t)
          \/ rte_rwlock_read_lock(t) \/ rte_rwlock_write_lock(t) \/ rte_rwlock_unlock(t)
          \/ Xend(t)

LocksSpec == LocksInit /\ [][LocksNext]_lockVars
-----------------------------------------------------------------------------
Inside == {t \in Lockers : locker[t].depth > 0 /\ locker[t].at # "aborted"}
Locked == {t \in Inside : locker[t].how = "lock"}

\* A section under the lock excludes all others, speculative ones included, but for the
\* readers of the read-write lock among themselves; so whoever unlocks and finds the word
\* 0 is in a transaction, and whoever finds it taken has taken it.
SectionsExclude ==
    /\ \A t \in Locked : \A u \in Inside \ {t} :
          lock = "rw" /\ ~locker[t].write /\ u \in Locked /\ ~locker[u].write
    /\ \A t \in Inside : (locker[t].how = "tx") <=> (lockWord = 0)
    /\ lock = "rw" => lockWord = IF \E t \in Locked : locker[t].write THEN -1 ELSE Cardinality(Locked)

\* A thread only ever waits for itself when it asks for the recursive lock it has taken
\* through the transactional function again: the transaction aborts because the lock is
\* taken, and rte_try_tm waits for the lock to be free without asking whose it is.
WaitsForItselfOnlyInTm ==
    \A t \in Locked : locker[t].at \in {"spin", "wait", "cmpset"} =>
                          lock = "recursive" /\ rtm /\ locker[t].tm /\ locker[t].at = "spin"
=============================================================================
