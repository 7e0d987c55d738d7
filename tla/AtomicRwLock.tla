---------------------------- MODULE AtomicRwLock ----------------------------
(***************************************************************************)
(* sh_rwlock (vpn/com_lib/lock_lib/atomic_rwlock.h): one 32-bit word, -1   *)
(* while a writer holds the lock, otherwise the number of readers.  Every  *)
(* action is one atomic operation on the word, so that all interleavings   *)
(* of the load, the spin and the two compare-exchanges are explored.       *)
(*                                                                         *)
(* Threads obey the protocol of the class: they release what they hold,    *)
(* and do not lock again while they hold it.  compare_exchange_weak may    *)
(* fail spuriously.                                                        *)
(***************************************************************************)
EXTENDS Integers, FiniteSets

CONSTANT Threads   \* the threads that share the lock

ASSUME ThreadsAssumption == IsFiniteSet(Threads)

VARIABLES word,     \* m_rwlock
          expected, \* the local of lock_read and lock_write, per thread
          pc        \* where each thread is in the lock's code

vars == <<word, expected, pc>>

Free    == 0
Written == -1

Init == /\ word = Free
        /\ expected = [t \in Threads |-> Free]
        /\ pc = [t \in Threads |-> "idle"]

Goto(t, from, to) == pc[t] = from /\ pc' = [pc EXCEPT ![t] = to]

(***************************************************************************)
(* lock_read: load until no writer is seen, then try to count oneself in.  *)
(***************************************************************************)
StartRead(t) == /\ Goto(t, "idle", "loadRead")
                /\ UNCHANGED <<word, expected>>

\* Broken variants: no inner loop; one that also spins while the lock is free.
LoadReadNoSpin(t) == /\ Goto(t, "loadRead", "casRead")
                     /\ expected' = [expected EXCEPT ![t] = word]
                     /\ UNCHANGED word

LoadReadSpinsOnFree(t) == /\ Goto(t, "loadRead", IF word <= 0 THEN "loadRead" ELSE "casRead")
                          /\ expected' = [expected EXCEPT ![t] = word]
                          /\ UNCHANGED word

LoadRead(t) == /\ Goto(t, "loadRead", IF word < 0 THEN "loadRead" ELSE "casRead")
               /\ expected' = [expected EXCEPT ![t] = word]
               /\ UNCHANGED word

CasReadOk(t) == /\ word = expected[t]
                /\ Goto(t, "casRead", "reading")
                /\ word' = expected[t] + 1
                /\ UNCHANGED expected

\* The do-while goes back to the load, whatever value the failed exchange saw.
CasReadFail(t) == /\ Goto(t, "casRead", "loadRead")
                  /\ expected' = [expected EXCEPT ![t] = word]
                  /\ UNCHANGED word

\* Broken variant: the reader is not counted out.
UnlockReadForgets(t) == /\ Goto(t, "reading", "idle")
                        /\ UNCHANGED <<word, expected>>

UnlockRead(t) == /\ Goto(t, "reading", "idle")
                 /\ word' = word - 1
                 /\ UNCHANGED expected

(***************************************************************************)
(* lock_write: exchange 0 for -1 until it succeeds.                        *)
(***************************************************************************)
StartWrite(t) == /\ Goto(t, "idle", "casWrite")
                 /\ expected' = [expected EXCEPT ![t] = Free]
                 /\ UNCHANGED word

CasWriteOk(t) == /\ word = expected[t]
                 /\ Goto(t, "casWrite", "writing")
                 /\ word' = Written
                 /\ UNCHANGED expected

\* The failed exchange overwrites expected with the word it saw ...
CasWriteFail(t) == /\ Goto(t, "casWrite", "resetWrite")
                   /\ expected' = [expected EXCEPT ![t] = word]
                   /\ UNCHANGED word

\* ... and the loop body resets it before the next attempt.
ResetWrite(t) == /\ Goto(t, "resetWrite", "casWrite")
                 /\ expected' = [expected EXCEPT ![t] = Free]
                 /\ UNCHANGED word

UnlockWrite(t) == /\ Goto(t, "writing", "idle")
                  /\ word' = Free
                  /\ UNCHANGED expected

Lock(t) == \/ LoadRead(t) \/ CasReadOk(t) \/ CasReadFail(t)
           \/ CasWriteOk(t) \/ CasWriteFail(t) \/ ResetWrite(t)

Unlock(t) == UnlockRead(t) \/ UnlockWrite(t)

Next == \E t \in Threads : StartRead(t) \/ StartWrite(t) \/ Lock(t) \/ Unlock(t)

Spec == Init /\ [][Next]_vars

\* A running thread goes on through the lock's code and releases what it holds;
\* an exchange that could succeed again and again is not unlucky every time.
Fairness == \A t \in Threads : /\ WF_vars(Lock(t)) /\ WF_vars(Unlock(t))
                               /\ SF_vars(CasReadOk(t)) /\ SF_vars(CasWriteOk(t))

FairSpec == Spec /\ Fairness
-----------------------------------------------------------------------------
Readers == {t \in Threads : pc[t] = "reading"}
Writers == {t \in Threads : pc[t] = "writing"}

TypeOK ==
    /\ word \in Nat \cup {Written}
    /\ expected \in [Threads -> Int]
    /\ pc \in [Threads -> {"idle", "loadRead", "casRead", "reading",
                           "casWrite", "resetWrite", "writing"}]

\* A writer excludes every other thread, reader or writer: what lock_write's
\* "exclusive" comment promises, whatever each thread last loaded.
Exclusion == \A w \in Writers : Readers = {} /\ Writers = {w}

\* The word counts the readers exactly, or is -1 for a writer: a lost update of
\* fetch_sub against the two exchanges would make the count drift for good.
WordCounts == word = IF Writers # {} THEN Written ELSE Cardinality(Readers)

\* lock_read never exchanges a word in which it saw a writer, and lock_write
\* never exchanges anything but the free word it reset expected to.
ExpectedSane == \A t \in Threads : /\ pc[t] = "casRead" => expected[t] >= 0
                                   /\ pc[t] = "casWrite" => expected[t] = Free

RW == INSTANCE RwLockSpec WITH readers <- Readers, writers <- Writers

\* The lock word implements the lock its users see.
ImplementsRwLock == RW!Spec

\* The lock is never stuck: when nobody holds it and somebody wants it,
\* somebody gets it, although each thread's own attempt may fail for ever.
SomebodyGetsIt == (word = Free /\ \E t \in Threads : pc[t] # "idle")
                      ~> (Readers # {} \/ Writers # {})

\* A writer that keeps trying gets the lock once readers stop coming; while
\* they keep coming it may starve, since a waiting writer holds nobody back.
WriterGetsIn ==
    \A t \in Threads :
        (\A r \in Threads \ {t} : <>[](pc[r] = "idle"))
            => (pc[t] = "casWrite" ~> pc[t] = "writing")
=============================================================================
