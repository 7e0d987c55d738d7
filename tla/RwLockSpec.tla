----------------------------- MODULE RwLockSpec -----------------------------
(***************************************************************************)
(* What a readers/writer lock promises to its users: who holds it, for    *)
(* reading or for writing, and nothing of how the lock word encodes that. *)
(* AtomicRwLock (vpn/com_lib/lock_lib/atomic_rwlock.h) implements it.      *)
(***************************************************************************)

CONSTANT Threads   \* the threads that share the lock

VARIABLES readers, \* the threads that hold it for reading
          writers  \* the threads that hold it for writing

vars == <<readers, writers>>

Init == readers = {} /\ writers = {}

AcquireRead(t) ==
    /\ t \notin readers
    /\ writers = {}
    /\ readers' = readers \cup {t}
    /\ UNCHANGED writers

ReleaseRead(t) ==
    /\ t \in readers
    /\ readers' = readers \ {t}
    /\ UNCHANGED writers

AcquireWrite(t) ==
    /\ readers = {} /\ writers = {}
    /\ writers' = {t}
    /\ UNCHANGED readers

ReleaseWrite(t) ==
    /\ t \in writers
    /\ writers' = writers \ {t}
    /\ UNCHANGED readers

Next == \E t \in Threads : \/ AcquireRead(t) \/ ReleaseRead(t)
                           \/ AcquireWrite(t) \/ ReleaseWrite(t)

Spec == Init /\ [][Next]_vars
=============================================================================
