------------------------------- MODULE MCDpdk -------------------------------
\* What the threads of a dpdk program share -- the ring, the locks and the counters --
\* for model checking.  They do not call each other: a behavior uses one of them.
EXTENDS Ring, RteLocks, RteAtomic, TLC

VARIABLE shares \* what the threads share

MCInit == /\ shares \in {"ring", "locks", "counters"}
          /\ RingInit /\ LocksInit /\ AtomicInit

MCNext ==
    /\ UNCHANGED shares
    /\ \/ shares = "ring" /\ RingNext /\ UNCHANGED <<lockVars, atomicVars>>
       \/ shares = "locks" /\ LocksNext /\ UNCHANGED <<ringVars, atomicVars>>
       \/ shares = "counters" /\ AtomicNext /\ UNCHANGED <<ringVars, lockVars>>

MCSpec == MCInit /\ [][MCNext]_<<shares, ringVars, lockVars, atomicVars>>

\* The users of a side of the ring are interchangeable.
Symmetry == Permutations(Producers) \cup Permutations(Consumers)
=============================================================================
