----------------------------- MODULE MCThreads -----------------------------
\* Threads that wait for each other, for model checking: the frames of the control
\* connection, a channel of the first server, and the C thread pool.  They have no state
\* in common: a behavior uses one.
EXTENDS FrameLoop, SvpnChannel, ThreadPool

VARIABLE part \* the part in use

MCInit == part \in {"frames", "channel", "pool"} /\ FrInit /\ ChInit /\ Init

MCNext == /\ UNCHANGED part
          /\ \/ part = "frames" /\ FrNext /\ UNCHANGED <<chVars, vars>>
             \/ part = "channel" /\ ChNext /\ UNCHANGED <<frVars, vars>>
             \/ part = "pool" /\ Next /\ UNCHANGED <<frVars, chVars>>

\* The fairness of a part asks nothing of one that was never started: none of its fair
\* actions is enabled in its initial state.
MCSpec == /\ MCInit /\ [][MCNext]_<<part, frVars, chVars, vars>>
          /\ FrFair /\ ChFair /\ PoolFair
=============================================================================
