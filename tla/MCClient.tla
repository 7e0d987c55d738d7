------------------------------ MODULE MCClient ------------------------------
\* The two kinds of connections of the tunnel client, and the lock of the library it is
\* built on, for model checking.  They have no state in common: a behavior uses one.
EXTENDS AtomicRwLock, ControlLink, ClientRelay

VARIABLE part \* the part in use

MCInit == part \in {"lock", "link", "relay"} /\ Init /\ LinkInit /\ RelayInit

MCNext ==
    /\ UNCHANGED part
    /\ \/ part = "lock" /\ Next /\ UNCHANGED <<linkVars, relayVars>>
       \/ part = "link" /\ LinkNext /\ UNCHANGED <<vars, relayVars>>
       \/ part = "relay" /\ RelayNext /\ UNCHANGED <<vars, linkVars>>

\* The fairness of a part asks nothing of one that was never started: none of its fair
\* actions is enabled in its initial state.
MCSpec == /\ MCInit /\ [][MCNext]_<<part, vars, linkVars, relayVars>>
          /\ Fairness /\ LinkFair /\ RelayFair
=============================================================================
