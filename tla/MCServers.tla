------------------------------ MODULE MCServers ------------------------------
\* The servers with their threads for model checking: the clients and channels of the
\* second server, those of the first one, one channel of the first one, and the start and
\* end of the second server.  A behavior uses one of the four.
EXTENDS BusinessServer, SvpnServer, SvpnChannel, ServerLife

VARIABLE part \* the part in use

MCInit == /\ part \in {"business", "svpn", "channel", "life"}
          /\ Init /\ SvInit /\ ChInit /\ LifeInit

MCNext ==
    /\ UNCHANGED part
    /\ \/ part = "business" /\ Next /\ UNCHANGED <<svVars, chVars, lifeVars>>
       \/ part = "svpn" /\ SvNext /\ UNCHANGED <<vars, chVars, lifeVars>>
       \/ part = "channel" /\ ChNext /\ UNCHANGED <<vars, svVars, lifeVars>>
       \/ part = "life" /\ LifeNext /\ UNCHANGED <<vars, svVars, chVars>>

MCSpec == MCInit /\ [][MCNext]_<<part, vars, svVars, chVars, lifeVars>>
=============================================================================
