----------------------------- MODULE SvpnChannel -----------------------------
(***************************************************************************)
(* One channel of the first tunnel server: vpn_server_oi                   *)
(* (svpn/s_vpn_server.cpp) over two socket_server_accept                   *)
(* (lib_epoll_event/sh_socket_server_accept.cpp), "out" for the users and  *)
(* "in" for the tunnel client, each with an accept and an epoll thread.    *)
(*                                                                         *)
(* A user is put into the only slot and the tunnel client is asked for a   *)
(* connection; whatever connects to "in" next takes the user in the slot   *)
(* and then waits until that user is in the epoll set of "out".            *)
(*                                                                         *)
(* A connection stands for its socket and for its socket_info alike, so    *)
(* that descriptors are not reused here (DataChannel has that).            *)
(***************************************************************************)
EXTENDS Integers, FiniteSets

CONSTANTS Outs,   \* connections of users
          Ins,    \* connections of the tunnel client
          NoConn, \* the null pointer
          MaxActs \* how often the peers send or end a connection in all

Sides   == {"out", "in"}
Conns    == Outs \cup Ins
Of(s)   == IF s = "out" THEN Outs ELSE Ins
At(e)   == IF e \in Outs THEN "out" ELSE "in"

ASSUME ChAssumption == Outs \cap Ins = {} /\ NoConn \notin Conns

VARIABLES
    channel, \* "none", "open", then what close() is about to do
    running, \* m_epoll_run and m_accept_run of both servers
    epoll,   \* the epoll threads: "boot" (no epoll set yet), "run", "exited"
    events,  \* what epoll_wait returned and is not handled yet
    accept,  \* the accept threads: where they are, their connection, the user found
    slot,    \* m_p_info
    count,   \* m_connected_count
    requests,   \* requests the tunnel client has not answered
    info,    \* each connection: "none", "new", "joined", "ending" (EPOLLOUT), "freed"
    partner, \* m_data.m_ptr
    far,     \* the other end of each connection: "open", "fin", "rst"
    unreadAt,  \* connections with unread bytes
    quiet,   \* connections whose peer has sent nothing yet (it sends once)
    upset,    \* history: what happened that the pairing does not survive
    wild     \* history: where freed memory was touched

chVars == <<channel, running, epoll, events, accept, slot, count, requests, info,
            partner, far, unreadAt, quiet, upset, wild>>

chThreads == <<running, epoll, accept>>
chPeers   == <<far, unreadAt, quiet>>

IdleAccept == [at |-> "idle", me |-> NoConn, seen |-> NoConn]

ChInit ==
    /\ channel = "none"
    /\ running = [s \in Sides |-> TRUE]
    /\ epoll = [s \in Sides |-> "boot"] /\ events = [s \in Sides |-> {}]
    /\ accept = [s \in Sides |-> IdleAccept]
    /\ slot = NoConn /\ count = 0 /\ requests = 0
    /\ info = [e \in Conns |-> "none"] /\ partner = [e \in Conns |-> NoConn]
    /\ far = [e \in Conns |-> "open"] /\ unreadAt = {} /\ quiet = Conns
    /\ upset = {} /\ wild = {}

\* init: both servers are bound and started.
OpenChannel == /\ channel = "none"
               /\ channel' = "open"
               /\ UNCHANGED <<chThreads, events, slot, count, requests, info, partner,
                              chPeers, upset, wild>>

Note(what, where) == upset' = IF where THEN upset \cup {what} ELSE upset
Touches(what, e)    == wild' = IF e # NoConn /\ info[e] = "freed" THEN wild \cup {what} ELSE wild
-----------------------------------------------------------------------------
(***************************************************************************)
(* The peers.                                                              *)
(***************************************************************************)
Acts == Cardinality(Conns \ quiet) + Cardinality({e \in Conns : far[e] # "open"})

FarSends(e) ==
    /\ Acts < MaxActs
    /\ info[e] \in {"new", "joined", "ending"} /\ far[e] = "open" /\ e \in quiet
    /\ unreadAt' = unreadAt \cup {e} /\ quiet' = quiet \ {e}
    /\ UNCHANGED <<channel, chThreads, events, slot, count, requests, info, partner, far, upset, wild>>

FarEnds(e, how) ==
    /\ Acts < MaxActs
    /\ info[e] \in {"new", "joined", "ending"} /\ far[e] = "open"
    /\ far' = [far EXCEPT ![e] = how]
    /\ Note("reset", how = "rst")
    /\ UNCHANGED <<channel, chThreads, events, slot, count, requests, info, partner, unreadAt, quiet, wild>>
-----------------------------------------------------------------------------
(***************************************************************************)
(* run_accept of both servers.  The running flag is only tested between    *)
(* two waits.                                                              *)
(***************************************************************************)
Move(s, from, to) == /\ accept[s].at = from
                     /\ accept' = [accept EXCEPT ![s].at = to]

LastStep(s, from) == /\ accept[s].at = from
                     /\ accept' = [accept EXCEPT ![s] = IF running[s] THEN IdleAccept
                                                       ELSE [IdleAccept EXCEPT !.at = "exited"]]

TakeUser(o) ==
    /\ channel # "none" /\ accept["out"].at = "idle" /\ info[o] = "none"
    /\ info' = [info EXCEPT ![o] = "new"]
    /\ accept' = [accept EXCEPT !["out"] = [at |-> "set", me |-> o, seen |-> NoConn]]
    /\ UNCHANGED <<channel, running, epoll, events, slot, count, requests, partner, chPeers, upset, wild>>

\* The tunnel client connects once for each request.
TakeTunnel(i) ==
    /\ channel # "none" /\ accept["in"].at = "idle" /\ info[i] = "none" /\ requests > 0
    /\ requests' = requests - 1
    /\ info' = [info EXCEPT ![i] = "new"]
    /\ accept' = [accept EXCEPT !["in"] = [at |-> "peek", me |-> i, seen |-> NoConn]]
    /\ UNCHANGED <<channel, running, epoll, events, slot, count, partner, chPeers, upset, wild>>

StopAccepting(s) ==
    /\ accept[s].at = "idle" /\ ~running[s]
    /\ accept' = [accept EXCEPT ![s].at = "exited"]
    /\ UNCHANGED <<channel, running, epoll, events, slot, count, requests, info, partner, chPeers,
                   upset, wild>>

\* add_eool: fails when the epoll thread has not made the epoll set yet.
AddEpoll(s, from, to) ==
    LET e == accept[s].me IN
    /\ Move(s, from, to)
    /\ info' = IF epoll[s] = "run" THEN [info EXCEPT ![e] = "joined"] ELSE info
    /\ Note("early", epoll[s] # "run")
-----------------------------------------------------------------------------
(***************************************************************************)
(* event_out::on_accept, add_eool, event_out::on_connected.                *)
(***************************************************************************)
\* One slot for all users: the one in it, or about to be taken out of it, is lost.
SetSlot ==
    /\ Move("out", "set", "ask")
    /\ slot' = accept["out"].me
    /\ Note("crowded", slot # NoConn \/ accept["in"].at = "link")
    /\ UNCHANGED <<channel, running, epoll, events, count, requests, info, partner, chPeers, wild>>

\* Broken variant: the request is lost.
AskNobody == /\ Move("out", "ask", "notify")
             /\ UNCHANGED <<channel, running, epoll, events, slot, count, requests, info, partner,
                            chPeers, upset, wild>>

Ask == /\ Move("out", "ask", "notify")
       /\ requests' = requests + 1
       /\ UNCHANGED <<channel, running, epoll, events, slot, count, info, partner, chPeers, upset, wild>>

\* m_cond has one waiter at most, the accept thread of "in", in either of its waits.
WakeUp(a) == [a EXCEPT !.at = CASE a.at = "wait"  -> "reread"
                                [] a.at = "await" -> "take"
                                [] OTHER          -> a.at]

NotifyIn ==
    /\ accept["out"].at = "notify"
    /\ accept' = [accept EXCEPT !["out"].at = "add", !["in"] = WakeUp(@)]
    /\ Note("overslept", accept["in"].at = "await")
    /\ UNCHANGED <<channel, running, epoll, events, slot, count, requests, info, partner, chPeers, wild>>

AddUser == /\ AddEpoll("out", "add", "count")
           /\ UNCHANGED <<channel, running, epoll, events, slot, count, requests, partner, chPeers, wild>>

\* Nobody waits on m_connected_cond, which is notified here.
CountUser == /\ LastStep("out", "count")
             /\ count' = count + 1
             /\ UNCHANGED <<channel, running, epoll, events, slot, requests, info, partner,
                            chPeers, upset, wild>>
-----------------------------------------------------------------------------
(***************************************************************************)
(* event_in::on_accept, add_eool.                                          *)
(***************************************************************************)
Peek == /\ accept["in"].at = "peek"
        /\ accept' = [accept EXCEPT !["in"].seen = slot,
                                    !["in"].at = IF slot = NoConn THEN "wait" ELSE "link"]
        /\ UNCHANGED <<channel, running, epoll, events, slot, count, requests, info, partner,
                       chPeers, upset, wild>>

WaitEnds == /\ Move("in", "wait", "reread")
            /\ UNCHANGED <<channel, running, epoll, events, slot, count, requests, info, partner,
                           chPeers, upset, wild>>

\* Without a user the connection is kept, with no partner.
Reread ==
    /\ accept["in"].at = "reread"
    /\ accept' = [accept EXCEPT !["in"].seen = slot,
                                !["in"].at = IF slot = NoConn THEN "add" ELSE "link"]
    /\ Note("unpaired", slot = NoConn)
    /\ UNCHANGED <<channel, running, epoll, events, slot, count, requests, info, partner, chPeers, wild>>

\* Broken variant: the user is not told of the tunnel connection.
LinkOneWay ==
    LET i == accept["in"].me  o == accept["in"].seen IN
    /\ Move("in", "link", "check")
    /\ partner' = [partner EXCEPT ![i] = o]
    /\ slot' = NoConn
    /\ Touches("link", o)
    /\ UNCHANGED <<channel, running, epoll, events, count, requests, info, chPeers, upset>>

\* Under the mutex again, but whatever is in the slot by now is forgotten.
Link ==
    LET i == accept["in"].me  o == accept["in"].seen IN
    /\ Move("in", "link", "check")
    /\ partner' = [partner EXCEPT ![i] = o, ![o] = i]
    /\ slot' = NoConn
    /\ Touches("link", o)
    /\ UNCHANGED <<channel, running, epoll, events, count, requests, info, chPeers, upset>>

\* Broken variant: the tunnel side does not wait for the user to be counted.
CheckNothing == /\ Move("in", "check", "add")
                /\ count' = count - 1
                /\ UNCHANGED <<channel, running, epoll, events, slot, requests, info, partner,
                               chPeers, upset, wild>>

CheckCount ==
    /\ accept["in"].at = "check"
    /\ IF count > 0 THEN Move("in", "check", "add") /\ count' = count - 1
                    ELSE Move("in", "check", "await") /\ UNCHANGED count
    /\ UNCHANGED <<channel, running, epoll, events, slot, requests, info, partner, chPeers, upset, wild>>

\* The wait for the user is on m_cond: it ends after 5 s, or with the next user.
AwaitEnds == /\ Move("in", "await", "take")
             /\ upset' = upset \cup {"overslept"}
             /\ UNCHANGED <<channel, running, epoll, events, slot, count, requests, info, partner,
                            chPeers, wild>>

TakeCount == /\ Move("in", "take", "add")
             /\ count' = count - 1
             /\ UNCHANGED <<channel, running, epoll, events, slot, requests, info, partner,
                            chPeers, upset, wild>>

AddTunnel ==
    LET i == accept["in"].me IN
    /\ LastStep("in", "add")
    /\ info' = IF epoll["in"] = "run" THEN [info EXCEPT ![i] = "joined"] ELSE info
    /\ Note("early", epoll["in"] # "run")
    /\ UNCHANGED <<channel, running, epoll, events, slot, count, requests, partner, chPeers, wild>>
-----------------------------------------------------------------------------
(***************************************************************************)
(* run_epoll of both servers with on_recv_data and on_(a_)disconnected,    *)
(* which are the same for event_out and event_in.                          *)
(***************************************************************************)
MakeSet(s) == /\ channel # "none" /\ epoll[s] = "boot"
              /\ epoll' = [epoll EXCEPT ![s] = "run"]
              /\ UNCHANGED <<channel, running, events, accept, slot, count, requests, info,
                             partner, chPeers, upset, wild>>

\* What is ready: a connection to be torn down, or one that can be read.
ReadyAt(s) == {[end |-> e, kind |-> "out"] : e \in {x \in Of(s) : info[x] = "ending"}}
              \cup {[end |-> e, kind |-> "in"] :
                        e \in {x \in Of(s) : info[x] = "joined" /\ (x \in unreadAt \/ far[x] # "open")}}

WaitEvents(s) == /\ epoll[s] = "run" /\ running[s] /\ events[s] = {} /\ ReadyAt(s) # {}
                 /\ events' = [events EXCEPT ![s] = ReadyAt(s)]
                 /\ UNCHANGED <<channel, chThreads, slot, count, requests, info, partner, chPeers,
                                upset, wild>>

Handles(s, v) == v \in events[s] /\ events' = [events EXCEPT ![s] = @ \ {v}]

\* A user that waits for its tunnel connection and is freed leaves its address behind.
Leaves(e) == e \in {slot, accept["in"].seen} /\ partner[e] = NoConn

OnOut(s, v) ==
    /\ v.kind = "out" /\ Handles(s, v)
    /\ info' = [info EXCEPT ![v.end] = "freed"]
    /\ UNCHANGED <<channel, chThreads, slot, count, requests, partner, chPeers, upset, wild>>

\* Bytes without a partner are dropped; only the loss of bytes from the tunnel is noted.
OnData(s, v) ==
    LET e == v.end IN
    /\ v.kind = "in" /\ Handles(s, v) /\ e \in unreadAt /\ far[e] # "rst"
    /\ unreadAt' = unreadAt \ {e}
    /\ Note("dropped", e \in Ins /\ partner[e] = NoConn)
    /\ Touches("relay", partner[e])
    /\ UNCHANGED <<channel, chThreads, slot, count, requests, info, partner, far, quiet>>

\* close_socket on the partner, which is in the epoll set, or not yet.
EndPartner(p) == IF p # NoConn /\ info[p] = "joined" THEN [info EXCEPT ![p] = "ending"] ELSE info

\* Broken variant: the partner is not told.
OnFinQuiet(s, v) ==
    LET e == v.end IN
    /\ v.kind = "in" /\ Handles(s, v) /\ e \notin unreadAt /\ far[e] = "fin"
    /\ info' = [info EXCEPT ![e] = "freed"]
    /\ upset' = upset \cup (IF Leaves(e) THEN {"left"} ELSE {})
    /\ Touches("tell", partner[e])
    /\ UNCHANGED <<channel, chThreads, slot, count, requests, partner, chPeers>>

OnFinish(s, v) ==
    LET e == v.end  p == partner[e] IN
    /\ v.kind = "in" /\ Handles(s, v) /\ e \notin unreadAt /\ far[e] = "fin"
    /\ info' = [EndPartner(p) EXCEPT ![e] = "freed"]
    /\ upset' = upset \cup (IF Leaves(e) THEN {"left"} ELSE {})
                    \cup (IF p # NoConn /\ info[p] = "new" THEN {"missed"} ELSE {})
                    \cup (IF [end |-> p, kind |-> "in"] \in events["out"] \cup events["in"]
                          THEN {"crossed"} ELSE {})
    /\ Touches("tell", p)
    /\ UNCHANGED <<channel, chThreads, slot, count, requests, partner, chPeers>>

OnRst(s, v) ==
    LET e == v.end IN
    /\ v.kind = "in" /\ Handles(s, v) /\ far[e] = "rst"
    /\ info' = [info EXCEPT ![e] = "freed"]
    /\ Note("left", Leaves(e))
    /\ UNCHANGED <<channel, chThreads, slot, count, requests, partner, chPeers, wild>>

StopPolling(s) == /\ epoll[s] = "run" /\ ~running[s] /\ events[s] = {}
                  /\ epoll' = [epoll EXCEPT ![s] = "exited"]
                  /\ UNCHANGED <<channel, running, events, accept, slot, count, requests, info,
                                 partner, chPeers, upset, wild>>
-----------------------------------------------------------------------------
(***************************************************************************)
(* vpn_server_oi::close, in the thread that deletes the client.            *)
(***************************************************************************)
\* Broken variant: the accept thread is not told to stop.
CloseChannelHalf ==
    /\ channel = "open"
    /\ channel' = "stopIn"
    /\ accept' = [accept EXCEPT !["in"] = WakeUp(@)]
    /\ Note("overslept", accept["in"].at = "await")
    /\ UNCHANGED <<running, epoll, events, slot, count, requests, info, partner, chPeers, wild>>

\* notify_all, then the flags of "out".
CloseChannel ==
    /\ channel = "open"
    /\ channel' = "stopIn"
    /\ running' = [running EXCEPT !["out"] = FALSE]
    /\ accept' = [accept EXCEPT !["in"] = WakeUp(@)]
    /\ Note("overslept", accept["in"].at = "await")
    /\ UNCHANGED <<epoll, events, slot, count, requests, info, partner, chPeers, wild>>

Joined(s) == epoll[s] = "exited" /\ accept[s].at = "exited"

StopIn == /\ channel = "stopIn" /\ Joined("out")
          /\ channel' = "freeOut"
          /\ running' = [running EXCEPT !["in"] = FALSE]
          /\ UNCHANGED <<epoll, events, accept, slot, count, requests, info, partner, chPeers, upset, wild>>

\* socket_server_accept::close tells every connection, then frees them all.
FreeAll(s, next) ==
    LET left == {e \in Of(s) : info[e] \in {"new", "joined", "ending"}} IN
    /\ channel' = next
    /\ info' = [e \in Conns |-> IF e \in left THEN "freed" ELSE info[e]]
    /\ wild' = IF \E e \in left : partner[e] # NoConn /\ info[partner[e]] = "freed"
               THEN wild \cup {"close"} ELSE wild
    /\ UNCHANGED <<chThreads, events, slot, count, requests, partner, chPeers, upset>>

FreeOut == channel = "freeOut" /\ Joined("in") /\ FreeAll("out", "freeIn")
FreeIn  == channel = "freeIn" /\ FreeAll("in", "closed")
-----------------------------------------------------------------------------
UserSide   == SetSlot \/ Ask \/ NotifyIn \/ AddUser \/ CountUser \/ StopAccepting("out")
TunnelSide == Peek \/ Reread \/ Link \/ CheckCount \/ TakeCount \/ AddTunnel
              \/ StopAccepting("in")
TimesOut   == WaitEnds \/ AwaitEnds
Polls(s)   == \/ MakeSet(s) \/ WaitEvents(s) \/ StopPolling(s)
              \/ \E v \in events[s] : OnOut(s, v) \/ OnData(s, v) \/ OnFinish(s, v) \/ OnRst(s, v)
Closes     == StopIn \/ FreeOut \/ FreeIn
Peers      == \E e \in Conns : FarSends(e) \/ \E how \in {"fin", "rst"} : FarEnds(e, how)

ChNext == \/ OpenChannel \/ CloseChannel \/ Closes
          \/ UserSide \/ TunnelSide \/ TimesOut
          \/ \E s \in Sides : Polls(s)
          \/ \E o \in Outs : TakeUser(o)
          \/ \E i \in Ins : TakeTunnel(i)
          \/ Peers

\* Threads are scheduled, a timed wait ends, and the tunnel client answers.
ChFair == /\ WF_chVars(UserSide) /\ WF_chVars(TunnelSide) /\ WF_chVars(TimesOut)
          /\ \A s \in Sides : WF_chVars(Polls(s))
          /\ WF_chVars(Closes)
          /\ WF_chVars(\E i \in Ins : TakeTunnel(i))

ChSpec == ChInit /\ [][ChNext]_chVars /\ ChFair
-----------------------------------------------------------------------------
\* The rendezvous in event_out::on_accept and event_in::on_accept forgets nobody: as
\* long as no second user arrives during it, a connected user is in the slot, in
\* the hands of the tunnel side, or paired with a connection that knows it.
NobodyForgotten ==
    "crowded" \notin upset =>
        \A o \in Outs :
            info[o] = "joined" /\ accept["out"].me # o =>
                \/ o \in {slot, accept["in"].seen}
                \/ partner[o] \in Ins /\ partner[partner[o]] = o

\* event_in::on_accept waits for m_connected_count so that the tunnel connection is
\* relayed from only when the user's is in the epoll set too: true unless an
\* earlier tunnel connection found no user (its user's count is left over), a user
\* was overwritten, the wait on the wrong condition variable ended, or a
\* connection came before the epoll set.  Bytes from the tunnel are then kept.
PairIsReady ==
    upset \cap {"unpaired", "crowded", "overslept", "early"} = {} =>
        /\ \A i \in Ins : info[i] = "joined" => partner[i] \in Outs /\ info[partner[i]] # "new"
        /\ "dropped" \notin upset

\* The threads of the two servers touch a freed socket_info only after a user left
\* while it waited, a reset (on_a_disconnected tells nobody), or when one end is
\* told too early or too late; close() always does, when a pair is left.
FreedOnlyWhenCrossed ==
    wild \subseteq {"close"} \/ upset \cap {"left", "reset", "missed", "crossed"} # {}

\* close() returns although it joins accept threads that wait for a partner.
ChannelCloses == (channel = "stopIn") ~> (channel = "closed")

\* The user in the slot is taken out of it by the next tunnel connection.
SlotIsEmptied == \A o \in Outs : (slot = o) ~> (slot # o \/ channel # "open")
=============================================================================
