--------------------------- MODULE BusinessServer ---------------------------
(***************************************************************************)
(* business_server (vpn/server/business_server.cpp) and the creation and   *)
(* deletion of channels in data_channel_server.cpp: which tunnel clients   *)
(* are connected, which channels each one owns, which listeners are open.  *)
(*                                                                         *)
(* Three threads use the maps without a lock: the business epoll thread    *)
(* (connections come and go), the console thread of vpn_core (creates      *)
(* channels) and the accept thread of the data channels (asks the owner of *)
(* a channel for a data connection each time a user connects).             *)
(***************************************************************************)
EXTENDS Integers, FiniteSets

CONSTANTS MaxClients,  \* how many tunnel clients connect in all
          MaxChannels, \* how many channels a client may be given
          NFds,        \* descriptor numbers for the clients' connections
          MaxUsers     \* how many users connect in all

ASSUME ConstantsAssumption ==
    /\ MaxClients \in Nat /\ MaxChannels \in Nat
    /\ NFds \in Nat /\ MaxUsers \in Nat

Ids       == 1..MaxClients   \* m_sh_fd of the connection, also the client id
Chs       == 1..MaxChannels
Channels  == Ids \X Chs      \* the key of data_channel_server::m_channel_map
Fds       == 1..NFds
Nobody    == 0

VARIABLES
    conn,      \* control connection of each client: "none", "up", "leaving", "gone"
    file,      \* the client whose connection is open at each descriptor
    fdOf,      \* m_info->m_fd of each client
    clients,   \* keys of m_clinet_map
    channels,  \* m_channel_map of each vpn_client_info
    listener,  \* of each channel, the listeners entered in data_channel_server::m_channel_map
    lost,      \* channels with listeners that the map did not take, its key being there
    stray,     \* channels with an out listener alone, whose creation failed half way
    con,       \* the console thread
    biz,       \* the business epoll thread
    acc,       \* the accept thread
    users,     \* how many users have connected
    asked,     \* messages sent: to which client, for which channel
    ghosts     \* history: who used freed memory; whose call on a client overlapped its departure

vars == <<conn, file, fdOf, clients, channels, listener, lost, stray, con, biz, acc,
          users, asked, ghosts>>

net      == <<conn, file, fdOf>>
registry == <<clients, channels>>
data     == <<listener, lost, stray>>
Idle     == [at |-> "idle", id |-> Nobody, ch |-> 0, fd |-> 0, stray |-> FALSE]

Init ==
    /\ conn = [i \in Ids |-> "none"]
    /\ file = [f \in Fds |-> Nobody]
    /\ fdOf = [i \in Ids |-> 0]
    /\ clients = {} /\ channels = [i \in Ids |-> {}]
    /\ listener = [c \in Channels |-> "none"] /\ lost = {} /\ stray = {}
    /\ con = Idle /\ biz = Idle /\ acc = Idle
    /\ users = 0
    /\ asked = {}
    /\ ghosts = [freed |-> {}, overlapped |-> {}]

Least(S)   == CHOOSE x \in S : \A y \in S : x <= y
Largest(S) == IF S = {} THEN 0 ELSE CHOOSE x \in S : \A y \in S : x >= y

\* Client info is freed when it leaves the map; its channel infos are freed one
\* by one before that, and stay in the map of the client with dangling pointers.
Gone(i)        == i \notin clients
GoneCh(i, chs) == Gone(i) \/ (biz.at # "idle" /\ biz.id = i /\ \E ch \in chs : ch <= biz.ch)

Blame(who, when) == IF when THEN [ghosts EXCEPT !.freed = @ \cup {who}] ELSE ghosts

\* The client whose departure the call of a thread meets.
Meets(who, i) == {<<who, j>> : j \in {k \in {i} : conn[k] = "leaving"}}
-----------------------------------------------------------------------------
(***************************************************************************)
(* The business epoll thread.                                              *)
(***************************************************************************)
\* accept and on_connected.
Connect ==
    /\ biz = Idle
    /\ \E i \in Ids : conn[i] = "none"
    /\ \E f \in Fds : file[f] = Nobody
    /\ LET i == Least({j \in Ids : conn[j] = "none"})
           f == Least({g \in Fds : file[g] = Nobody})
       IN /\ conn' = [conn EXCEPT ![i] = "up"]
          /\ file' = [file EXCEPT ![f] = i]
          /\ fdOf' = [fdOf EXCEPT ![i] = f]
          /\ clients' = clients \cup {i}
    /\ UNCHANGED <<channels, data, con, biz, acc, users, asked, ghosts>>

\* on_disconnected, also for a reset: the channels one after the other, ...
Leave(i) ==
    /\ biz = Idle /\ conn[i] = "up"
    /\ conn' = [conn EXCEPT ![i] = "leaving"]
    /\ biz' = [Idle EXCEPT !.at = "channels", !.id = i]
    /\ ghosts' = [ghosts EXCEPT !.overlapped = @ \cup
          {w \in {"console", "accept"} \X {i} : (IF w[1] = "console" THEN con ELSE acc).id = i}]
    /\ UNCHANGED <<file, fdOf, registry, data, con, acc, users, asked>>

Later == {ch \in channels[biz.id] : ch > biz.ch}

\* Broken variant of the loop: it ends after one channel.
DeleteChannelOnce ==
    /\ biz.at = "channels" /\ Later # {} /\ biz.ch = 0
    /\ biz' = [biz EXCEPT !.ch = MaxChannels]
    /\ listener' = [listener EXCEPT ![<<biz.id, Least(Later)>>] = "closed"]
    /\ UNCHANGED <<net, registry, lost, stray, con, acc, users, asked, ghosts>>

\* delete_channel_server leaves the entry in its map; the channel info is freed.
DeleteChannel ==
    /\ biz.at = "channels" /\ Later # {}
    /\ biz' = [biz EXCEPT !.ch = Least(Later)]
    /\ LET c == <<biz.id, Least(Later)>> IN
       listener' = IF listener[c] # "none" THEN [listener EXCEPT ![c] = "closed"] ELSE listener
    /\ UNCHANGED <<net, registry, lost, stray, con, acc, users, asked, ghosts>>

\* ... then the map entry and the client info, ...
EraseClient ==
    /\ biz.at = "channels" /\ Later = {}
    /\ biz' = [biz EXCEPT !.at = "close"]
    /\ clients' = clients \ {biz.id}
    /\ UNCHANGED <<net, channels, data, con, acc, users, asked, ghosts>>

\* ... and the descriptor, whose number is free for the next client.
CloseConn ==
    /\ biz.at = "close"
    /\ biz' = Idle
    /\ conn' = [conn EXCEPT ![biz.id] = "gone"]
    /\ file' = [file EXCEPT ![fdOf[biz.id]] = Nobody]
    /\ UNCHANGED <<fdOf, registry, data, con, acc, users, asked, ghosts>>
-----------------------------------------------------------------------------
(***************************************************************************)
(* The console thread: create_channel_server, of the business server and,  *)
(* within it, of the data channel server.                                  *)
(***************************************************************************)
ToCon(at) == con' = [con EXCEPT !.at = at]

\* Find the client and take the next channel id; the iterator is kept.  The ids
\* are read from the channel infos, which a departure may have freed.
FindClient(i) ==
    /\ con = Idle /\ i \in clients /\ Largest(channels[i]) < MaxChannels
    /\ \E ch \in IF GoneCh(i, channels[i]) THEN Chs ELSE {Largest(channels[i]) + 1} :
          con' = [Idle EXCEPT !.at = "bind", !.id = i, !.ch = ch]
    /\ ghosts' = [ghosts EXCEPT
          !.freed = IF GoneCh(i, channels[i]) THEN @ \cup {"console"} ELSE @,
          !.overlapped = @ \cup Meets("console", i)]
    /\ UNCHANGED <<net, registry, data, biz, acc, users, asked>>

\* server_sock_init of both sockets, which may fail for a reason of the system.
Bind == /\ con.at = "bind"
        /\ con' = Idle \/ ToCon("listenOut")
        /\ UNCHANGED <<net, registry, data, biz, acc, users, asked, ghosts>>

\* server_add_eool of the "out" listener.
ListenOut ==
    /\ con.at = "listenOut"
    /\ con' = Idle \/ ToCon("listenIn")
    /\ UNCHANGED <<net, registry, data, biz, acc, users, asked, ghosts>>

\* And of the "in" listener, on the same port as the other for example.  When it
\* fails, the "out" listener stays in the epoll set although its block is freed.
ListenIn ==
    /\ con.at = "listenIn"
    /\ \/ con' = Idle /\ stray' = stray \cup {<<con.id, con.ch>>}
       \/ ToCon("insertData") /\ UNCHANGED stray
    /\ UNCHANGED <<net, registry, listener, lost, biz, acc, users, asked, ghosts>>

\* The map, which never forgets a key, keeps what it has under a key that it has.
InsertData ==
    /\ con.at = "insertData"
    /\ ToCon("insertClient")
    /\ LET c == <<con.id, con.ch>> IN
       IF listener[c] = "none"
       THEN listener' = [listener EXCEPT ![c] = "open"] /\ UNCHANGED lost
       ELSE lost' = lost \cup {c} /\ UNCHANGED listener
    /\ UNCHANGED <<net, registry, stray, biz, acc, users, asked, ghosts>>

\* The out listener of a channel that is being created is in the epoll set, but not in
\* the map yet.
Nascent(c) == con.at \in {"listenIn", "insertData"} /\ c = <<con.id, con.ch>>

\* Broken variant: the channel is not entered for its client.
InsertClientForgets ==
    /\ con.at = "insertClient"
    /\ con' = Idle
    /\ UNCHANGED <<net, registry, data, biz, acc, users, asked, ghosts>>

\* Through the iterator found at the start, whatever became of the client.
InsertClient ==
    /\ con.at = "insertClient"
    /\ con' = Idle
    /\ channels' = [channels EXCEPT ![con.id] = @ \cup {con.ch}]
    /\ ghosts' = Blame("console", Gone(con.id))
    /\ UNCHANGED <<net, clients, data, biz, acc, users, asked>>
-----------------------------------------------------------------------------
(***************************************************************************)
(* The accept thread: a user connects to an "out" listener, and            *)
(* send_create_channel_msg asks the owner for a data connection.           *)
(***************************************************************************)
Takes(c, freed) ==
    /\ acc' = [Idle EXCEPT !.at = "client", !.id = c[1], !.ch = c[2], !.stray = freed]
    /\ ghosts' = [ghosts EXCEPT !.overlapped = @ \cup Meets("accept", c[1])]

AcceptUser(c) ==
    /\ acc = Idle /\ users < MaxUsers
    /\ listener[c] = "open" \/ c \in lost \/ Nascent(c)
    /\ users' = users + 1
    /\ Takes(c, FALSE)
    /\ UNCHANGED <<net, registry, data, con, biz, asked>>

\* A user connects to a listener whose block is freed: what that says of its end, its
\* client and its channel is anything.
AcceptStray ==
    /\ acc = Idle /\ users < MaxUsers
    /\ stray # {}
    /\ users' = users + 1
    /\ \/ acc' = Idle /\ UNCHANGED ghosts
       \/ \E c \in Channels : Takes(c, TRUE)
    /\ UNCHANGED <<net, registry, data, con, biz, asked>>

\* Broken variant: a client that is not in the map is used all the same.
LookupClientUnchecked ==
    /\ acc.at = "client"
    /\ acc' = [acc EXCEPT !.at = "channel"]
    /\ UNCHANGED <<net, registry, data, con, biz, users, asked, ghosts>>

\* "not find m_client": the user waits, and nobody will come for it.
LookupClient ==
    /\ acc.at = "client"
    /\ acc' = IF acc.id \in clients THEN [acc EXCEPT !.at = "channel"] ELSE Idle
    /\ UNCHANGED <<net, registry, data, con, biz, users, asked, ghosts>>

\* Find the channel and read the client's descriptor; "not find channel" as above.
\* What a freed block says is anything.
LookupChannel ==
    /\ acc.at = "channel"
    /\ LET freed == GoneCh(acc.id, {acc.ch}) IN
       /\ \/ /\ freed \/ acc.ch \in channels[acc.id]
             /\ \E f \in IF freed THEN Fds ELSE {fdOf[acc.id]} :
                   acc' = [acc EXCEPT !.at = "send", !.fd = f]
          \/ /\ freed \/ acc.ch \notin channels[acc.id]
             /\ acc' = Idle
       /\ ghosts' = Blame("accept", freed)
    /\ UNCHANGED <<net, registry, data, con, biz, users, asked>>

\* By now the descriptor may be closed, or another client's.
Send ==
    /\ acc.at = "send"
    /\ acc' = Idle
    /\ asked' = asked \cup {[to |-> i, owner |-> acc.id] : i \in {file[acc.fd]} \ {Nobody}}
    /\ UNCHANGED <<net, registry, data, con, biz, users, ghosts>>
-----------------------------------------------------------------------------
Business == Connect \/ (\E i \in Ids : Leave(i)) \/ DeleteChannel \/ EraseClient \/ CloseConn
Console  == \/ \E i \in Ids : FindClient(i)
            \/ Bind \/ ListenOut \/ ListenIn \/ InsertData \/ InsertClient
Acceptor == (\E c \in Channels : AcceptUser(c)) \/ AcceptStray
            \/ LookupClient \/ LookupChannel \/ Send

Next == Business \/ Console \/ Acceptor

Spec == Init /\ [][Next]_vars
-----------------------------------------------------------------------------
TypeOK ==
    /\ conn \in [Ids -> {"none", "up", "leaving", "gone"}]
    /\ file \in [Fds -> Ids \cup {Nobody}] /\ fdOf \in [Ids -> 0..NFds]
    /\ clients \subseteq Ids /\ channels \in [Ids -> SUBSET Chs]
    /\ listener \in [Channels -> {"none", "open", "closed"}]
    /\ lost \subseteq Channels /\ stray \subseteq Channels
    /\ \A t \in {con, biz, acc} : t.id \in Ids \cup {Nobody} /\ t.ch \in 0..MaxChannels /\ t.fd \in 0..NFds
    /\ users \in 0..MaxUsers
    /\ \A m \in asked : m.to \in Ids

\* The map holds exactly the clients whose connection is open, and each one's
\* descriptor is its own.
RegistryMatchesConnections ==
    \A i \in Ids :
        /\ i \in clients => conn[i] \in {"up", "leaving"} /\ file[fdOf[i]] = i
        /\ conn[i] = "up" => i \in clients

\* A channel that a client owns has both listeners and is known to the data
\* server, so that the client's departure can close it: no failure path of the
\* creation leaves a registered channel without listeners.
OwnedIsListening ==
    \A c \in Channels : c[2] \in channels[c[1]] /\ conn[c[1]] = "up" => listener[c] = "open"

\* The key of a new channel is not in the data server's map, which never forgets
\* one: its insert would silently keep the old channel.  Only ids read from freed
\* channel infos can repeat one.
KeyIsFresh ==
    con.at \in {"bind", "listenOut", "listenIn", "insertData"} /\ listener[<<con.id, con.ch>>] # "none"
        => "console" \in ghosts.freed

\* A pair of listeners is its client's, which is in the map with the channel in its own, or
\* is about to be, or the client left under its creation: then nobody closes the pair.
\* (The listener of a creation that failed half way is nobody's from then on, and
\* stays: it is none of these, see "stray".)
UnownedOnlyIfOvertaken ==
    \A c \in Channels :
        listener[c] = "open" \/ c \in lost =>
            \/ listener[c] = "open" /\ c[1] \in clients /\ c[2] \in channels[c[1]]
            \/ con.at = "insertClient" /\ c = <<con.id, con.ch>>
            \/ <<"console", c[1]>> \in ghosts.overlapped

\* A pair of listeners lives as long as its client, whatever the console, the accept thread
\* and the departures of clients interleave (create_channel_server, on_disconnected).
ListenersDieWithClient == OwnedIsListening /\ KeyIsFresh /\ UnownedOnlyIfOvertaken

\* The console thread and the accept thread touch freed memory of a client only
\* if a departure overlapped their own call: a user that connects to a listener
\* that outlived its client is turned away by the lookup.
FreedOnlyIfOvertaken ==
    \A who \in {"console", "accept"} :
        who \in ghosts.freed => \E i \in Ids : <<who, i>> \in ghosts.overlapped

\* A request for a data connection reaches the client that the listener names, the owner
\* unless its block is freed, or a client that connected after the descriptor was closed
\* under the accept thread.
RequestReachesOwner ==
    \A m \in asked : \/ m.to = m.owner
                     \/ conn[m.owner] = "gone" /\ m.to > m.owner
                     \/ "accept" \in ghosts.freed

\* What the console and the accept thread read of a client, before it left, they use on
\* another one or on freed memory only when its departure overtook that very call.
StaleOnlyIfOvertaken == FreedOnlyIfOvertaken /\ RequestReachesOwner

\* A user of a channel whose owner stays connected is dropped without a request
\* only if the channel is still being created, or its creation failed half way: the
\* listener is open before send_create_channel_msg can find the channel.
UnaskedOnlyEarly ==
    [][(acc.at \in {"client", "channel"} /\ acc' = Idle /\ conn[acc.id] = "up")
        => \/ con.id = acc.id /\ con.ch = acc.ch
           \/ acc.stray \/ <<acc.id, acc.ch>> \in stray]_vars
=============================================================================
