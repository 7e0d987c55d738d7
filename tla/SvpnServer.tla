------------------------------ MODULE SvpnServer ------------------------------
(***************************************************************************)
(* The clients and channels of the first tunnel server (svpn/s_vpn.cpp)    *)
(* and its console (svpn/vpn_core.cpp).  The console thread creates        *)
(* channels, the epoll thread of the control connections adds and deletes  *)
(* clients with their channels, and the accept thread of a channel looks   *)
(* both up to ask the client for a connection.  The two maps have no lock. *)
(***************************************************************************)
EXTENDS Naturals, FiniteSets

CONSTANTS Clients,     \* control connections
          MaxSvChannels  \* how many channels are created in all

SvChannels == 1..MaxSvChannels
None     == "none"

ASSUME SvAssumption == MaxSvChannels \in Nat /\ None \notin Clients

VARIABLES
    client,  \* in m_vpn_client_map: "none", "listed", "deleted" but still in it, "erased"
    owner,   \* the client in whose m_channel_map each channel is, or None
    chan,    \* vpn_server_oi: "none", "new", "open", "failed", "half" (init failed), "deleted"
    nextId,  \* m_channel_id
    console,     \* the console thread
    ep,      \* the epoll thread of the control connections
    asks,    \* accept threads inside send_create_channel_msg
    leaked,  \* vpn_channel_info blocks nobody refers to
    life,    \* "down", "up", "stopped", "closed", or "terminated" by an exception
    raced    \* history: <<what, channel>> where a thread used what another one deletes

svVars == <<client, owner, chan, nextId, console, ep, asks, leaked, life, raced>>

Resting == [at |-> "rest", client |-> None, id |-> 0]

SvInit == /\ client = [c \in Clients |-> "none"]
          /\ owner = [n \in SvChannels |-> None] /\ chan = [n \in SvChannels |-> "none"]
          /\ nextId = 1 /\ console = Resting /\ ep = Resting /\ asks = {}
          /\ leaked = 0 /\ life = "down" /\ raced = {}

Race(what, n, P) == raced' = IF P THEN raced \cup {<<what, n>>} ELSE raced

StartServer == /\ life = "down"
               /\ life' = "up"
               /\ UNCHANGED <<client, owner, chan, nextId, console, ep, asks, leaked, raced>>
-----------------------------------------------------------------------------
(***************************************************************************)
(* The console: create_channel_server and add_channel.                     *)
(***************************************************************************)
\* The block is allocated before the client is looked up, and lost without one.
FindSvClient(c) ==
    /\ life = "up" /\ console.at = "rest" /\ nextId <= MaxSvChannels /\ leaked < MaxSvChannels
    /\ IF client[c] \in {"listed", "deleted"}
       THEN console' = [at |-> "insert", client |-> c, id |-> nextId] /\ UNCHANGED leaked
       ELSE leaked' = leaked + 1 /\ UNCHANGED console
    /\ UNCHANGED <<client, owner, chan, nextId, ep, asks, life, raced>>

\* Past the end of the loop over its channels, or deleted.
Departs(c) == client[c] # "listed" \/ (ep.at = "free" /\ ep.client = c)

\* The console uses the iterator it has found, without a lock.  The epoll thread may be
\* past the end of its loop over the channels of this client, or have deleted the client.
InsertChannel ==
    /\ console.at = "insert" /\ life # "terminated"
    /\ nextId' = nextId + 1
    /\ console' = [console EXCEPT !.at = "init"]
    /\ chan' = [chan EXCEPT ![console.id] = "new"]
    /\ owner' = [owner EXCEPT ![console.id] = console.client]
    /\ Race("insert", console.id, Departs(console.client))
    /\ UNCHANGED <<client, ep, asks, leaked, life>>

\* vpn_server_oi::init: a port may be taken.  A channel that failed stays in the map.
InitChannel ==
    /\ console.at = "init" /\ life # "terminated"
    /\ console' = Resting
    /\ \E r \in {"open", "failed", "half"} : chan' = [chan EXCEPT ![console.id] = r]
    /\ UNCHANGED <<client, owner, nextId, ep, asks, leaked, life, raced>>

\* stop() joins the threads of the control connections, not those of the channels.
Quit == /\ life = "up" /\ console.at = "rest" /\ ep.at = "rest"
        /\ life' = "stopped"
        /\ UNCHANGED <<client, owner, chan, nextId, console, ep, asks, leaked, raced>>
-----------------------------------------------------------------------------
(***************************************************************************)
(* The epoll thread; once it is joined, close() does the same for all.     *)
(***************************************************************************)
AddClient(c) == /\ life = "up" /\ client[c] = "none" /\ ep.at = "rest"
                /\ client' = [client EXCEPT ![c] = "listed"]
                /\ UNCHANGED <<owner, chan, nextId, console, ep, asks, leaked, life, raced>>

DelClient(c) ==
    /\ life \in {"up", "stopped"} /\ client[c] = "listed" /\ ep.at = "rest"
    /\ ep' = [at |-> "delete", client |-> c, id |-> 0]
    /\ UNCHANGED <<client, owner, chan, nextId, console, asks, leaked, life, raced>>

Held(c) == {n \in SvChannels : owner[n] = c}

\* The loop over m_channel_map, by increasing ids.  close() joins the threads of the
\* channel, with the accept thread that may be asking; joining a thread that was never
\* started terminates the program.
DeleteSvChannel(n) ==
    /\ ep.at = "delete" /\ n \in Held(ep.client) /\ life # "terminated"
    /\ (\A k \in Held(ep.client) : n <= k) /\ n \notin asks
    /\ IF chan[n] = "open"
       THEN /\ chan' = [chan EXCEPT ![n] = "deleted"]
            /\ owner' = [owner EXCEPT ![n] = None]
            /\ UNCHANGED <<life, raced>>
       ELSE /\ life' = "terminated"
            /\ Race("close", n, chan[n] = "new")
            /\ UNCHANGED <<chan, owner>>
    /\ UNCHANGED <<client, nextId, console, ep, asks, leaked>>

\* Broken variant: the client goes, its channels stay.
LoopEndsAtOnce ==
    /\ ep.at = "delete" /\ life # "terminated"
    /\ ep' = [ep EXCEPT !.at = "free"]
    /\ UNCHANGED <<client, owner, chan, nextId, console, asks, leaked, life, raced>>

LoopEnds ==
    /\ ep.at = "delete" /\ Held(ep.client) = {} /\ life # "terminated"
    /\ ep' = [ep EXCEPT !.at = "free"]
    /\ UNCHANGED <<client, owner, chan, nextId, console, asks, leaked, life, raced>>

DeleteSvClient ==
    /\ ep.at = "free"
    /\ client' = [client EXCEPT ![ep.client] = "deleted"]
    /\ ep' = [ep EXCEPT !.at = "erase"]
    /\ UNCHANGED <<owner, chan, nextId, console, asks, leaked, life, raced>>

EraseSvClient ==
    /\ ep.at = "erase"
    /\ client' = [client EXCEPT ![ep.client] = "erased"]
    /\ ep' = Resting
    /\ UNCHANGED <<owner, chan, nextId, console, asks, leaked, life, raced>>

CloseServer == /\ life = "stopped" /\ ep.at = "rest" /\ \A c \in Clients : client[c] # "listed"
               /\ life' = "closed"
               /\ UNCHANGED <<client, owner, chan, nextId, console, ep, asks, leaked, raced>>
-----------------------------------------------------------------------------
(***************************************************************************)
(* The accept thread of a channel: send_create_channel_msg for a user.     *)
(***************************************************************************)
LookUp(n) == /\ life \in {"up", "stopped"} /\ chan[n] = "open" /\ n \notin asks
             /\ owner[n] # None /\ client[owner[n]] \in {"listed", "deleted"}
             /\ asks' = asks \cup {n}
             /\ Race("ask", n, client[owner[n]] = "deleted")
             /\ UNCHANGED <<client, owner, chan, nextId, console, ep, leaked, life>>

SendCreate(n) == /\ n \in asks /\ life # "terminated"
                 /\ asks' = asks \ {n}
                 /\ Race("ask", n, owner[n] = None \/ client[owner[n]] # "listed")
                 /\ UNCHANGED <<client, owner, chan, nextId, console, ep, leaked, life>>
-----------------------------------------------------------------------------
SvConsole     == InsertChannel \/ InitChannel \/ Quit \/ \E c \in Clients : FindSvClient(c)
Controls    == LoopEnds \/ DeleteSvClient \/ EraseSvClient \/ CloseServer
               \/ (\E c \in Clients : AddClient(c) \/ DelClient(c))
               \/ \E n \in SvChannels : DeleteSvChannel(n)
SvNext      == \/ StartServer \/ SvConsole \/ Controls
               \/ \E n \in SvChannels : LookUp(n) \/ SendCreate(n)

SvSpec == SvInit /\ [][SvNext]_svVars
-----------------------------------------------------------------------------
\* del_client closes the channels of a client before it deletes and erases the client: a
\* channel is initialised or open only while its client is listed, and its accept thread,
\* which looks the client up in send_create_channel_msg, never finds it deleted.  Nothing
\* stops the console from inserting a channel when the loop of del_client has ended: that
\* channel, and no other, is never closed.
ChannelsDieWithClient ==
    \A n \in SvChannels :
        <<"insert", n>> \notin raced =>
            /\ chan[n] \in {"new", "open"} => client[owner[n]] = "listed"
            /\ <<"ask", n>> \notin raced

\* Deleting a client terminates the server only over a channel that create_channel_server
\* left in the map although init() failed, or has not initialised yet.
OnlyHalfMadeChannelsKill ==
    life = "terminated" =>
        \E n \in Held(ep.client) : chan[n] \in {"failed", "half"} \/ <<"close", n>> \in raced

\* Deleting a client is the end of its channels, and of nothing else, but for the races
\* with the console above (del_client, create_channel_server).
ChannelsDieAlone == ChannelsDieWithClient /\ OnlyHalfMadeChannelsKill
=============================================================================
