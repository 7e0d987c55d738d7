------------------------------ MODULE ServerLife ------------------------------
(***************************************************************************)
(* The life of the tunnel server (vpn/server/vpn_core.cpp): start, the     *)
(* console until "q", stop and close of business_server and                *)
(* data_channel_server with the threads each of them runs.  stop() ends    *)
(* the two epoll threads.  Nobody ends the accept thread of the data       *)
(* channels: it goes on while everything it uses is closed and deleted,    *)
(* until the destructor of its std::thread terminates the process.         *)
(***************************************************************************)
EXTENDS Naturals, FiniteSets

CONSTANTS LifeChannels, \* channels the console creates
          LifeUsers     \* connections to the listeners of channels

\* A connection is none of the other things a descriptor or a deletion can be.
ASSUME LifeAssumption == LifeUsers \cap {"open", "closed", "businessServer"} = {}

VARIABLES
    main,       \* what the main thread does next
    epollRun,   \* m_epoll_run of the two servers
    epollThread,\* "none", "runs" or "exited"
    chState,    \* "none", then "owned" by a client or "orphan", and "closed" when deleted
    acceptor,   \* the accept thread: where it is, the channel and the connection in hand
    parked,     \* m_free_socket of the two sides of each channel
    dataMap,    \* connections in m_vpn_data_socket's m_socket_manager
    freed,      \* what was deleted: connections, "businessServer"
    listenFd,   \* m_server_fd: "open", "closed", or the connection given the number since
    overlap,    \* history: the accept thread was busy when close() closed the channels
    misused     \* history: what was used after it was deleted, or closed under its owner

lifeVars == <<main, epollRun, epollThread, chState, acceptor, parked, dataMap,
              freed, listenFd, overlap, misused>>
threads  == <<epollRun, epollThread>>
history  == <<overlap, misused>>

Servers == {"business", "data"}
Waits   == [at |-> "wait", ch |-> "none", me |-> "none"]

LifeInit ==
    /\ main = "start"
    /\ epollRun = [s \in Servers |-> TRUE] /\ epollThread = [s \in Servers |-> "none"]
    /\ chState = [ch \in LifeChannels |-> "none"] /\ parked = [ch \in LifeChannels |-> {}]
    /\ acceptor = [Waits EXCEPT !.at = "none"]
    /\ dataMap = {} /\ freed = {} /\ listenFd = "closed" /\ overlap = FALSE /\ misused = {}

InState(state)  == {ch \in LifeChannels : chState[ch] = state}
Open(ch)        == chState[ch] \in {"owned", "orphan"}
Running         == main # "terminated"

\* delete_channel_server for each of chs: the listeners are closed, the queues emptied.
DeleteAll(chs) ==
    /\ chState' = [ch \in LifeChannels |-> IF ch \in chs THEN "closed" ELSE chState[ch]]
    /\ parked' = [ch \in LifeChannels |-> IF ch \in chs THEN {} ELSE parked[ch]]
-----------------------------------------------------------------------------
(***************************************************************************)
(* The main thread.                                                        *)
(***************************************************************************)
\* init and start; bind or listen may fail before there is any thread.
LifeStart ==
    /\ main = "start"
    /\ \/ /\ main' = "exec" /\ listenFd' = "open"
          /\ epollThread' = [s \in Servers |-> "runs"]
          /\ acceptor' = Waits
       \/ main' = "ended" /\ UNCHANGED <<listenFd, epollThread, acceptor>>
    /\ UNCHANGED <<epollRun, chState, parked, dataMap, freed, history>>

\* A channel whose client departs during its creation belongs to nobody (BusinessServer).
LifeCreate(ch) ==
    /\ main = "exec" /\ chState[ch] = "none"
    /\ \E state \in {"owned", "orphan"} : chState' = [chState EXCEPT ![ch] = state]
    /\ UNCHANGED <<main, threads, acceptor, parked, dataMap, freed, listenFd, history>>

\* "q", then stop() of the one server after the other: flag and join.
StopServer(s, from, to) ==
    /\ main = from
    /\ IF epollRun[s] THEN epollRun' = [epollRun EXCEPT ![s] = FALSE] /\ UNCHANGED main
                      ELSE epollThread[s] = "exited" /\ main' = to /\ UNCHANGED epollRun
    /\ UNCHANGED <<epollThread, chState, acceptor, parked, dataMap, freed, listenFd, history>>

\* Broken variant: the departure of the clients is left to their own.
CloseClientsSilent ==
    /\ main = "closeClients" /\ main' = "closeManager"
    /\ overlap' = (acceptor.at # "wait")
    /\ UNCHANGED <<threads, chState, acceptor, parked, dataMap, freed, listenFd, misused>>

\* socket_server::close: on_disconnected for every client, which deletes its channels.
CloseClients ==
    /\ main = "closeClients" /\ main' = "closeManager"
    /\ DeleteAll(InState("owned"))
    /\ overlap' = (acceptor.at # "wait")
    /\ UNCHANGED <<threads, acceptor, dataMap, freed, listenFd, misused>>

\* m_socket_manager.close closes the listening socket too, which has a socket_info ...
CloseManager ==
    /\ main = "closeManager" /\ main' = "closeListener"
    /\ listenFd' = "closed"
    /\ UNCHANGED <<threads, chState, acceptor, parked, dataMap, freed, history>>

\* ... and ::close(m_server_fd) closes whatever has its number by now.
CloseListener ==
    /\ main = "closeListener" /\ main' = "closeData"
    /\ misused' = misused \cup ({listenFd} \cap LifeUsers)
    /\ UNCHANGED <<threads, chState, acceptor, parked, dataMap, freed, listenFd, overlap>>

\* socket_client::close: every connection is closed and deleted, wherever it is in use.
CloseData ==
    /\ main = "closeData" /\ main' = "deleteBusiness"
    /\ freed' = freed \cup dataMap
    /\ UNCHANGED <<threads, chState, acceptor, parked, dataMap, listenFd, history>>

DeleteBusiness ==
    /\ main = "deleteBusiness" /\ main' = "deleteData"
    /\ freed' = freed \cup {"businessServer"}
    /\ UNCHANGED <<threads, chState, acceptor, parked, dataMap, listenFd, history>>

\* The destructor of m_accept_thread, which was not joined, ends the process.
DeleteData ==
    /\ main = "deleteData" /\ main' = "terminated"
    /\ UNCHANGED <<threads, chState, acceptor, parked, dataMap, freed, listenFd, history>>
-----------------------------------------------------------------------------
\* The epoll threads look at their flag between two waits, of 1 s at most.
EpollExits(s) ==
    /\ epollThread[s] = "runs" /\ ~epollRun[s]
    /\ epollThread' = [epollThread EXCEPT ![s] = "exited"]
    /\ UNCHANGED <<main, epollRun, chState, acceptor, parked, dataMap, freed, listenFd, history>>

\* The business epoll thread notices the end of the client that owns the channel.
ClientDeparts(ch) ==
    /\ epollThread["business"] = "runs" /\ chState[ch] = "owned"
    /\ DeleteAll({ch})
    /\ UNCHANGED <<main, threads, acceptor, dataMap, freed, listenFd, history>>
-----------------------------------------------------------------------------
(***************************************************************************)
(* run_accept and date_socket_accept, while the process lives.             *)
(***************************************************************************)
Uses(things) == misused' = misused \cup (things \cap freed)

Poll(ch) ==
    /\ Running /\ acceptor.at = "wait" /\ Open(ch)
    /\ acceptor' = [acceptor EXCEPT !.at = "accept", !.ch = ch]
    /\ UNCHANGED <<main, threads, chState, parked, dataMap, freed, listenFd, history>>

AcceptFails ==
    /\ Running /\ acceptor.at = "accept" /\ ~Open(acceptor.ch)
    /\ acceptor' = Waits
    /\ UNCHANGED <<main, threads, chState, parked, dataMap, freed, listenFd, history>>

\* accept and get_clinet_info; the number may be the one the listening socket had.
LifeAccept(u) ==
    /\ Running /\ acceptor.at = "accept" /\ Open(acceptor.ch) /\ u \notin dataMap
    /\ acceptor' = [acceptor EXCEPT !.at = "ask", !.me = u]
    /\ listenFd' \in IF listenFd = "closed" THEN {"closed", u} ELSE {listenFd}
    /\ dataMap' = dataMap \cup {u}
    /\ UNCHANGED <<main, threads, chState, parked, freed, history>>

\* send_create_channel_msg, if the listener is the one for users.
AskClient ==
    /\ Running /\ acceptor.at = "ask"
    /\ acceptor' = [acceptor EXCEPT !.at = "queue"]
    /\ Uses({"businessServer"}) \/ UNCHANGED misused
    /\ UNCHANGED <<main, threads, chState, parked, dataMap, freed, listenFd, overlap>>

\* The connection is parked, or paired with a parked one of the other side.
QueueUser ==
    /\ Running /\ acceptor.at = "queue"
    /\ acceptor' = Waits
    /\ LET ch == acceptor.ch IN
       \/ parked' = [parked EXCEPT ![ch] = @ \cup {acceptor.me}] /\ UNCHANGED misused
       \/ \E other \in parked[ch] : /\ parked' = [parked EXCEPT ![ch] = @ \ {other}]
                                    /\ Uses({acceptor.me, other})
    /\ UNCHANGED <<main, threads, chState, dataMap, freed, listenFd, overlap>>
-----------------------------------------------------------------------------
LifeNext ==
    \/ LifeStart
    \/ \E ch \in LifeChannels : LifeCreate(ch) \/ ClientDeparts(ch) \/ Poll(ch)
    \/ StopServer("business", "exec", "stopData")
    \/ StopServer("data", "stopData", "closeClients")
    \/ CloseClients \/ CloseManager \/ CloseListener \/ CloseData \/ DeleteBusiness \/ DeleteData
    \/ \E s \in Servers : EpollExits(s)
    \/ AcceptFails \/ AskClient \/ QueueUser \/ \E u \in LifeUsers : LifeAccept(u)

LifeSpec == LifeInit /\ [][LifeNext]_lifeVars
-----------------------------------------------------------------------------
\* Although stop() leaves the accept thread running, close() takes nothing away that it
\* uses: deleting the clients closes the listeners, so that it has nothing more to do.
\* The exceptions are an accept that was under way then, and a channel that belongs to
\* no client: users of it are accepted until the end, by a thread that asks a deleted
\* server, or that is given the number of the listening socket before it is closed again.
ShutdownIsClean == misused # {} => overlap \/ InState("orphan") # {}
=============================================================================
