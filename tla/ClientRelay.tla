----------------------------- MODULE ClientRelay -----------------------------
(***************************************************************************)
(* One data connection of the tunnel client (wait_create_tcp_channel and   *)
(* vpn_client_event in vpn/client/vnp_client.cpp): on the server's request *)
(* the main epoll thread connects to the server and to the local service   *)
(* and joins the two, each in the epoll set of a socket_client of its own. *)
(*                                                                         *)
(* So the two ends of a relay are served by two threads, which follow and  *)
(* clear each other's pointers and free their own block without a lock.    *)
(***************************************************************************)
EXTENDS Naturals

CONSTANT MaxBytes   \* how much each peer sends

ASSUME RelayAssumption == MaxBytes \in Nat

Ends == {"server", "local"}
Other(e) == IF e = "server" THEN "local" ELSE "server"

VARIABLES
    main,    \* the main epoll thread, in wait_create_tcp_channel
    peer,    \* each peer: "none", "up", "fin", "rst"
    sends,   \* how much each peer may still send
    unread,  \* what it sent and nobody received
    sock,    \* our socket: "none", "open", "closed"
    block,   \* its socket_info: "none", "live", "freed"
    ptr,     \* whether m_ptr leads to the other end
    watch,   \* what its epoll set waits for: "none", "in", "out"
    thr,     \* the epoll thread of each end
    alive,   \* the process has not been killed by SIGPIPE
    lost,    \* history: the ends of whose bytes some were thrown away
    past     \* history of what went wrong

relayVars == <<main, peer, sends, unread, sock, block, ptr, watch, thr, alive, lost, past>>

RelayInit ==
    /\ main = "idle"
    /\ peer = [e \in Ends |-> "none"] /\ sends = [e \in Ends |-> MaxBytes]
    /\ unread = [e \in Ends |-> 0]
    /\ sock = [e \in Ends |-> "none"] /\ block = [e \in Ends |-> "none"]
    /\ ptr = [e \in Ends |-> FALSE] /\ watch = [e \in Ends |-> "none"]
    /\ thr = [e \in Ends |-> "wait"]
    /\ alive = TRUE /\ lost = {} /\ past = {}

Set(f, e, v) == [f EXCEPT ![e] = v]
\* Following a pointer to the block of e.
Touch(e) == past' = IF block[e] = "freed" THEN past \cup {"freed"} ELSE past
-----------------------------------------------------------------------------
(***************************************************************************)
(* The peers.                                                              *)
(***************************************************************************)
PeerSends(e) ==
    /\ peer[e] = "up" /\ sends[e] > 0
    /\ sends' = Set(sends, e, sends[e] - 1) /\ unread' = Set(unread, e, unread[e] + 1)
    /\ UNCHANGED <<main, peer, sock, block, ptr, watch, thr, alive, lost, past>>

PeerEnds(e) ==
    /\ peer[e] = "up"
    /\ \E how \in {"fin", "rst"} :
          /\ peer' = Set(peer, e, how)
          /\ past' = IF how = "rst" THEN past \cup {"reset"} ELSE past
    /\ UNCHANGED <<main, sends, unread, sock, block, ptr, watch, thr, alive, lost>>
-----------------------------------------------------------------------------
(***************************************************************************)
(* wait_create_tcp_channel.                                                *)
(***************************************************************************)
\* connect() of one end: to the server first, then to the local service.
Connect(e, from, to) ==
    /\ main = from /\ main' = to
    /\ \/ /\ peer' = Set(peer, e, "up") /\ sock' = Set(sock, e, "open")
          /\ block' = Set(block, e, "live")
       \/ UNCHANGED <<peer, sock, block>>
    /\ UNCHANGED <<sends, unread, ptr, watch, thr, alive, lost, past>>

Connected == {e \in Ends : block[e] = "live"}

\* Both: point them at each other and answer the server.
Join ==
    /\ main = "join" /\ Connected = Ends
    /\ main' = "addServer"
    /\ ptr' = [e \in Ends |-> TRUE]
    /\ UNCHANGED <<peer, sends, unread, sock, block, watch, thr, alive, lost, past>>

AddEnd(e, from, to) ==
    /\ main = from /\ main' = to
    /\ watch' = Set(watch, e, "in")
    /\ UNCHANGED <<peer, sends, unread, sock, block, ptr, thr, alive, lost, past>>

\* Not both: the one that was connected goes into its epoll set only to be closed.
AddLone ==
    /\ main = "join" /\ Connected # Ends
    /\ IF Connected = {} THEN main' = "done" /\ UNCHANGED watch
       ELSE /\ main' = "closeLone"
            /\ watch' = [e \in Ends |-> IF e \in Connected THEN "in" ELSE "none"]
    /\ UNCHANGED <<peer, sends, unread, sock, block, ptr, thr, alive, lost, past>>

\* By now its thread may have seen it end and freed it.
CloseLone(e) ==
    /\ main = "closeLone" /\ block[e] # "none"
    /\ main' = "done"
    /\ watch' = IF watch[e] = "in" THEN Set(watch, e, "out") ELSE watch
    /\ Touch(e)
    /\ UNCHANGED <<peer, sends, unread, sock, block, ptr, thr, alive, lost>>
-----------------------------------------------------------------------------
(***************************************************************************)
(* The epoll thread of one end: run_epoll of its socket_client with the    *)
(* callbacks of vpn_client_event.                                          *)
(***************************************************************************)
To(e, place) == thr' = Set(thr, e, place)

Writable(e) == /\ thr[e] = "wait" /\ watch[e] = "out"
               /\ To(e, "close")
               /\ UNCHANGED <<main, peer, sends, unread, sock, block, ptr, watch, alive, lost, past>>

\* on_a_disconnected does not tell the other end.
Reset(e) == /\ thr[e] = "wait" /\ watch[e] = "in" /\ peer[e] = "rst"
            /\ To(e, "close")
            /\ UNCHANGED <<main, peer, sends, unread, sock, block, ptr, watch, alive, lost, past>>

\* on_recv_data reads the pointer; without one the data is thrown away.
Receive(e) ==
    /\ thr[e] = "wait" /\ watch[e] = "in" /\ peer[e] # "rst" /\ unread[e] > 0
    /\ unread' = Set(unread, e, 0)
    /\ To(e, IF ptr[e] THEN "send" ELSE "wait")
    /\ lost' = IF ptr[e] THEN lost ELSE lost \cup {e}
    /\ past' = past \cup {"relayed"}
    /\ UNCHANGED <<main, peer, sends, sock, block, ptr, watch, alive>>

\* ... and sends to whatever the other block says, which may be freed, and whose
\* descriptor may be closed.  A peer that has closed answers with a reset; a
\* socket that was reset raises SIGPIPE, which the client does not ignore.
Send(e) ==
    LET o == Other(e) IN
    /\ thr[e] = "send" /\ To(e, "wait")
    /\ \/ UNCHANGED <<peer, alive>>
       \/ sock[o] = "open" /\ peer[o] = "fin" /\ peer' = Set(peer, o, "rst") /\ UNCHANGED alive
       \/ sock[o] = "open" /\ peer[o] = "rst" /\ alive' = FALSE /\ UNCHANGED peer
    /\ lost' = IF sock[o] = "open" /\ peer[o] = "up" THEN lost ELSE lost \cup {e}
    /\ past' = past \cup (IF block[o] = "freed" THEN {"freed"} ELSE {})
                    \cup (IF peer' # peer THEN {"reset"} ELSE {})
    /\ UNCHANGED <<main, sends, unread, sock, block, ptr, watch>>

\* on_disconnected reads the pointer, ...
Fin(e) ==
    /\ thr[e] = "wait" /\ watch[e] = "in" /\ peer[e] = "fin" /\ unread[e] = 0
    /\ To(e, IF ptr[e] THEN "cut" ELSE "close")
    /\ UNCHANGED <<main, peer, sends, unread, sock, block, ptr, watch, alive, lost, past>>

\* Broken variant: the other end is told to close first, and touched again later.
CutAfterTell(e) ==
    LET o == Other(e) IN
    /\ thr[e] = "cut"
    /\ To(e, "tell")
    /\ ptr' = Set(ptr, o, FALSE)
    /\ watch' = IF watch[o] = "none" THEN watch ELSE Set(watch, o, "out")
    /\ Touch(o)
    /\ UNCHANGED <<main, peer, sends, unread, sock, block, alive, lost>>

\* ... clears the one that leads back, ...
Cut(e) ==
    /\ thr[e] = "cut"
    /\ To(e, "tell")
    /\ ptr' = Set(ptr, Other(e), FALSE)
    /\ Touch(Other(e))
    /\ UNCHANGED <<main, peer, sends, unread, sock, block, watch, alive, lost>>

\* Broken variant: the other end is not closed.
TellNothing(e) ==
    /\ thr[e] = "tell"
    /\ To(e, "close")
    /\ UNCHANGED <<main, peer, sends, unread, sock, block, ptr, watch, alive, lost, past>>

\* ... and asks for the close of the other end: in vain if that is not in its
\* epoll set yet.
Tell(e) ==
    LET o == Other(e) IN
    /\ thr[e] = "tell"
    /\ To(e, "close")
    /\ watch' = IF watch[o] = "none" THEN watch ELSE Set(watch, o, "out")
    /\ past' = past \cup (IF block[o] = "freed" THEN {"freed"} ELSE {})
                    \cup (IF watch[o] = "none" /\ sock[o] = "open" THEN {"untold"} ELSE {})
    /\ UNCHANGED <<main, peer, sends, unread, sock, block, ptr, alive, lost>>

Close(e) ==
    /\ thr[e] = "close"
    /\ To(e, "free")
    /\ sock' = Set(sock, e, "closed") /\ watch' = Set(watch, e, "none")
    /\ lost' = IF unread[e] > 0 THEN lost \cup {e} ELSE lost
    /\ UNCHANGED <<main, peer, sends, unread, block, ptr, alive, past>>

FreeBlock(e) ==
    /\ thr[e] = "free"
    /\ To(e, "wait")
    /\ block' = Set(block, e, "freed")
    /\ UNCHANGED <<main, peer, sends, unread, sock, ptr, watch, alive, lost, past>>

Serve(e) == \/ Writable(e) \/ Reset(e) \/ Receive(e) \/ Send(e)
            \/ Fin(e) \/ Cut(e) \/ Tell(e) \/ Close(e) \/ FreeBlock(e)

Creation == \/ Connect("server", "server", "local") \/ Connect("local", "local", "join")
            \/ Join \/ AddEnd("server", "addServer", "addLocal")
            \/ AddEnd("local", "addLocal", "done")
            \/ AddLone \/ \E e \in Ends : CloseLone(e)

\* The request arrives.
Request == /\ main = "idle" /\ main' = "server"
           /\ UNCHANGED <<peer, sends, unread, sock, block, ptr, watch, thr, alive, lost, past>>

RelayNext == alive /\ (\/ Request \/ Creation
                       \/ \E e \in Ends : Serve(e) \/ PeerSends(e) \/ PeerEnds(e))

\* The client's threads are scheduled; nothing is asked of the peers.
RelayFair == /\ WF_relayVars(alive /\ Creation)
             /\ \A e \in Ends : WF_relayVars(alive /\ Serve(e))

RelaySpec == RelayInit /\ [][RelayNext]_relayVars /\ RelayFair
-----------------------------------------------------------------------------
RelayTypeOK ==
    /\ main \in {"idle", "server", "local", "join", "addServer", "addLocal", "closeLone", "done"}
    /\ peer \in [Ends -> {"none", "up", "fin", "rst"}]
    /\ sends \in [Ends -> 0..MaxBytes] /\ unread \in [Ends -> 0..MaxBytes]
    /\ sock \in [Ends -> {"none", "open", "closed"}]
    /\ block \in [Ends -> {"none", "live", "freed"}]
    /\ ptr \in [Ends -> BOOLEAN] /\ watch \in [Ends -> {"none", "in", "out"}]
    /\ thr \in [Ends -> {"wait", "send", "cut", "tell", "close", "free"}]
    /\ alive \in BOOLEAN /\ lost \subseteq Ends
    /\ past \subseteq {"freed", "untold", "reset", "relayed"}
    /\ \A e \in Ends : block[e] = "freed" => sock[e] = "closed" /\ watch[e] = "none"

\* If only one peer closes, no byte is relayed, nothing is reset and both ends
\* could be connected, the two threads take the relay down without touching
\* freed memory.  Each of these conditions is needed.
QuietCloseIsClean ==
    "freed" \in past => \/ past \cap {"reset", "relayed"} # {}
                        \/ \A e \in Ends : peer[e] = "fin"
                        \/ \E e \in Ends : block[e] = "none"

\* What a peer sent before it closed in order is passed on to the other peer:
\* bytes are only thrown away when the other one ended or was never connected,
\* or the sender reset the connection.
KeepsWhatWasSent ==
    \A e \in lost : peer[Other(e)] # "up" \/ peer[e] = "rst"

\* What a relay must not do: touch freed memory, or lose what it was given, but for the
\* cases above.
RelayIsClean == QuietCloseIsClean /\ KeepsWhatWasSent

\* When one peer closes, both sockets are closed in the end, unless the other one
\* was not in its epoll set yet, something was reset, which includes
\* every case in which SIGPIPE kills the process.
CloseReachesOther ==
    (\E e \in Ends : peer[e] = "fin" /\ main \notin {"idle", "server", "local", "join"})
        ~> \/ \A e \in Ends : sock[e] # "open"
           \/ past \cap {"untold", "reset"} # {}
=============================================================================
