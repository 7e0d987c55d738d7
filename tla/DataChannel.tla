---------------------------- MODULE DataChannel ----------------------------
(***************************************************************************)
(* One channel of data_channel_server (vpn/server/data_channel_server.cpp) *)
(* over socket_client (vpn/com_lib/net_lib/sh_socket_client.cpp).  Users   *)
(* connect to the "out" listener, the tunnel client to the "in" listener;  *)
(* the n-th of one side is paired with the n-th of the other and bytes are *)
(* relayed between the two.                                                *)
(*                                                                         *)
(* Three threads: the accept thread, the epoll thread that relays and      *)
(* tears down, and the business thread that may delete the channel.  They  *)
(* share the process's descriptor numbers, the epoll set, the socket_info  *)
(* blocks and the channel's queues without a lock, so each system call on  *)
(* a descriptor, and each call of a std::queue, is a step of its own.      *)
(*                                                                         *)
(* A connection is known to the kernel by a serial number, to the program  *)
(* by a descriptor and by the address of its socket_info.  Descriptors are *)
(* reused lowest first, addresses in any order.  Reading a freed block     *)
(* finds its old contents, or a descriptor overwritten by the allocator.   *)
(***************************************************************************)
EXTENDS Integers, Sequences, FiniteSets

CONSTANTS Addrs,      \* addresses that socket_info blocks may have
          Null,       \* the null pointer
          NFds,       \* how many descriptor numbers there are
          MaxConns,   \* how many connections are accepted in all
          MayReset,   \* whether a peer may reset its connection
          MayDelete   \* whether the business thread deletes the channel

ASSUME ConstantsAssumption ==
    /\ Null \notin Addrs
    /\ NFds \in Nat /\ MaxConns \in Nat
    /\ MayReset \in BOOLEAN /\ MayDelete \in BOOLEAN

Sides  == {"out", "in"}
Conns  == 1..MaxConns
Fds    == 1..NFds
BadFd  == 0
NoConn == 0

Other(side) == IF side = "out" THEN "in" ELSE "out"

VARIABLES
    peer,      \* kernel: state and unread bytes of each connection
    file,      \* kernel: the connection open at each descriptor
    watch,     \* kernel: what the epoll set waits for at each descriptor
    mem,       \* socket_info: m_fd, m_epfd # 0, m_data.m_ptr
    live,      \* the addresses that are allocated
    free,      \* m_free_socket of each listener
    busy,      \* m_busy_socket of each listener
    acc,       \* the accept thread
    ep,        \* the epoll thread
    batch,     \* the events epoll_wait returned and that are not handled yet
    chan,      \* the channel: "open", "closing", "deleted"
    del,       \* delete_channel_server: the queue it empties, and where it is in that loop
    accepted,  \* how many connections were accepted
    mate,      \* history: the connection each one was paired with
    ghosts     \* history: what went wrong, and with which connections

vars == <<peer, file, watch, mem, live, free, busy, acc, ep, batch, chan, del,
          accepted, mate, ghosts>>

kernel == <<peer, file, watch>>
queues == <<free, busy>>

NoWatch   == [ev |-> "none", ptr |-> Null]
Info      == [fd : 0..NFds, joined : BOOLEAN, ptr : Addrs \cup {Null}]
Waiting   == [at |-> "wait", addr |-> Null, fd |-> BadFd]
AccIdle   == [at |-> "wait", side |-> "out", fd |-> BadFd, me |-> Null, other |-> Null]

\* What a thread that reads the block at address a may find there.
Seen(a) == {mem[a]} \cup (IF a \in live THEN {}
                          ELSE {[mem[a] EXCEPT !.fd = BadFd, !.joined = FALSE]})

Open(fd) == fd \in Fds /\ file[fd] # NoConn

\* epoll_ctl MOD in close_socket: wait for writability, which is immediate.  It
\* fails without a trace when the socket is not in the epoll set (yet).
Modifies(i) == i.joined /\ Open(i.fd) /\ watch[i.fd] # NoWatch
CloseSocket(i, a, w) == IF Modifies(i) THEN [w EXCEPT ![i.fd] = [ev |-> "out", ptr |-> a]] ELSE w

Init ==
    /\ peer = [c \in Conns |-> [state |-> "none", side |-> "out", rx |-> 0]]
    /\ file = [f \in Fds |-> NoConn]
    /\ watch = [f \in Fds |-> NoWatch]
    /\ mem = [a \in Addrs |-> [fd |-> BadFd, joined |-> FALSE, ptr |-> Null]]
    /\ live = {}
    /\ free = [s \in Sides |-> <<>>]
    /\ busy = [s \in Sides |-> <<>>]
    /\ acc = AccIdle
    /\ ep = Waiting
    /\ batch = {}
    /\ chan = "open" /\ del = [loop |-> 1, at |-> "test", addr |-> Null]
    /\ accepted = 0
    /\ mate = [c \in Conns |-> NoConn]
    /\ ghosts = [reset |-> {}, missed |-> {}, unhooked |-> {}, late |-> {},
                strayed |-> FALSE, wild |-> FALSE, torn |-> FALSE]
-----------------------------------------------------------------------------
(***************************************************************************)
(* The peers.  A connection that the server has closed is "closed".        *)
(***************************************************************************)
PeerSends(c) ==
    /\ peer[c].state = "up" /\ peer[c].rx = 0
    /\ peer' = [peer EXCEPT ![c].rx = 1]
    /\ UNCHANGED <<file, watch, mem, live, queues, acc, ep, batch, chan, del, accepted, mate, ghosts>>

PeerCloses(c) ==
    /\ peer[c].state = "up"
    /\ peer' = [peer EXCEPT ![c].state = "fin"]
    /\ UNCHANGED <<file, watch, mem, live, queues, acc, ep, batch, chan, del, accepted, mate, ghosts>>

\* A reset may also follow the close, when the relay still sends to the peer.
PeerResets(c) ==
    /\ MayReset
    /\ peer[c].state \in {"up", "fin"}
    /\ peer' = [peer EXCEPT ![c].state = "rst"]
    /\ ghosts' = [ghosts EXCEPT !.reset = @ \cup {c}]
    /\ UNCHANGED <<file, watch, mem, live, queues, acc, ep, batch, chan, del, accepted, mate>>
-----------------------------------------------------------------------------
(***************************************************************************)
(* The accept thread: run_accept and date_socket_accept.                   *)
(***************************************************************************)
Lowest(S) == CHOOSE f \in S : \A g \in S : f <= g

Accept(side) ==
    /\ acc.at = "wait" /\ chan = "open" /\ accepted < MaxConns
    /\ \E f \in Fds : file[f] = NoConn
    /\ LET f == Lowest({g \in Fds : file[g] = NoConn})
           c == accepted + 1
       IN /\ file' = [file EXCEPT ![f] = c]
          /\ peer' = [peer EXCEPT ![c] = [state |-> "up", side |-> side, rx |-> 0]]
          /\ acc' = [AccIdle EXCEPT !.at = "accepted", !.side = side, !.fd = f]
          /\ accepted' = c
    /\ UNCHANGED <<watch, mem, live, queues, ep, batch, chan, del, mate, ghosts>>

\* get_clinet_info: a new block whose m_ptr is itself, at any free address.
GetInfo(a) ==
    /\ acc.at = "accepted" /\ a \notin live
    /\ live' = live \cup {a}
    /\ mem' = [mem EXCEPT ![a] = [fd |-> acc.fd, joined |-> FALSE, ptr |-> a]]
    /\ acc' = [acc EXCEPT !.at = "look", !.me = a]
    /\ UNCHANGED <<kernel, queues, ep, batch, chan, del, accepted, mate, ghosts>>

\* empty() of the other side's queue: nobody has waited there, and this connection waits.
Park ==
    /\ acc.at = "look"
    /\ free[Other(acc.side)] = <<>>
    /\ free' = [free EXCEPT ![acc.side] = Append(@, acc.me)]
    /\ acc' = AccIdle
    /\ UNCHANGED <<kernel, mem, live, busy, ep, batch, chan, del, accepted, mate, ghosts>>

\* Somebody has: ...
Look ==
    /\ acc.at = "look"
    /\ free[Other(acc.side)] # <<>>
    /\ acc' = [acc EXCEPT !.at = "front"]
    /\ UNCHANGED <<kernel, mem, live, queues, ep, batch, chan, del, accepted, mate, ghosts>>

\* front() and pop() of a queue that another thread has emptied are undefined: the one
\* finds any address, and from there on a foreign block is used.
Tears(q) == ghosts' = IF q = <<>> THEN [ghosts EXCEPT !.torn = TRUE, !.wild = TRUE] ELSE ghosts

\* Broken variant: back() for front().
FrontLast ==
    LET q == free[Other(acc.side)] IN
    /\ acc.at = "front"
    /\ \E r \in IF q = <<>> THEN Addrs ELSE {q[Len(q)]} : acc' = [acc EXCEPT !.at = "pop", !.other = r]
    /\ Tears(q)
    /\ UNCHANGED <<kernel, mem, live, queues, ep, batch, chan, del, accepted, mate>>

\* ... who has waited longest ...
Front ==
    LET q == free[Other(acc.side)] IN
    /\ acc.at = "front"
    /\ \E r \in IF q = <<>> THEN Addrs ELSE {Head(q)} : acc' = [acc EXCEPT !.at = "pop", !.other = r]
    /\ Tears(q)
    /\ UNCHANGED <<kernel, mem, live, queues, ep, batch, chan, del, accepted, mate>>

\* ... is popped and the two are made to point to each other, ...
ConnAt(fd) == IF Open(fd) THEN file[fd] ELSE NoConn

Pair ==
    LET o == Other(acc.side)
        c == ConnAt(acc.fd)
        d == ConnAt(mem[acc.other].fd)
    IN /\ acc.at = "pop"
       /\ free' = IF free[o] = <<>> THEN free ELSE [free EXCEPT ![o] = Tail(@)]
       /\ Tears(free[o])
       /\ mem' = [mem EXCEPT ![acc.me].ptr = acc.other, ![acc.other].ptr = acc.me]
       /\ mate' = [x \in Conns |-> IF x = c THEN d ELSE IF x = d THEN c ELSE mate[x]]
       /\ acc' = [acc EXCEPT !.at = "push1"]
       /\ UNCHANGED <<kernel, live, busy, ep, batch, chan, del, accepted>>

\* ... pushed, each to the queue of its side (one that delete_channel_server may have
\* left behind), ...
Loops  == <<<<"free", "in">>, <<"busy", "in">>, <<"free", "out">>, <<"busy", "out">>>>
Passed(side) == chan = "deleted" \/ \E k \in DOMAIN Loops : Loops[k] = <<"busy", side>> /\ k < del.loop

Push(at, a, side, next) ==
    /\ acc.at = at
    /\ busy' = [busy EXCEPT ![side] = Append(@, a)]
    /\ ghosts' = IF Passed(side) THEN [ghosts EXCEPT !.late = @ \cup {ConnAt(mem[a].fd)}] ELSE ghosts
    /\ acc' = [acc EXCEPT !.at = next]
    /\ UNCHANGED <<kernel, mem, live, free, ep, batch, chan, del, accepted, mate>>

PushOwn   == Push("push1", acc.me, acc.side, "push2")
PushOther == Push("push2", acc.other, Other(acc.side), "add1")

\* ... and put into the epoll set, that of the "in" side first.
First  == IF acc.side = "out" THEN acc.other ELSE acc.me
Second == IF acc.side = "out" THEN acc.me ELSE acc.other

\* add_eool: m_epfd is set and the descriptor enters the epoll set.
AddEpoll(a) ==
    LET f == mem[a].fd IN
    /\ mem' = [mem EXCEPT ![a].joined = TRUE]
    /\ watch' = IF Open(f) /\ watch[f] = NoWatch
                THEN [watch EXCEPT ![f] = [ev |-> "in", ptr |-> a]] ELSE watch
    /\ UNCHANGED <<peer, file, live, queues, ep, batch, chan, del, accepted, mate, ghosts>>

AddFirst  == /\ acc.at = "add1"
             /\ AddEpoll(First)
             /\ acc' = [acc EXCEPT !.at = "add2"]

AddSecond == /\ acc.at = "add2"
             /\ AddEpoll(Second)
             /\ acc' = AccIdle
-----------------------------------------------------------------------------
(***************************************************************************)
(* The epoll thread: socket_client::run_epoll and the callbacks.           *)
(***************************************************************************)
Readable(c) == peer[c].rx > 0 \/ peer[c].state # "up"

Ready(f) == /\ watch[f].ev # "none"
            /\ watch[f].ev = "in" => Readable(file[f])

EpollWait ==
    /\ ep.at = "wait" /\ batch = {}
    /\ \E f \in Fds : Ready(f)
    /\ batch' = {watch[f] : f \in {g \in Fds : Ready(g)}}
    /\ UNCHANGED <<kernel, mem, live, queues, acc, ep, chan, del, accepted, mate, ghosts>>

\* The pointer p kept in block a leads back to a: it may be followed.
Mutual(a, p) == p \in live /\ mem[p].ptr = a

TearDown(a, f) == ep' = [at |-> "close", addr |-> a, fd |-> f]

\* The next event of the batch, which may have been overtaken by the handling of
\* an earlier one.
Take(e)   == ep.at = "wait" /\ e \in batch /\ batch' = batch \ {e}
TakeIn(e) == Take(e) /\ e.ev = "in"

\* An event for which close_socket asked: on_a_disconnected does nothing here.
HandleClose(e) ==
    /\ Take(e) /\ e.ev = "out"
    /\ \E i \in Seen(e.ptr) : TearDown(e.ptr, i.fd)
    /\ UNCHANGED <<kernel, mem, live, queues, acc, chan, del, accepted, mate, ghosts>>

\* recv fails: the connection was reset.  on_a_disconnected leaves the partner as
\* it is, with its pointer to the block that is about to be freed.
HandleReset(e) ==
    /\ TakeIn(e)
    /\ \E i \in Seen(e.ptr) :
          /\ ~ Open(i.fd) \/ (peer[file[i.fd]].rx = 0 /\ peer[file[i.fd]].state = "rst")
          /\ TearDown(e.ptr, i.fd)
    /\ UNCHANGED <<kernel, mem, live, queues, acc, chan, del, accepted, mate, ghosts>>

AtEnd(i) == /\ Open(i.fd)
            /\ peer[file[i.fd]].rx = 0 /\ peer[file[i.fd]].state \in {"fin", "eof"}

\* Broken variant: the partner is cut off but not closed.
HandleFinKeepsOpen(e) ==
    /\ TakeIn(e)
    /\ \E i \in Seen(e.ptr) : AtEnd(i) /\ TearDown(e.ptr, i.fd)
          /\ mem' = IF i.ptr = Null THEN mem ELSE [mem EXCEPT ![i.ptr].ptr = Null]
    /\ UNCHANGED <<kernel, live, queues, acc, chan, del, accepted, mate, ghosts>>

\* recv returns 0: on_disconnected cuts the partner off and closes it.  "eof" is a
\* reset whose error a send of ours has already consumed.
HandleFin(e) ==
    /\ TakeIn(e)
    /\ \E i \in Seen(e.ptr) : AtEnd(i) /\ TearDown(e.ptr, i.fd)
          /\ \/ i.ptr = Null /\ UNCHANGED <<watch, mem, ghosts>>
             \/ /\ i.ptr # Null
                /\ mem' = [mem EXCEPT ![i.ptr].ptr = Null]
                /\ \E r \in Seen(i.ptr) :
                      /\ watch' = CloseSocket(r, i.ptr, watch)
                      /\ ghosts' = [ghosts EXCEPT
                            !.missed = IF Modifies(r) THEN @ ELSE @ \cup {mate[file[i.fd]]},
                            !.wild = @ \/ ~ Mutual(e.ptr, i.ptr)]
    /\ UNCHANGED <<peer, file, live, queues, acc, chan, del, accepted, mate>>

\* recv returns bytes: on_recv_data sends them to the partner, whoever now has its
\* descriptor, or closes this connection when there is no partner.
HandleData(e) ==
    /\ TakeIn(e)
    /\ \E i \in Seen(e.ptr) :
          /\ Open(i.fd)
          /\ LET c == file[i.fd] IN
             /\ peer[c].rx > 0
             /\ \/ /\ i.ptr = Null
                   /\ peer' = [peer EXCEPT ![c].rx = 0]
                   /\ watch' = CloseSocket(i, e.ptr, watch)
                   /\ UNCHANGED ghosts
                \/ /\ i.ptr # Null
                   /\ \E r \in Seen(i.ptr) :
                         LET d == IF Open(r.fd) THEN file[r.fd] ELSE NoConn IN
                         /\ peer' = [x \in Conns |->
                                       IF x = c THEN [peer[c] EXCEPT !.rx = 0]
                                       ELSE IF x = d /\ peer[d].state = "rst"
                                            THEN [peer[d] EXCEPT !.state = "eof"]
                                            ELSE peer[x]]
                         /\ ghosts' = [ghosts EXCEPT !.strayed = @ \/ d \notin {NoConn, mate[c]},
                                                   !.wild = @ \/ ~ Mutual(e.ptr, i.ptr)]
                   /\ UNCHANGED watch
    /\ UNCHANGED <<file, mem, live, queues, acc, ep, chan, del, accepted, mate>>

\* ::close: the number is free again, and the kernel forgets the registration.
CloseFd ==
    /\ ep.at = "close"
    /\ ep' = [ep EXCEPT !.at = "ctl"]
    /\ IF Open(ep.fd)
       THEN /\ file' = [file EXCEPT ![ep.fd] = NoConn]
            /\ watch' = [watch EXCEPT ![ep.fd] = NoWatch]
            /\ peer' = [peer EXCEPT ![file[ep.fd]] = [@ EXCEPT !.state = "closed", !.rx = 0]]
       ELSE UNCHANGED kernel
    /\ UNCHANGED <<mem, live, queues, acc, batch, chan, del, accepted, mate, ghosts>>

\* Broken variant: the block is never freed.
DelInfoLeaks ==
    /\ ep.at = "ctl"
    /\ ep' = Waiting
    /\ UNCHANGED <<kernel, mem, live, queues, acc, batch, chan, del, accepted, mate, ghosts>>

\* EPOLL_CTL_DEL after the close: it finds nothing, or the connection that got the
\* number in between.  Then del_clinet_info frees the block.
DelInfo ==
    /\ ep.at = "ctl"
    /\ ep' = Waiting
    /\ watch' = IF Open(ep.fd) THEN [watch EXCEPT ![ep.fd] = NoWatch] ELSE watch
    /\ ghosts' = IF Open(ep.fd) /\ watch[ep.fd] # NoWatch
                 THEN [ghosts EXCEPT !.unhooked = @ \cup {file[ep.fd]}] ELSE ghosts
    /\ live' = live \ {ep.addr}
    /\ UNCHANGED <<peer, file, mem, queues, acc, batch, chan, del, accepted, mate>>
-----------------------------------------------------------------------------
(***************************************************************************)
(* The business thread: delete_channel_server.                             *)
(***************************************************************************)
CloseListeners ==
    /\ MayDelete /\ chan = "open"
    /\ chan' = "closing"
    /\ UNCHANGED <<kernel, mem, live, queues, acc, ep, batch, del, accepted, mate, ghosts>>

\* The block is freed, or about to be and its number belongs to another connection.
Stale(a, i) == a \notin live \/ (ep = [at |-> "ctl", addr |-> a, fd |-> i.fd] /\ Open(i.fd))

\* close_socket: a parked connection is in no epoll set, so nothing happens to it, and a
\* paired one may have been freed long ago.
CloseQueued(a) ==
    \E i \in Seen(a) :
        /\ watch' = CloseSocket(i, a, watch)
        /\ ghosts' = [ghosts EXCEPT
              !.missed = IF Open(i.fd) /\ ~ Modifies(i) THEN @ \cup {file[i.fd]} ELSE @,
              !.wild = @ \/ Stale(a, i)]

\* close_queue, four times: each queue is emptied once, and not looked at again.
InLoop(kind, side) == chan = "closing" /\ Loops[del.loop] = <<kind, side>>

\* Broken variant: the queue of the paired tunnel connections is forgotten.
LoopEndsEarly ==
    /\ del.at = "test"
    /\ \E side \in Sides : \/ InLoop("free", side) /\ free[side] = <<>>
                           \/ InLoop("busy", side) /\ busy[side] = <<>>
    /\ chan' = IF del.loop = 4 THEN "deleted" ELSE chan
    /\ del' = IF del.loop = 4 THEN del
              ELSE [del EXCEPT !.loop = IF @ = 1 THEN 3 ELSE @ + 1]
    /\ UNCHANGED <<kernel, mem, live, queues, acc, ep, batch, accepted, mate, ghosts>>

LoopEnds ==
    /\ del.at = "test"
    /\ \E side \in Sides : \/ InLoop("free", side) /\ free[side] = <<>>
                           \/ InLoop("busy", side) /\ busy[side] = <<>>
    /\ chan' = IF del.loop = 4 THEN "deleted" ELSE chan
    /\ del' = IF del.loop = 4 THEN del ELSE [del EXCEPT !.loop = @ + 1]
    /\ UNCHANGED <<kernel, mem, live, queues, acc, ep, batch, accepted, mate, ghosts>>

\* The accept thread pops from the queues of those that wait as well, so that the head
\* may be gone at each call.
DrainFree(side) ==
    LET q == free[side] IN
    /\ InLoop("free", side)
    /\ \/ /\ del.at = "test" /\ q # <<>>
          /\ del' = [del EXCEPT !.at = "front"]
          /\ UNCHANGED <<watch, free, ghosts>>
       \/ /\ del.at = "front"
          /\ \E a \in IF q = <<>> THEN Addrs ELSE {Head(q)} :
                del' = [del EXCEPT !.at = "pop", !.addr = a]
          /\ Tears(q)
          /\ UNCHANGED <<watch, free>>
       \/ /\ del.at = "pop"
          /\ free' = IF q = <<>> THEN free ELSE [free EXCEPT ![side] = Tail(@)]
          /\ Tears(q)
          /\ del' = [del EXCEPT !.at = "close"]
          /\ UNCHANGED watch
       \/ /\ del.at = "close"
          /\ CloseQueued(del.addr)
          /\ del' = [del EXCEPT !.at = "test", !.addr = Null]
          /\ UNCHANGED free
    /\ UNCHANGED <<peer, file, mem, live, busy, acc, ep, batch, chan, accepted, mate>>

\* It only pushes to the queues of the paired ones: their head stays until it is popped.
DrainBusy(side) ==
    /\ InLoop("busy", side) /\ busy[side] # <<>>
    /\ busy' = [busy EXCEPT ![side] = Tail(@)]
    /\ CloseQueued(Head(busy[side]))
    /\ UNCHANGED <<peer, file, mem, live, free, acc, ep, batch, chan, del, accepted, mate>>

Drain == LoopEnds \/ \E side \in Sides : DrainFree(side) \/ DrainBusy(side)
-----------------------------------------------------------------------------
Peer(c)      == PeerSends(c) \/ PeerCloses(c) \/ PeerResets(c)
AcceptThread == \/ \E a \in Addrs : GetInfo(a)
                \/ Look \/ Park \/ Front \/ Pair \/ PushOwn \/ PushOther
                \/ AddFirst \/ AddSecond
Handle(e)    == HandleClose(e) \/ HandleReset(e) \/ HandleFin(e) \/ HandleData(e)
EpollThread  == EpollWait \/ (\E e \in batch : Handle(e)) \/ CloseFd \/ DelInfo
Business     == CloseListeners \/ Drain

Next == \/ \E c \in Conns : Peer(c)
        \/ \E side \in Sides : Accept(side)
        \/ AcceptThread
        \/ EpollThread
        \/ Business

Spec == Init /\ [][Next]_vars

\* The threads run; peers and users come, speak and go as they like.
FairSpec == Spec /\ WF_vars(AcceptThread) /\ WF_vars(EpollThread)
                 /\ WF_vars(Drain)
-----------------------------------------------------------------------------
TypeOK ==
    /\ peer \in [Conns -> [state : {"none", "up", "fin", "rst", "eof", "closed"},
                           side : Sides, rx : 0..1]]
    /\ file \in [Fds -> 0..MaxConns]
    /\ watch \in [Fds -> [ev : {"none", "in", "out"}, ptr : Addrs \cup {Null}]]
    /\ mem \in [Addrs -> Info] /\ live \subseteq Addrs
    /\ \A q \in {free, busy}, side \in Sides : \A k \in DOMAIN q[side] : q[side][k] \in Addrs
    /\ accepted \in 0..MaxConns /\ mate \in [Conns -> 0..MaxConns]
    /\ \A e \in batch : e.ev # "none"
    /\ acc.at \in {"add1", "add2"} => Second \in live
    /\ del \in [loop : 1..4, at : {"test", "front", "pop", "close"}, addr : Addrs \cup {Null}]

\* In the epoll set and not being torn down.
Serving(a) == a \in live /\ mem[a].joined /\ ep.addr # a
ConnOf(a)  == file[mem[a].fd]

\* n-th user, n-th tunnel connection: pairing follows the order of arrival on
\* each side, and no connection is overtaken (date_socket_accept).
PairedInOrder ==
    \A c, d \in Conns :
        (c < d /\ peer[c].side = peer[d].side /\ mate[d] # NoConn)
            => mate[c] # NoConn /\ mate[c] < mate[d]

\* Connections wait on one side only, none of them already relayed.
OneSideWaits ==
    /\ free["out"] = <<>> \/ free["in"] = <<>>
    /\ \A side \in Sides : \A k \in DOMAIN free[side] :
          mate[ConnOf(free[side][k])] = NoConn

\* A block that is not being torn down owns its descriptor: it is open, and no
\* other block believes to own it (no use of a closed and reused number).
OwnsDescriptor ==
    ghosts.wild \/ \A a \in live : ep.addr # a =>
        /\ Open(mem[a].fd)
        /\ \A b \in live \ {a} : mem[b].fd = mem[a].fd => (ep.addr = b /\ ep.at = "ctl")

\* Two relayed connections point to each other or have been cut apart; a pointer
\* to a freed block is left behind by a reset, for which on_a_disconnected does
\* not tell the partner, or by the deletion of the channel, which closes each end
\* on its own.
DanglingOnlyAfterReset ==
    ghosts.wild \/ \A a \in live :
        (Serving(a) /\ mem[a].ptr # Null)
            => \/ Mutual(a, mem[a].ptr)
               \/ mate[ConnOf(a)] \in ghosts.reset \/ chan # "open"

\* Bytes never reach a connection other than the one theirs was paired with, and
\* no freed or foreign block is touched, before a connection was reset or the channel
\* is deleted: after one of its relayed connections has ended, or while a queue is read
\* that was emptied between two calls.
StrayOnlyAfterReset ==
    (ghosts.wild \/ ghosts.strayed) =>
        \/ ghosts.reset # {}
        \/ chan # "open" /\ \E c \in Conns : mate[c] # NoConn /\ peer[c].state = "closed"
        \/ chan # "open" /\ ghosts.torn

\* A served connection is registered under its own block, unless the late
\* EPOLL_CTL_DEL of another connection with the same number removed it.
JoinedIsWatched ==
    ghosts.wild \/ \A a \in live : Serving(a) =>
        \/ watch[mem[a].fd].ptr = a
        \/ ConnOf(a) \in ghosts.unhooked

\* A connection whose partner is gone is about to be closed, unless the request
\* came between the two add_eool of its pair, or its registration was removed.
OrphanIsClosing ==
    ghosts.wild \/ \A a \in live : (Serving(a) /\ mem[a].ptr = Null) =>
        \/ watch[mem[a].fd] = [ev |-> "out", ptr |-> a]
        \/ ConnOf(a) \in ghosts.missed \cup ghosts.unhooked

\* The pairing of users with connections of the client (date_socket_accept, add_eool).
PairingIsSound == PairedInOrder /\ OneSideWaits /\ OrphanIsClosing

\* What is left of a pair when its ends are closed, reset or deleted in any order, with
\* descriptor numbers and blocks used again (close_socket, run_epoll, del_channel).
RelaysStayApart == /\ OwnsDescriptor /\ JoinedIsWatched
                   /\ DanglingOnlyAfterReset /\ StrayOnlyAfterReset

\* When a peer of a pair closes, its own socket is closed and so is the other end of
\* the relay, unless the request came between the two add_eool of the pair, or a
\* registration of one of them was removed; or the deletion of the channel came between
\* and left the other end behind, or met an emptied queue.
CloseReachesPartner ==
    \A c \in Conns : (peer[c].state = "fin" /\ mate[c] # NoConn)
        ~> \/ peer[c].state # "fin" /\ mate[c] # NoConn /\ peer[mate[c]].state = "closed"
           \/ mate[c] \in ghosts.missed \cup ghosts.late \/ {c, mate[c]} \cap ghosts.unhooked # {}
           \/ ghosts.torn

\* Deleting the channel closes every paired connection, those that are between the
\* two add_eool when the loop comes to them excepted, and those that are pushed when the
\* loop over their queue has ended.
DeleteClosesRelayed ==
    \A c \in Conns :
        (chan # "open" /\ mate[c] # NoConn)
        ~> \/ peer[c].state = "closed" \/ ghosts.wild
           \/ c \in ghosts.missed \cup ghosts.unhooked \cup ghosts.late
=============================================================================
