-------------------------- MODULE DataChannelProofs --------------------------
(***************************************************************************)
(* Proofs about DataChannel: what keeps the two ends of each pair apart    *)
(* from the others while descriptors, socket_info blocks and epoll         *)
(* registrations are used again by three threads without a lock, and what  *)
(* keeps the pairs in the order of arrival.                                *)
(*                                                                         *)
(* After a step through a pointer that is another's (ghosts.wild) only the *)
(* types and the history are claimed, and that it took a reset or a        *)
(* deletion to get there; until then the invariant says whose descriptor,  *)
(* registration, event and pointer each one is.                            *)
(***************************************************************************)
EXTENDS DataChannel, FiniteSetTheorems, WellFoundedInduction, TLAPS

Alive  == {"up", "fin", "rst", "eof"} \* the states of a connection that has a descriptor
Events == [ev : {"in", "out"}, ptr : Addrs]
AcceptsAt == {"wait", "accepted", "look", "front", "pop", "push1", "push2", "add1", "add2"}

DcTypes ==
    /\ peer \in [Conns -> [state : Alive \cup {"none", "closed"}, side : Sides, rx : 0..1]]
    /\ file \in [Fds -> 0..MaxConns]
    /\ watch \in [Fds -> Events \cup {NoWatch}]
    /\ mem \in [Addrs -> Info] /\ live \subseteq Addrs
    /\ free \in [Sides -> Seq(Addrs)] /\ busy \in [Sides -> Seq(Addrs)]
    /\ acc \in [at : AcceptsAt, side : Sides, fd : 0..NFds,
                me : Addrs \cup {Null}, other : Addrs \cup {Null}]
    /\ ep \in [at : {"wait", "close", "ctl"}, addr : Addrs \cup {Null}, fd : 0..NFds]
    /\ batch \subseteq Events
    /\ chan \in {"open", "closing", "deleted"} /\ accepted \in 0..MaxConns
    /\ del \in [loop : 1..4, at : {"test", "front", "pop", "close"}, addr : Addrs \cup {Null}]
    /\ mate \in [Conns -> 0..MaxConns]
    /\ ghosts \in [reset : SUBSET Conns, missed : SUBSET (0..MaxConns),
                   unhooked : SUBSET (0..MaxConns), late : SUBSET (0..MaxConns),
                   strayed : BOOLEAN, wild : BOOLEAN, torn : BOOLEAN]

\* What each thread has in hand; while the channel is open only the accept thread takes
\* from the queues of those that wait.
InHand ==
    /\ acc.at = "accepted" => acc.fd \in Fds
    /\ acc.at \notin {"wait", "accepted"} => acc.me \in Addrs
    /\ acc.at \in {"pop", "push1", "push2", "add1", "add2"} => acc.other \in Addrs
    /\ acc.at \in {"front", "pop"} /\ chan = "open" =>
           /\ free[Other(acc.side)] # <<>>
           /\ acc.at = "pop" => acc.other = Head(free[Other(acc.side)])
    /\ ep.at = "wait" <=> ep.addr = Null
    /\ del.at \in {"pop", "close"} => del.addr \in Addrs

\* The kernel: the descriptors stand for different connections, and for those that are
\* not closed; connections are numbered as they come.
KernelFits ==
    /\ \A f \in Fds : file[f] # NoConn => file[f] <= accepted /\ peer[file[f]].state \in Alive
    /\ \A f, g \in Fds : file[f] = file[g] /\ file[f] # NoConn => f = g
    /\ \A c \in Conns : c > accepted => peer[c].state = "none" /\ mate[c] = NoConn
    /\ \A c \in Conns : peer[c].state \in {"rst", "eof"} => c \in ghosts.reset

\* Connections wait on one side only.
OneSide == free["out"] = <<>> \/ free["in"] = <<>>

SomeClosed == \E c \in Conns : mate[c] # NoConn /\ peer[c].state = "closed"
Torn(a)    == ep.at = "ctl" /\ ep.addr = a \* its descriptor is closed, the block not yet freed

\* Bytes go astray by a wild pointer only, and those take a reset or a deletion.
Tamed == /\ ghosts.strayed \/ ghosts.torn => ghosts.wild
         /\ ghosts.torn => chan # "open"
         /\ ghosts.wild => ghosts.reset # {} \/ (chan # "open" /\ (SomeClosed \/ ghosts.torn))

\* Each block has a descriptor of its own, and so has the connection in hand.
FdsOwned ==
    /\ \A a \in live : mem[a].fd \in Fds /\ (~Torn(a) => Open(mem[a].fd))
    /\ \A a, b \in live : a # b /\ ~Torn(a) /\ ~Torn(b) => mem[a].fd # mem[b].fd
    /\ acc.at = "accepted" =>
           /\ Open(acc.fd) /\ file[acc.fd] = accepted /\ mate[accepted] = NoConn
           /\ watch[acc.fd] = NoWatch
           /\ \A a \in live : ~Torn(a) => mem[a].fd # acc.fd

\* Only a block that is in the epoll set is torn down.
TearingDown ==
    /\ ep.at # "wait" => ep.addr \in live /\ ep.fd = mem[ep.addr].fd /\ mem[ep.addr].joined
    /\ ep.at = "ctl" => SomeClosed

\* A block points to itself until it is paired, and enters the epoll set after that.
PairedFirst ==
    /\ \A a \in live : mem[a].joined => mem[a].ptr # a
    /\ \A a \in live : ~Torn(a) => (mem[a].ptr = a <=> mate[ConnOf(a)] = NoConn)

\* The connection in hand waits for nobody yet; the one it found is still the first of
\* its queue, or was taken out by delete_channel_server.
Holding ==
    /\ acc.at \in {"look", "front", "pop"} =>
           /\ acc.me \in live /\ ~mem[acc.me].joined /\ mem[acc.me].fd = acc.fd
           /\ mem[acc.me].ptr = acc.me
           /\ \A s \in Sides : \A k \in DOMAIN free[s] : free[s][k] # acc.me
    /\ acc.at = "pop" =>
           /\ acc.other \in live /\ mem[acc.other].ptr = acc.other /\ acc.other # acc.me
           /\ \A s \in Sides : \A k \in DOMAIN free[s] :
                 free[s][k] = acc.other => s = Other(acc.side) /\ k = 1
    /\ acc.at \in {"push1", "push2", "add1"} =>
           /\ acc.me # acc.other
           /\ \A a \in {acc.me, acc.other} : a \in live /\ ~mem[a].joined /\ mem[a].ptr # a
    /\ acc.at = "add2" => Second \in live /\ ~mem[Second].joined /\ mem[Second].ptr # Second

\* Why the end of a block is not told to its partner.
Untold(a) == mem[a].ptr = Null \/ chan # "open"

\* A registration is that of a block with its own descriptor.
WatchFits ==
    \A f \in Fds : watch[f].ev # "none" =>
        /\ watch[f].ptr \in live /\ mem[watch[f].ptr].joined /\ mem[watch[f].ptr].fd = f
        /\ ~Torn(watch[f].ptr)
        /\ watch[f].ev = "out" => Untold(watch[f].ptr)

\* The events that are not handled yet are of different blocks, none of them freed.
BatchFits ==
    /\ \A e \in batch : /\ e.ptr \in live /\ mem[e.ptr].joined /\ e.ptr # ep.addr
                        /\ e.ev = "out" => Untold(e.ptr)
    /\ \A e, d \in batch : e.ptr = d.ptr => e = d

JoinedWatched ==
    \A a \in live : mem[a].joined /\ a # ep.addr =>
        watch[mem[a].fd].ptr = a \/ ConnOf(a) \in ghosts.unhooked

\* The partner of a block has gone, or is going, without a word.
Excused(a) == /\ mate[ConnOf(a)] \in ghosts.reset \/ chan # "open"
              /\ SomeClosed \/ ep.at = "close"

\* Two blocks that point to each other are those of a pair, and others are excused.
Linked ==
    \A a \in live : a # ep.addr /\ mem[a].ptr \notin {Null, a} =>
        \/ /\ Mutual(a, mem[a].ptr) /\ mem[a].ptr # ep.addr
           /\ mate[ConnOf(a)] = ConnOf(mem[a].ptr)
        \/ /\ Mutual(a, mem[a].ptr) => mem[a].ptr = ep.addr
           /\ Excused(a)

\* A block that was cut off from its partner is asked to close, or was missed.
Orphans ==
    \A a \in live : a # ep.addr /\ mem[a].ptr = Null =>
        \/ mem[a].joined /\ watch[mem[a].fd] = [ev |-> "out", ptr |-> a]
        \/ mem[a].joined /\ ConnOf(a) \in ghosts.unhooked
        \/ ConnOf(a) \in ghosts.missed

\* Who waits is not paired and waits once; who was queued as paired may have been freed.
QueuesFit ==
    /\ \A s \in Sides : \A k \in DOMAIN free[s] :
           free[s][k] \in live /\ mem[free[s][k]].ptr = free[s][k]
    /\ \A s \in Sides : \A k, l \in DOMAIN free[s] : free[s][k] = free[s][l] => k = l
    /\ \A s \in Sides : \A k \in DOMAIN busy[s] : busy[s][k] \in live \/ SomeClosed
    /\ del.at \in {"pop", "close"} => del.addr \in live \/ SomeClosed

Sound == /\ FdsOwned /\ TearingDown /\ PairedFirst /\ Holding /\ WatchFits /\ BatchFits /\ JoinedWatched
         /\ Linked /\ Orphans /\ QueuesFit

DcInv == DcTypes /\ InHand /\ KernelFits /\ OneSide /\ Tamed /\ (~ghosts.wild => Sound)
-----------------------------------------------------------------------------
\* The numbers of descriptors and connections are not 0, and Null is no address.
LEMMA Numbers ==
    /\ NFds \in Nat /\ MaxConns \in Nat /\ Null \notin Addrs
    /\ BadFd = 0 /\ NoConn = 0
    /\ \A f \in Fds : f \in 0..NFds /\ f # 0 /\ f \in Int
    /\ \A f \in 0..NFds : f = 0 \/ f \in Fds
    /\ \A c \in Conns : c \in 0..MaxConns /\ c # 0 /\ c \in Int
    /\ \A c \in 0..MaxConns : c = 0 \/ c \in Conns
    /\ \A f : Open(f) => f \in Fds
BY ConstantsAssumption DEF Fds, Conns, BadFd, NoConn, Open

\* What holds of each component of the state by its type.
LEMMA MemTyped ==
    ASSUME DcTypes
    PROVE  /\ \A a \in Addrs : /\ mem[a] \in Info /\ mem[a].fd \in 0..NFds
                               /\ mem[a].joined \in BOOLEAN /\ mem[a].ptr \in Addrs \cup {Null}
           /\ \A a \in live : a \in Addrs
BY DEF DcTypes, Info

\* What the kernel knows of descriptors and connections.
LEMMA KernelTyped ==
    ASSUME DcTypes
    PROVE  /\ \A f \in Fds : /\ file[f] \in 0..MaxConns
                             /\ file[f] # NoConn => file[f] \in Conns /\ Open(f)
           /\ \A f : Open(f) => f \in Fds /\ file[f] # NoConn /\ file[f] \in Conns
           /\ \A c \in Conns : /\ peer[c].state \in Alive \cup {"none", "closed"}
                               /\ peer[c].side \in Sides /\ peer[c].rx \in 0..1
                               /\ mate[c] \in 0..MaxConns
           /\ accepted \in Int
BY Numbers DEF DcTypes, Open

\* A registration is an event, or there is none.
LEMMA WatchTyped ==
    ASSUME DcTypes
    PROVE  /\ \A f \in Fds : /\ watch[f] = NoWatch <=> watch[f].ev = "none"
                             /\ watch[f].ptr = Null <=> watch[f].ev = "none"
                             /\ watch[f].ev # "none" => watch[f] \in Events
           /\ \A e \in Events : e.ev \in {"in", "out"} /\ e.ptr \in Addrs /\ e.ev # "none"
           /\ \A e \in batch : e \in Events
           /\ \A a \in Addrs : [ev |-> "in", ptr |-> a] \in Events
                               /\ [ev |-> "out", ptr |-> a] \in Events
           /\ NoWatch.ev = "none" /\ NoWatch.ptr = Null
<1>1. \A f \in Fds : watch[f] \in Events \/ watch[f] = NoWatch
  BY DEF DcTypes
<1>2. \A e \in Events : e.ev \in {"in", "out"} /\ e.ptr \in Addrs /\ e.ev # "none"
  BY DEF Events
<1>3. NoWatch.ev = "none" /\ NoWatch.ptr = Null
  BY DEF NoWatch
<1>4. \A a \in Addrs : [ev |-> "in", ptr |-> a] \in Events /\ [ev |-> "out", ptr |-> a] \in Events
  BY DEF Events
<1>5. \A e \in batch : e \in Events
  BY DEF DcTypes
<1> QED  BY <1>1, <1>2, <1>3, <1>4, <1>5, Numbers

\* What the threads have in hand.
LEMMA ThreadsTyped ==
    ASSUME DcTypes
    PROVE  /\ acc.at \in AcceptsAt /\ acc.side \in Sides
           /\ acc.fd \in 0..NFds /\ acc.me \in Addrs \cup {Null} /\ acc.other \in Addrs \cup {Null}
           /\ ep.at \in {"wait", "close", "ctl"} /\ ep.addr \in Addrs \cup {Null} /\ ep.fd \in 0..NFds
           /\ chan \in {"open", "closing", "deleted"}
           /\ del.loop \in 1..4 /\ del.at \in {"test", "front", "pop", "close"}
           /\ del.addr \in Addrs \cup {Null}
BY DEF DcTypes

\* What the history notes.
LEMMA GhostsTyped ==
    ASSUME DcTypes
    PROVE  /\ ghosts.reset \subseteq Conns /\ ghosts.missed \subseteq 0..MaxConns
           /\ ghosts.unhooked \subseteq 0..MaxConns /\ ghosts.late \subseteq 0..MaxConns
           /\ ghosts.strayed \in BOOLEAN /\ ghosts.wild \in BOOLEAN /\ ghosts.torn \in BOOLEAN
BY DEF DcTypes

\* Idle threads.
LEMMA IdleTyped ==
    ASSUME DcTypes
    PROVE  /\ AccIdle \in [at : AcceptsAt, side : Sides, fd : 0..NFds,
                           me : Addrs \cup {Null}, other : Addrs \cup {Null}]
           /\ Waiting \in [at : {"wait", "close", "ctl"}, addr : Addrs \cup {Null}, fd : 0..NFds]
           /\ AccIdle.at = "wait" /\ Waiting.at = "wait" /\ Waiting.addr = Null
<1>1. PICK z \in 0..NFds : z = 0
  BY Numbers
<1>2. BadFd = z
  BY <1>1, Numbers
<1> QED  BY <1>2 DEF AccIdle, Waiting, Sides, AcceptsAt

\* In ~wild states the connection of a block that is not torn down is one.
LEMMA OwnConn ==
    ASSUME DcTypes, FdsOwned, NEW a \in live, ~Torn(a)
    PROVE  /\ a \in Addrs /\ mem[a].fd \in Fds /\ Open(mem[a].fd)
           /\ ConnOf(a) \in Conns /\ ConnOf(a) # NoConn /\ mate[ConnOf(a)] \in 0..MaxConns
<1>1. a \in Addrs /\ mem[a].fd \in Fds /\ Open(mem[a].fd)
  BY DEF FdsOwned, DcTypes
<1>2. ConnOf(a) \in Conns /\ ConnOf(a) # NoConn
  BY <1>1, KernelTyped DEF ConnOf
<1> QED  BY <1>1, <1>2, KernelTyped

\* Different blocks have different connections.
LEMMA OwnConnsDiffer ==
    ASSUME DcTypes, KernelFits, FdsOwned, NEW a \in live, ~Torn(a), NEW b \in live, ~Torn(b), a # b
    PROVE  ConnOf(a) # ConnOf(b) /\ mem[a].fd # mem[b].fd
<1>1. mem[a].fd # mem[b].fd
  BY DEF FdsOwned
<1>2. mem[a].fd \in Fds /\ mem[b].fd \in Fds /\ ConnOf(a) # NoConn
  BY OwnConn
<1> QED  BY <1>1, <1>2 DEF KernelFits, ConnOf

\* What the accept thread has in hand is not touched by the other threads.
LEMMA HoldingKept ==
    ASSUME Holding, UNCHANGED <<acc, mem, live, free>> PROVE Holding'
BY DEF Holding, Second

\* What the threads have in hand is theirs.
LEMMA InHandKept ==
    ASSUME InHand, UNCHANGED <<acc, free, ep, del>>, chan' = "open" => chan = "open"
    PROVE  InHand'
BY DEF InHand

\* A step that closes, frees, pairs and registers nothing; it may ask to close a block.
LEMMA QuietStep ==
    ASSUME DcInv, ~ghosts.wild, DcTypes', QueuesFit', Holding',
           UNCHANGED <<file, mem, live, ep, accepted, mate>>,
           acc'.at = "accepted" => acc' = acc,
           batch' \subseteq batch, SomeClosed => SomeClosed', chan # "open" => chan' # "open",
           ghosts.reset \subseteq ghosts'.reset, ghosts.missed \subseteq ghosts'.missed,
           ghosts.unhooked \subseteq ghosts'.unhooked,
           NEW a,
           \/ watch' = watch
           \/ /\ a \in live /\ mem[a].joined /\ ~Torn(a) /\ Untold(a)'
              /\ watch' = [watch EXCEPT ![mem[a].fd] = [ev |-> "out", ptr |-> a]]
    PROVE  Sound'
<1>1. DcTypes /\ Sound /\ KernelFits
  BY DEF DcInv
<1>2. \A b : /\ Open(b)' <=> Open(b)
             /\ ConnOf(b)' = ConnOf(b) /\ (Torn(b)' <=> Torn(b))
             /\ Excused(b) => Excused(b)'
             /\ Untold(b) => Untold(b)'
             /\ \A p : Mutual(b, p)' <=> Mutual(b, p)
  BY DEF Open, ConnOf, Torn, Excused, Untold, Mutual
<1>3. \A f \in Fds : \/ watch'[f] = watch[f]
                     \/ /\ a \in live /\ mem[a].joined /\ ~Torn(a) /\ Untold(a)' /\ f = mem[a].fd
                        /\ watch'[f] = [ev |-> "out", ptr |-> a]
  BY <1>1 DEF DcTypes
<1>4. FdsOwned'
  BY <1>1, <1>2, <1>3, ThreadsTyped, Numbers DEF Sound, FdsOwned
<1>5. TearingDown' /\ PairedFirst'
  BY <1>1, <1>2 DEF Sound, TearingDown, PairedFirst
<1>6. WatchFits'
  BY <1>1, <1>2, <1>3 DEF Sound, WatchFits
<1>7. BatchFits'
  BY <1>1, <1>2 DEF Sound, BatchFits
<1>8. ASSUME NEW b \in live, b # ep.addr
      PROVE  \/ watch'[mem[b].fd] = watch[mem[b].fd]
             \/ watch'[mem[b].fd] = [ev |-> "out", ptr |-> b]
  <2>1. ~Torn(b)
    BY <1>8 DEF Torn
  <2> QED  BY <1>1, <1>3, <1>8, <2>1, OwnConn DEF Sound, FdsOwned
<1>9. JoinedWatched'
  <2>1. SUFFICES ASSUME NEW b \in live, mem[b].joined, b # ep.addr
                 PROVE  watch'[mem[b].fd].ptr = b \/ ConnOf(b) \in ghosts'.unhooked
    BY <1>2 DEF JoinedWatched
  <2>2. watch[mem[b].fd].ptr = b \/ ConnOf(b) \in ghosts.unhooked
    BY <1>1, <2>1 DEF Sound, JoinedWatched
  <2>3. CASE watch'[mem[b].fd] = watch[mem[b].fd]
    BY <2>2, <2>3
  <2>4. CASE watch'[mem[b].fd] = [ev |-> "out", ptr |-> b]
    BY <2>4
  <2> QED  BY <1>8, <2>1, <2>3, <2>4
<1>10. Linked'
  BY <1>1, <1>2 DEF Sound, Linked
<1>11. Orphans'
  BY <1>1, <1>2, <1>8 DEF Sound, Orphans
<1> QED  BY <1>4, <1>5, <1>6, <1>7, <1>9, <1>10, <1>11 DEF Sound

-----------------------------------------------------------------------------
(***************************************************************************)
(* The peers.                                                              *)
(***************************************************************************)
\* A peer changes the state of its connection, which stays open.
LEMMA PeerEffect ==
    ASSUME DcInv, NEW c \in Conns, Peer(c)
    PROVE  /\ UNCHANGED <<file, watch, mem, live, free, busy, acc, ep, batch, chan, del, accepted, mate>>
           /\ peer' \in [Conns -> [state : Alive \cup {"none", "closed"}, side : Sides, rx : 0..1]]
           /\ \A d \in Conns : \/ peer'[d].state = peer[d].state
                               \/ peer[d].state \in Alive /\ peer'[d].state \in Alive
           /\ \A d \in Conns : peer'[d].side = peer[d].side
           /\ ghosts' = [ghosts EXCEPT !.reset = ghosts'.reset]
           /\ ghosts.reset \subseteq ghosts'.reset /\ ghosts'.reset \subseteq Conns
           /\ \A d \in Conns : peer'[d].state \in {"rst", "eof"} => d \in ghosts'.reset
<1>1. DcTypes /\ KernelFits
  BY DEF DcInv
<1>2. PICK one \in 0..1 : one = 1
  OBVIOUS
<1>3. /\ UNCHANGED <<file, watch, mem, live, free, busy, acc, ep, batch, chan, del, accepted, mate>>
      /\ \E q \in [state : Alive \cup {"none", "closed"}, side : Sides, rx : 0..1] :
             /\ peer' = [peer EXCEPT ![c] = q] /\ q.side = peer[c].side
             /\ q.state = peer[c].state \/ (peer[c].state \in Alive /\ q.state \in Alive)
             /\ q.state \in {"rst", "eof"} => c \in ghosts'.reset
      /\ ghosts' = [ghosts EXCEPT !.reset = ghosts'.reset]
      /\ ghosts.reset \subseteq ghosts'.reset /\ ghosts'.reset \subseteq Conns
  <2>1. peer[c] \in [state : Alive \cup {"none", "closed"}, side : Sides, rx : 0..1]
    BY <1>1 DEF DcTypes
  <2>2. CASE PeerSends(c)
    <3> DEFINE q == [peer[c] EXCEPT !.rx = one]
    <3>1. peer' = [peer EXCEPT ![c] = q] /\ ghosts' = ghosts
      BY <1>2, <2>2 DEF PeerSends
    <3>2. q \in [state : Alive \cup {"none", "closed"}, side : Sides, rx : 0..1]
          /\ q.side = peer[c].side /\ q.state = peer[c].state
      BY <2>1
    <3>3. ghosts' = [ghosts EXCEPT !.reset = ghosts'.reset]
      BY <1>1, <3>1 DEF DcTypes
    <3> HIDE DEF q
    <3> QED  BY <1>1, <2>2, <3>1, <3>2, <3>3, GhostsTyped DEF PeerSends, queues, KernelFits
  <2>3. CASE PeerCloses(c)
    <3> DEFINE q == [peer[c] EXCEPT !.state = "fin"]
    <3>1. peer' = [peer EXCEPT ![c] = q] /\ ghosts' = ghosts /\ peer[c].state = "up"
      BY <2>3 DEF PeerCloses
    <3>2. q \in [state : Alive \cup {"none", "closed"}, side : Sides, rx : 0..1]
          /\ q.side = peer[c].side /\ q.state = "fin"
      BY <2>1 DEF Alive
    <3>3. ghosts' = [ghosts EXCEPT !.reset = ghosts'.reset]
      BY <1>1, <3>1 DEF DcTypes
    <3> HIDE DEF q
    <3> QED  BY <1>1, <2>3, <3>1, <3>2, <3>3, GhostsTyped DEF PeerCloses, queues, Alive
  <2>4. CASE PeerResets(c)
    <3> DEFINE q == [peer[c] EXCEPT !.state = "rst"]
    <3>1. /\ peer' = [peer EXCEPT ![c] = q] /\ peer[c].state \in {"up", "fin"}
          /\ ghosts' = [ghosts EXCEPT !.reset = ghosts.reset \cup {c}]
      BY <2>4 DEF PeerResets
    <3>2. q \in [state : Alive \cup {"none", "closed"}, side : Sides, rx : 0..1]
          /\ q.side = peer[c].side /\ q.state = "rst"
      BY <2>1 DEF Alive
    <3>3. ghosts' = [ghosts EXCEPT !.reset = ghosts'.reset] /\ ghosts'.reset = ghosts.reset \cup {c}
      BY <1>1, <3>1 DEF DcTypes
    <3> HIDE DEF q
    <3> QED  BY <1>1, <2>4, <3>1, <3>2, <3>3, GhostsTyped DEF PeerResets, queues, Alive
  <2> QED  BY <2>2, <2>3, <2>4 DEF Peer
<1>4. PICK q \in [state : Alive \cup {"none", "closed"}, side : Sides, rx : 0..1] :
          /\ peer' = [peer EXCEPT ![c] = q] /\ q.side = peer[c].side
          /\ q.state = peer[c].state \/ (peer[c].state \in Alive /\ q.state \in Alive)
          /\ q.state \in {"rst", "eof"} => c \in ghosts'.reset
  BY <1>3
<1>5. peer' \in [Conns -> [state : Alive \cup {"none", "closed"}, side : Sides, rx : 0..1]]
  BY <1>1, <1>4 DEF DcTypes
<1>6. \A d \in Conns : peer'[d] = IF d = c THEN q ELSE peer[d]
  BY <1>1, <1>4 DEF DcTypes
<1>7. \A d \in Conns : peer'[d].state \in {"rst", "eof"} => d \in ghosts'.reset
  BY <1>1, <1>3, <1>4, <1>6 DEF KernelFits
<1> QED  BY <1>3, <1>4, <1>5, <1>6, <1>7

\* A peer that sends, closes or resets keeps the invariant.
LEMMA PeerStep == ASSUME DcInv, NEW c \in Conns, Peer(c) PROVE DcInv'
<1>1. /\ UNCHANGED <<file, watch, mem, live, free, busy, acc, ep, batch, chan, del, accepted, mate>>
      /\ \A d \in Conns : \/ peer'[d].state = peer[d].state
                          \/ peer[d].state \in Alive /\ peer'[d].state \in Alive
      /\ \A d \in Conns : peer'[d].side = peer[d].side
      /\ ghosts.reset \subseteq ghosts'.reset
      /\ \A d \in Conns : peer'[d].state \in {"rst", "eof"} => d \in ghosts'.reset
  BY PeerEffect
<1>2. DcTypes /\ InHand /\ KernelFits /\ OneSide /\ Tamed
  BY DEF DcInv
<1>3. /\ ghosts'.missed = ghosts.missed /\ ghosts'.unhooked = ghosts.unhooked
      /\ ghosts'.strayed = ghosts.strayed /\ ghosts'.wild = ghosts.wild
      /\ ghosts'.torn = ghosts.torn
  BY <1>2, PeerEffect DEF DcTypes
<1>4. DcTypes'
  BY <1>1, <1>2, PeerEffect DEF DcTypes
<1>5. InHand' /\ OneSide'
  BY <1>1, <1>2, InHandKept DEF OneSide
<1>6. KernelFits'
  BY <1>1, <1>2, KernelTyped DEF KernelFits, Alive
<1>7. SomeClosed => SomeClosed'
  BY <1>1 DEF SomeClosed, Alive
<1>8. Tamed'
  BY <1>1, <1>2, <1>3, <1>7, GhostsTyped DEF Tamed
<1>9. ASSUME ~ghosts'.wild PROVE Sound'
  <2>1. ~ghosts.wild /\ Sound
    BY <1>3, <1>9 DEF DcInv
  <2>2. QueuesFit' /\ Holding'
    BY <1>1, <1>7, <2>1, HoldingKept DEF Sound, QueuesFit
  <2> QED  BY <1>1, <1>3, <1>4, <1>7, <2>1, <2>2, QuietStep
<1> QED  BY <1>4, <1>5, <1>6, <1>8, <1>9 DEF DcInv
-----------------------------------------------------------------------------
(***************************************************************************)
(* The accept thread.                                                      *)
(***************************************************************************)
\* There is a lowest free descriptor.
LEMMA LowestIsOne ==
    ASSUME NEW S \in SUBSET Fds, S # {}
    PROVE  Lowest(S) \in S
<1> DEFINE UpTo(x) == {y \in S : y <= x}
           T == {UpTo(x) : x \in S}
<1>1. S \subseteq Int /\ IsFiniteSet(S)
  <2>1. IsFiniteSet(Fds) /\ Fds \subseteq Int
    BY FS_Interval, Numbers DEF Fds
  <2> QED  BY <2>1, FS_Subset
<1>2. IsWellFoundedOn(StrictSubsetOrdering(S), SUBSET S)
  BY <1>1, FS_StrictSubsetOrderingWellFounded, FS_FiniteSubsetsOfFinite
<1>3. T \subseteq SUBSET S /\ T # {}
  OBVIOUS
<1>4. PICK B \in T : \A C \in T : ~(<<C, B>> \in StrictSubsetOrdering(S))
  <2> HIDE DEF T
  <2> QED  BY <1>2, <1>3, WFMin
<1>5. PICK x \in S : B = UpTo(x)
  BY <1>4
<1>6. ASSUME NEW y \in S PROVE x <= y
  <2>1. SUFFICES ASSUME ~(x <= y) PROVE FALSE
    OBVIOUS
  <2>2. x \in UpTo(x) /\ x \notin UpTo(y) /\ \A z \in S : z <= y => z <= x
    BY <1>1, <2>1
  <2>3. <<UpTo(y), UpTo(x)>> \in StrictSubsetOrdering(S)
    BY <2>2 DEF StrictSubsetOrdering
  <2> QED  BY <1>4, <1>5, <2>3
<1> QED  BY <1>6 DEF Lowest

\* accept() takes the lowest free descriptor, which nobody believes to own.
LEMMA AcceptStep == ASSUME DcInv, NEW side \in Sides, Accept(side) PROVE DcInv'
<1>1. DcTypes /\ InHand /\ KernelFits /\ OneSide /\ Tamed /\ acc.at = "wait" /\ accepted < MaxConns
  BY DEF DcInv, Accept
<1>2. PICK f \in Fds : /\ file[f] = NoConn
                       /\ f = Lowest({g \in Fds : file[g] = NoConn})
  BY LowestIsOne DEF Accept
<1>3. PICK c \in Conns : c = accepted + 1
  BY <1>1, Numbers, KernelTyped DEF Conns, DcTypes
<1>4. /\ file' = [file EXCEPT ![f] = c] /\ accepted' = c
      /\ peer' = [peer EXCEPT ![c] = [state |-> "up", side |-> side, rx |-> 0]]
      /\ acc' = [AccIdle EXCEPT !.at = "accepted", !.side = side, !.fd = f]
      /\ UNCHANGED <<watch, mem, live, free, busy, ep, batch, chan, del, mate, ghosts>>
  BY <1>2, <1>3 DEF Accept, queues
<1>5. /\ \A g \in Fds : file'[g] = IF g = f THEN c ELSE file[g]
      /\ \A d \in Conns : d # c => peer'[d] = peer[d]
      /\ peer'[c].state = "up" /\ acc'.at = "accepted" /\ acc'.fd = f
      /\ acc' \in [at : AcceptsAt, side : Sides, fd : 0..NFds,
                   me : Addrs \cup {Null}, other : Addrs \cup {Null}]
  <2>1. AccIdle \in [at : AcceptsAt, side : Sides, fd : 0..NFds,
                     me : Addrs \cup {Null}, other : Addrs \cup {Null}]
    BY <1>1, IdleTyped
  <2>2. f \in 0..NFds
    BY Numbers
  <2>3. acc'.at = "accepted" /\ acc'.fd = f /\ 
        acc' \in [at : AcceptsAt, side : Sides, fd : 0..NFds,
                  me : Addrs \cup {Null}, other : Addrs \cup {Null}]
    BY <1>4, <2>1, <2>2 DEF AcceptsAt
  <2> QED  BY <1>1, <1>4, <2>3 DEF DcTypes
<1>6. DcTypes'
  <2>1. PICK z \in 0..1 : z = 0
    OBVIOUS
  <2>2. [state |-> "up", side |-> side, rx |-> z]
            \in [state : Alive \cup {"none", "closed"}, side : Sides, rx : 0..1]
    BY DEF Alive
  <2>3. peer' \in [Conns -> [state : Alive \cup {"none", "closed"}, side : Sides, rx : 0..1]]
    BY <1>1, <1>4, <2>1, <2>2 DEF DcTypes
  <2>4. file' \in [Fds -> 0..MaxConns] /\ accepted' \in 0..MaxConns
    BY <1>1, <1>4, Numbers DEF DcTypes
  <2> QED  BY <1>1, <1>4, <1>5, <2>3, <2>4 DEF DcTypes
<1>7. InHand' /\ OneSide'
  BY <1>1, <1>4, <1>5 DEF InHand, OneSide
<1>8. peer[c].state = "none" /\ mate[c] = NoConn /\ \A g \in Fds : file[g] # c
  <2>1. c > accepted /\ c # NoConn
    BY <1>1, <1>3, KernelTyped, Numbers
  <2>2. \A d \in 0..MaxConns : d <= accepted => d # c
    BY <1>1, <1>3, KernelTyped
  <2>3. \A g \in Fds : file[g] \in 0..MaxConns /\ (file[g] = NoConn \/ file[g] <= accepted)
    BY <1>1, KernelTyped DEF KernelFits
  <2> QED  BY <1>1, <2>1, <2>2, <2>3 DEF KernelFits
<1>9. KernelFits'
  <2>1. \A d \in 0..MaxConns : d <= accepted => d <= c
    BY <1>1, <1>3, KernelTyped
  <2>2. \A d \in Conns : d > c => d > accepted /\ d # c
    BY <1>1, <1>3, KernelTyped, Numbers
  <2>3. \A g \in Fds : file'[g] # NoConn => file'[g] <= c /\ peer'[file'[g]].state \in Alive
    BY <1>1, <1>3, <1>5, <1>8, <2>1, KernelTyped, Numbers DEF KernelFits, Alive
  <2>4. \A g, h \in Fds : file'[g] = file'[h] /\ file'[g] # NoConn => g = h
    BY <1>1, <1>5, <1>8 DEF KernelFits
  <2> QED  BY <1>1, <1>4, <1>5, <1>8, <2>2, <2>3, <2>4 DEF KernelFits
<1>10. SomeClosed => SomeClosed'
  BY <1>4, <1>5, <1>8 DEF SomeClosed
<1>11. Tamed'
  BY <1>1, <1>4, <1>10 DEF Tamed
<1>12. ASSUME ~ghosts'.wild PROVE Sound'
  <2>1. Sound /\ ~ghosts.wild
    BY <1>4, <1>12 DEF DcInv
  <2>2. \A a : (Torn(a)' <=> Torn(a)) /\ (a # ep.addr => ~Torn(a))
    BY <1>4 DEF Torn
  <2>3. \A a \in live : ~Torn(a) => /\ mem[a].fd # f /\ ConnOf(a)' = ConnOf(a) /\ Open(mem[a].fd)'
                                    /\ mem[a].fd \in Fds
    BY <1>1, <1>2, <1>4, <1>5, <2>1, OwnConn DEF Sound, Open, ConnOf
  <2>4. \A a \in live : ~Torn(a) => (Excused(a) => Excused(a)') /\ (Untold(a) => Untold(a)')
    BY <1>4, <1>10, <2>3 DEF Excused, Untold
  <2>5. FdsOwned'
    <3>1. watch[f] = NoWatch
      BY <1>1, <2>1, <2>3, WatchTyped DEF Sound, WatchFits
    <3>2. Open(f)' /\ mate[c] = NoConn
      BY <1>5, <1>8, Numbers DEF Open
    <3> QED  BY <1>4, <1>5, <2>1, <2>2, <2>3, <3>1, <3>2 DEF Sound, FdsOwned
  <2>6. TearingDown'
    BY <1>4, <1>10, <2>1 DEF Sound, TearingDown
  <2>7. PairedFirst'
    BY <1>4, <1>5, <2>1, <2>2, <2>3 DEF Sound, PairedFirst
  <2>8. WatchFits' /\ BatchFits'
    BY <1>4, <2>1, <2>2 DEF Sound, WatchFits, BatchFits, Untold
  <2>9. JoinedWatched'
    BY <1>4, <2>1, <2>2, <2>3 DEF Sound, JoinedWatched
  <2>10. Linked'
    BY <1>4, <2>1, <2>2, <2>3, <2>4 DEF Sound, Linked, Mutual
  <2>11. Orphans'
    BY <1>4, <2>1, <2>2, <2>3 DEF Sound, Orphans
  <2>12. QueuesFit'
    BY <1>4, <1>10, <2>1 DEF Sound, QueuesFit
  <2>13. Holding'
    BY <1>5 DEF Holding
  <2> QED  BY <2>5, <2>6, <2>7, <2>8, <2>9, <2>10, <2>11, <2>12, <2>13 DEF Sound
<1> QED  BY <1>6, <1>7, <1>9, <1>11, <1>12 DEF DcInv

\* What a queue is after Append and after Tail.
LEMMA Appended ==
    ASSUME NEW q \in Seq(Addrs), NEW a \in Addrs
    PROVE  /\ Append(q, a) \in Seq(Addrs)
           /\ \A k \in DOMAIN Append(q, a) : (k \in DOMAIN q /\ Append(q, a)[k] = q[k])
                                             \/ (k = Len(q) + 1 /\ Append(q, a)[k] = a)
           /\ \A k \in DOMAIN q : k \in DOMAIN Append(q, a)
<1> DEFINE r == Append(q, a)
<1>1. /\ r \in Seq(Addrs) /\ Len(r) = Len(q) + 1 /\ Len(q) \in Nat
      /\ \A i \in 1..Len(q) : r[i] = q[i]
      /\ r[Len(q) + 1] = a /\ DOMAIN r = 1..Len(r) /\ DOMAIN q = 1..Len(q)
  OBVIOUS
<1> HIDE DEF r
<1> QED  BY <1>1 DEF r

\* And after Tail.
LEMMA Shortened ==
    ASSUME NEW q \in Seq(Addrs), q # <<>>
    PROVE  /\ Tail(q) \in Seq(Addrs) /\ Head(q) \in Addrs /\ 1 \in DOMAIN q /\ Head(q) = q[1]
           /\ \A k \in DOMAIN Tail(q) : k + 1 \in DOMAIN q /\ Tail(q)[k] = q[k + 1] /\ k \in Int /\ k + 1 # 1
<1> DEFINE r == Tail(q)
<1>1. /\ r \in Seq(Addrs) /\ Len(q) \in Nat /\ Len(q) > 0 /\ Len(r) = Len(q) - 1
      /\ \A i \in 1..Len(r) : r[i] = q[i + 1]
      /\ Head(q) = q[1] /\ Head(q) \in Addrs /\ DOMAIN r = 1..Len(r) /\ DOMAIN q = 1..Len(q)
  OBVIOUS
<1> HIDE DEF r
<1> QED  BY <1>1 DEF r

\* A connection gets a new block, which points to itself.
LEMMA GetInfoStep == ASSUME DcInv, NEW a \in Addrs, GetInfo(a) PROVE DcInv'
<1>1. DcTypes /\ InHand /\ KernelFits /\ OneSide /\ Tamed /\ acc.at = "accepted" /\ acc.fd \in Fds
      /\ a \notin live
  BY DEF DcInv, GetInfo, InHand
<1> DEFINE f == acc.fd
<1>2. /\ live' = live \cup {a} /\ acc' = [acc EXCEPT !.at = "look", !.me = a]
      /\ mem' = [mem EXCEPT ![a] = [fd |-> f, joined |-> FALSE, ptr |-> a]]
      /\ UNCHANGED <<peer, file, watch, free, busy, ep, batch, chan, del, accepted, mate, ghosts>>
  BY DEF GetInfo, kernel, queues
<1>3. /\ f \in Fds /\ f \in 0..NFds
      /\ acc'.at = "look" /\ acc'.me = a /\ acc'.fd = f
  BY <1>1, <1>2, Numbers DEF DcTypes
<1> HIDE DEF f
<1>4. /\ \A b \in Addrs : b # a => mem'[b] = mem[b]
      /\ mem'[a].fd = f /\ ~mem'[a].joined /\ mem'[a].ptr = a
  BY <1>1, <1>2 DEF DcTypes
<1>5. DcTypes'
  <2>1. [fd |-> f, joined |-> FALSE, ptr |-> a] \in Info
    BY <1>3 DEF Info
  <2>2. mem' \in [Addrs -> Info]
    BY <1>1, <1>2, <2>1 DEF DcTypes
  <2>3. acc' \in [at : AcceptsAt, side : Sides, fd : 0..NFds,
                   me : Addrs \cup {Null}, other : Addrs \cup {Null}]
    BY <1>1, <1>2 DEF DcTypes, AcceptsAt
  <2> QED  BY <1>1, <1>2, <2>2, <2>3 DEF DcTypes
<1>7. InHand' /\ OneSide'
  BY <1>1, <1>2, <1>3 DEF InHand, OneSide
<1>9. KernelFits' /\ (SomeClosed <=> SomeClosed') /\ Tamed'
  BY <1>1, <1>2 DEF KernelFits, SomeClosed, Tamed
<1>10. ASSUME ~ghosts'.wild PROVE Sound'
  <2>1. Sound /\ ~ghosts.wild
    BY <1>2, <1>10 DEF DcInv
  <2>2. \A b \in live : b # a /\ b \in Addrs /\ mem'[b] = mem[b]
    BY <1>1, <1>4 DEF DcTypes
  <2>3. /\ \A b : (Torn(b)' <=> Torn(b)) /\ (Open(b)' <=> Open(b))
        /\ ~Torn(a) /\ a # ep.addr
    BY <1>1, <1>2, <2>1, Numbers DEF Torn, Open, Sound, TearingDown, InHand
  <2>4. \A b \in live : ConnOf(b)' = ConnOf(b) /\ (Untold(b)' <=> Untold(b)) /\ (Excused(b) <=> Excused(b)')
    BY <1>2, <1>9, <2>2 DEF ConnOf, Untold, Excused
  <2>5. FdsOwned'
    <3>1. Open(f) /\ \A b \in live : ~Torn(b) => mem[b].fd # f
      BY <1>1, <2>1 DEF Sound, FdsOwned, f
    <3> QED  BY <1>2, <1>3, <1>4, <2>1, <2>2, <2>3, <3>1 DEF Sound, FdsOwned
  <2>6. TearingDown'
    BY <1>2, <1>9, <2>1, <2>2 DEF Sound, TearingDown
  <2>7. PairedFirst'
    <3>1. mate[ConnOf(a)'] = NoConn
      BY <1>1, <1>2, <1>4, <2>1 DEF Sound, FdsOwned, ConnOf, f
    <3> QED  BY <1>2, <1>3, <1>4, <2>1, <2>2, <2>3, <2>4, <3>1 DEF Sound, PairedFirst
  <2>8. WatchFits' /\ BatchFits'
    BY <1>2, <2>1, <2>2, <2>3, <2>4 DEF Sound, WatchFits, BatchFits
  <2>9. JoinedWatched'
    BY <1>2, <1>4, <2>1, <2>2, <2>4 DEF Sound, JoinedWatched
  <2>10. Linked'
    <3>1. SUFFICES ASSUME NEW b \in live, NEW p, p = mem[b].ptr, b # ep.addr, p \notin {Null, b}
                   PROVE  \/ /\ Mutual(b, p)' /\ p # ep.addr /\ mate[ConnOf(b)] = ConnOf(p)'
                          \/ (Mutual(b, p)' => p = ep.addr) /\ Excused(b)
      BY <1>2, <1>4, <2>2, <2>4 DEF Linked
    <3>2. Mutual(b, p)' <=> Mutual(b, p)
      BY <1>1, <1>2, <1>4, <2>2, <3>1 DEF Mutual
    <3>3. Mutual(b, p) => ConnOf(p)' = ConnOf(p)
      BY <2>4 DEF Mutual
    <3> QED  BY <2>1, <3>1, <3>2, <3>3 DEF Sound, Linked
  <2>11. Orphans'
    BY <1>1, <1>2, <1>4, <2>1, <2>2, <2>4, Numbers DEF Sound, Orphans
  <2>12. QueuesFit' /\ Holding'
    <3>1. \A u \in Sides : \A k \in DOMAIN free[u] : free[u][k] \in live /\ free[u][k] # a
      BY <2>1, <2>2 DEF Sound, QueuesFit
    <3>2. QueuesFit'
      BY <1>2, <1>9, <2>1, <2>2, <3>1 DEF Sound, QueuesFit
    <3> QED  BY <1>2, <1>3, <1>4, <3>1, <3>2 DEF Holding
  <2> QED  BY <2>5, <2>6, <2>7, <2>8, <2>9, <2>10, <2>11, <2>12 DEF Sound
<1> QED  BY <1>5, <1>7, <1>9, <1>10 DEF DcInv

\* A connection that finds nobody waits.
LEMMA ParkStep == ASSUME DcInv, Park PROVE DcInv'
<1>1. /\ DcTypes /\ InHand /\ KernelFits /\ OneSide /\ Tamed /\ acc.at = "look" /\ acc.me \in Addrs
      /\ acc.side \in Sides /\ free[Other(acc.side)] = <<>>
  BY ThreadsTyped DEF DcInv, Park, InHand
<1> DEFINE s == acc.side
           a == acc.me
<1>2. /\ acc' = AccIdle /\ free' = [free EXCEPT ![s] = Append(free[s], a)]
      /\ UNCHANGED <<peer, file, watch, mem, live, busy, ep, batch, chan, del, accepted, mate, ghosts>>
  BY DEF Park, kernel
<1>3. /\ s \in Sides /\ a \in Addrs /\ acc'.at = "wait" /\ free[s] \in Seq(Addrs)
  BY <1>1, <1>2, IdleTyped DEF DcTypes
<1>4. (s = "out" /\ Other(s) = "in") \/ (s = "in" /\ Other(s) = "out")
  BY <1>3 DEF Sides, Other
<1>5. /\ free[Other(s)] = <<>>
      /\ ~ghosts.wild => /\ a \in live /\ mem[a].ptr = a
                         /\ \A t \in Sides : \A k \in DOMAIN free[t] : free[t][k] # a
  BY <1>1 DEF DcInv, Sound, Holding
<1> HIDE DEF s, a
<1>6. \A t \in Sides : free'[t] = IF t = s THEN Append(free[s], a) ELSE free[t]
  BY <1>1, <1>2 DEF DcTypes
<1>7. DcTypes'
  <2>1. free' \in [Sides -> Seq(Addrs)]
    BY <1>1, <1>2, <1>3, Appended DEF DcTypes
  <2>2. acc' \in [at : AcceptsAt, side : Sides, fd : 0..NFds,
                   me : Addrs \cup {Null}, other : Addrs \cup {Null}]
    BY <1>1, <1>2, IdleTyped
  <2> QED  BY <1>1, <1>2, <2>1, <2>2 DEF DcTypes
<1>8. ASSUME NEW t \in Sides, NEW k \in DOMAIN free'[t]
      PROVE  \/ k \in DOMAIN free[t] /\ free'[t][k] = free[t][k]
             \/ t = s /\ k = Len(free[s]) + 1 /\ free'[t][k] = a
  <2>1. CASE t # s
    BY <1>6, <1>8, <2>1
  <2>2. CASE t = s
    <3>1. free'[t] = Append(free[s], a)
      BY <1>6, <2>2
    <3>2. PICK q \in Seq(Addrs) : q = free[s]
      BY <1>3
    <3>3. k \in DOMAIN Append(q, a)
      BY <1>8, <3>1, <3>2
    <3> QED  BY <1>3, <2>2, <3>1, <3>2, <3>3, Appended
  <2> QED  BY <2>1, <2>2
<1>9. InHand'
  BY <1>1, <1>2, <1>3 DEF InHand
<1>10. OneSide'
  BY <1>4, <1>5, <1>6 DEF OneSide, Sides
<1>11. KernelFits' /\ (SomeClosed => SomeClosed') /\ Tamed'
  BY <1>1, <1>2 DEF KernelFits, SomeClosed, Tamed
<1>12. ASSUME ~ghosts'.wild PROVE Sound'
  <2>1. Sound /\ ~ghosts.wild
    BY <1>2, <1>12 DEF DcInv
  <2>2. Holding'
    BY <1>3 DEF Holding
  <2>3. QueuesFit'
    <3>1. \A t \in Sides : \A k \in DOMAIN free[t] : free[t][k] # a /\ k # Len(free[t]) + 1
      <4>1. \A t \in Sides : DOMAIN free[t] = 1..Len(free[t]) /\ Len(free[t]) \in Nat
        BY <1>1 DEF DcTypes
      <4> QED  BY <1>5, <2>1, <4>1
    <3>2. \A t \in Sides : \A k \in DOMAIN free'[t] :
              free'[t][k] \in live /\ mem[free'[t][k]].ptr = free'[t][k]
      BY <1>5, <1>8, <2>1 DEF Sound, QueuesFit
    <3>3. \A t \in Sides : \A k, l \in DOMAIN free'[t] : free'[t][k] = free'[t][l] => k = l
      BY <1>8, <2>1, <3>1 DEF Sound, QueuesFit
    <3> QED  BY <1>2, <1>11, <2>1, <3>2, <3>3 DEF Sound, QueuesFit
  <2>4. acc'.at # "accepted"
    BY <1>3
  <2> QED  BY <1>2, <1>7, <1>11, <2>1, <2>2, <2>3, <2>4, QuietStep
<1> QED  BY <1>7, <1>9, <1>10, <1>11, <1>12 DEF DcInv

\* Two sides.
LEMMA OtherSide ==
    ASSUME NEW s \in Sides
    PROVE  /\ Other(s) \in Sides /\ Other(s) # s /\ Other(Other(s)) = s
           /\ \A t \in Sides : t = s \/ t = Other(s)
BY DEF Sides, Other

\* A thread that reads a queue which it did not empty itself finds it empty only when
\* the channel is being deleted.
LEMMA TearsKeeps ==
    ASSUME DcTypes, Tamed, NEW q, Tears(q), UNCHANGED <<peer, chan, mate>>, q = <<>> => chan # "open"
    PROVE  /\ Tamed' /\ ghosts' \in [reset : SUBSET Conns, missed : SUBSET (0..MaxConns),
                                    unhooked : SUBSET (0..MaxConns), late : SUBSET (0..MaxConns),
                                    strayed : BOOLEAN, wild : BOOLEAN, torn : BOOLEAN]
           /\ ~ghosts'.wild => ghosts' = ghosts /\ q # <<>>
           /\ ghosts'.reset = ghosts.reset
<1>1. CASE q = <<>>
  <2>1. ghosts' = [ghosts EXCEPT !.torn = TRUE, !.wild = TRUE] /\ chan' # "open"
    BY <1>1 DEF Tears
  <2>2. ghosts'.torn /\ ghosts'.wild /\ ghosts'.reset = ghosts.reset
    BY <2>1 DEF DcTypes
  <2> QED  BY <2>1, <2>2 DEF Tamed, DcTypes
<1>2. CASE q # <<>>
  <2>1. ghosts' = ghosts
    BY <1>2 DEF Tears
  <2> QED  BY <1>2, <2>1 DEF Tamed, DcTypes, SomeClosed
<1> QED  BY <1>1, <1>2

\* A look at the queue, and front(): nothing changes hands yet.
LEMMA LookStep == ASSUME DcInv, Look \/ Front PROVE DcInv'
<1>1. /\ DcTypes /\ InHand /\ KernelFits /\ OneSide /\ Tamed /\ acc.me \in Addrs /\ acc.side \in Sides
      /\ acc.at \in {"look", "front"}
  BY ThreadsTyped DEF DcInv, Look, Front, InHand
<1> DEFINE s == acc.side
           q == free[Other(s)]
<1>2. UNCHANGED <<peer, file, watch, mem, live, free, busy, ep, batch, chan, del, accepted, mate>>
  BY DEF Look, Front, kernel, queues
<1>3. /\ Other(s) \in Sides /\ Other(s) # s /\ \A t \in Sides : t = s \/ t = Other(s)
      /\ q \in Seq(Addrs) /\ DOMAIN q = 1..Len(q)
  BY <1>1, OtherSide DEF DcTypes
<1>4. CASE Look
  <2>1. acc' = [acc EXCEPT !.at = "front"] /\ ghosts' = ghosts /\ q # <<>>
    BY <1>4 DEF Look
  <2>2. acc'.at = "front" /\ acc'.me = acc.me /\ acc'.side = s /\ acc'.fd = acc.fd
        /\ acc' \in [at : AcceptsAt, side : Sides, fd : 0..NFds,
                     me : Addrs \cup {Null}, other : Addrs \cup {Null}]
    BY <1>1, <2>1 DEF DcTypes, AcceptsAt
  <2>3. DcTypes' /\ KernelFits' /\ OneSide' /\ Tamed' /\ (SomeClosed => SomeClosed')
    <3>1. DcTypes'
      BY <1>1, <1>2, <2>1, <2>2 DEF DcTypes
    <3> QED  BY <1>1, <1>2, <2>1, <3>1 DEF KernelFits, OneSide, Tamed, SomeClosed
  <2>4. InHand'
    BY <1>1, <1>2, <2>1, <2>2 DEF InHand
  <2>5. ASSUME ~ghosts'.wild PROVE Sound'
    <3>1. Sound /\ ~ghosts.wild
      BY <2>1, <2>5 DEF DcInv
    <3>2. Holding' /\ QueuesFit'
      BY <1>1, <1>2, <2>2, <2>3, <3>1 DEF Sound, Holding, QueuesFit
    <3> QED  BY <1>2, <2>1, <2>2, <2>3, <3>1, <3>2, QuietStep
  <2> QED  BY <2>3, <2>4, <2>5 DEF DcInv
<1>5. CASE Front
  <2>1. PICK r \in Addrs : (q # <<>> => r = Head(q)) /\ acc' = [acc EXCEPT !.at = "pop", !.other = r]
    <3>1. q # <<>> => Head(q) \in Addrs
      BY <1>3
    <3> QED  BY <1>5, <3>1 DEF Front
  <2>2. acc.at = "front" /\ Tears(q)
    BY <1>5 DEF Front
  <2>3. acc'.at = "pop" /\ acc'.me = acc.me /\ acc'.side = s /\ acc'.fd = acc.fd /\ acc'.other = r
        /\ acc' \in [at : AcceptsAt, side : Sides, fd : 0..NFds,
                     me : Addrs \cup {Null}, other : Addrs \cup {Null}]
    BY <1>1, <2>1 DEF DcTypes, AcceptsAt
  <2>4. q = <<>> => chan # "open"
    BY <1>1, <2>2 DEF InHand
  <2>5. /\ Tamed' /\ ghosts' \in [reset : SUBSET Conns, missed : SUBSET (0..MaxConns),
                                    unhooked : SUBSET (0..MaxConns), late : SUBSET (0..MaxConns),
                                    strayed : BOOLEAN, wild : BOOLEAN, torn : BOOLEAN]
        /\ ~ghosts'.wild => ghosts' = ghosts /\ q # <<>>
        /\ ghosts'.reset = ghosts.reset
    <3> HIDE DEF q
    <3> QED  BY <1>1, <1>2, <2>2, <2>4, TearsKeeps
  <2>6. DcTypes' /\ KernelFits' /\ OneSide' /\ (SomeClosed => SomeClosed')
    BY <1>1, <1>2, <2>3, <2>5 DEF DcTypes, KernelFits, OneSide, SomeClosed
  <2>7. InHand'
    BY <1>1, <1>2, <2>1, <2>2, <2>3, <2>4 DEF InHand
  <2>8. ASSUME ~ghosts'.wild PROVE Sound'
    <3>1. Sound /\ ~ghosts.wild /\ ghosts' = ghosts /\ q # <<>>
      BY <2>5, <2>8 DEF DcInv
    <3>2. r = q[1] /\ 1 \in DOMAIN q
      BY <1>3, <2>1, <3>1
    <3>3. free[s] = <<>>
      BY <1>1, <1>3, <3>1 DEF OneSide, Sides
    <3>4. \A t \in Sides : \A k \in DOMAIN free[t] : free[t][k] = r => t = Other(s) /\ k = 1
      BY <1>3, <3>1, <3>2, <3>3 DEF Sound, QueuesFit
    <3>5. r \in live /\ mem[r].ptr = r /\ r # acc.me
      BY <1>3, <2>2, <3>1, <3>2 DEF Sound, QueuesFit, Holding
    <3>6. Holding'
      BY <1>2, <2>2, <2>3, <3>1, <3>4, <3>5 DEF Sound, Holding
    <3>7. QueuesFit'
      BY <1>2, <2>6, <3>1 DEF Sound, QueuesFit
    <3> QED  BY <1>2, <2>3, <2>6, <3>1, <3>6, <3>7, QuietStep
  <2> QED  BY <2>5, <2>6, <2>7, <2>8 DEF DcInv
<1> QED  BY <1>4, <1>5

\* What Pair does: r has waited longest, c and d are the two connections.
Pairs(a, s, f, r, c, d) ==
    /\ a = acc.me /\ s = acc.side /\ f = acc.fd /\ r = acc.other
    /\ c = ConnAt(f) /\ d = ConnAt(mem[r].fd)
    /\ acc.at = "pop" /\ a \in Addrs /\ r \in Addrs
    /\ s \in Sides /\ Other(s) \in Sides /\ Other(s) # s /\ \A t \in Sides : t = s \/ t = Other(s)
    /\ c \in 0..MaxConns
    /\ c = NoConn \/ (c <= accepted /\ peer[c].state \in Alive)
    /\ d \in 0..MaxConns
    /\ d = NoConn \/ (d <= accepted /\ peer[d].state \in Alive)
    /\ DcTypes' /\ Tears(free[Other(s)])
    /\ UNCHANGED <<peer, file, watch, live, busy, ep, batch, chan, del, accepted>>
    /\ r # a => mem'[a].ptr = r /\ mem'[r].ptr = a
    /\ \A b \in Addrs : b \notin {a, r} => mem'[b] = mem[b]
    /\ \A b \in Addrs : mem'[b].fd = mem[b].fd /\ mem'[b].joined = mem[b].joined
    /\ acc'.at = "push1" /\ acc'.me = a /\ acc'.other = r /\ acc'.side = s
    /\ \A x \in Conns : mate'[x] = IF x = c THEN d ELSE IF x = d THEN c ELSE mate[x]
    /\ \A t \in Sides : free'[t] = IF t = Other(s) /\ free[t] # <<>> THEN Tail(free[t]) ELSE free[t]

\* A connection that found one waiting is paired with it, and the block of that one learns of it.
LEMMA PairEffect ==
    ASSUME DcInv, Pair,
           NEW a, a = acc.me, NEW s, s = acc.side, NEW f, f = acc.fd, NEW r, r = acc.other,
           NEW c, c = ConnAt(f), NEW d, d = ConnAt(mem[r].fd)
    PROVE  Pairs(a, s, f, r, c, d)
<1>1. /\ DcTypes /\ KernelFits /\ Tamed /\ acc.at = "pop" /\ a \in Addrs /\ r \in Addrs /\ s \in Sides
  BY ThreadsTyped DEF DcInv, Pair, InHand
<1>2. /\ Other(s) \in Sides /\ Other(s) # s /\ \A t \in Sides : t = s \/ t = Other(s)
      /\ free[Other(s)] \in Seq(Addrs)
  BY <1>1, OtherSide DEF DcTypes
<1>3. ASSUME NEW g
      PROVE  /\ ConnAt(g) \in 0..MaxConns
             /\ ConnAt(g) = NoConn \/ (ConnAt(g) <= accepted /\ peer[ConnAt(g)].state \in Alive)
  <2>1. 0 \in 0..MaxConns
    BY Numbers
  <2>2. Open(g) => g \in Fds /\ file[g] # NoConn /\ file[g] \in 0..MaxConns
    BY <1>1, KernelTyped
  <2> QED  BY <1>1, <2>1, <2>2, Numbers DEF ConnAt, KernelFits
<1>4. /\ free' = IF free[Other(s)] = <<>> THEN free ELSE [free EXCEPT ![Other(s)] = Tail(free[Other(s)])]
      /\ Tears(free[Other(s)])
      /\ mem' = [mem EXCEPT ![a].ptr = r, ![r].ptr = a]
      /\ mate' = [x \in Conns |-> IF x = c THEN d ELSE IF x = d THEN c ELSE mate[x]]
      /\ acc' = [acc EXCEPT !.at = "push1"]
      /\ UNCHANGED <<peer, file, watch, live, busy, ep, batch, chan, del, accepted>>
  BY DEF Pair, kernel
<1>5. \A i \in Info : \A b \in Addrs : /\ [i EXCEPT !.ptr = b] \in Info /\ [i EXCEPT !.ptr = b].ptr = b
                                      /\ [i EXCEPT !.ptr = b].fd = i.fd
                                      /\ [i EXCEPT !.ptr = b].joined = i.joined
  BY DEF Info
<1>6. /\ mem' \in [Addrs -> Info]
      /\ \A b \in Addrs : b \notin {a, r} => mem'[b] = mem[b]
      /\ r # a => mem'[a] = [mem[a] EXCEPT !.ptr = r] /\ mem'[r] = [mem[r] EXCEPT !.ptr = a]
      /\ r = a => mem'[a].fd = mem[a].fd /\ mem'[a].joined = mem[a].joined
  <2>1. CASE r # a
    <3>1. PICK i \in Info : i = [mem[a] EXCEPT !.ptr = r]
      BY <1>1, <1>5 DEF DcTypes
    <3>2. PICK j \in Info : j = [mem[r] EXCEPT !.ptr = a]
      BY <1>1, <1>5 DEF DcTypes
    <3>3. mem' = [mem EXCEPT ![a] = i, ![r] = j]
      BY <1>1, <1>4, <2>1, <3>1, <3>2 DEF DcTypes
    <3> QED  BY <1>1, <2>1, <3>1, <3>2, <3>3 DEF DcTypes
  <2>2. CASE r = a
    <3>1. PICK i \in Info : i = [mem[a] EXCEPT !.ptr = r]
      BY <1>1, <1>5 DEF DcTypes
    <3>2. mem' = [mem EXCEPT ![a] = [i EXCEPT !.ptr = a]]
      BY <1>1, <1>4, <2>2, <3>1 DEF DcTypes
    <3>3. mem'[a] = [i EXCEPT !.ptr = a]
      BY <1>1, <3>2 DEF DcTypes
    <3>4. mem'[a].fd = mem[a].fd /\ mem'[a].joined = mem[a].joined
      BY <1>1, <1>5, <3>1, <3>3 DEF DcTypes
    <3>5. mem' \in [Addrs -> Info]
      BY <1>1, <1>5, <3>2 DEF DcTypes
    <3>6. \A b \in Addrs : b # a => mem'[b] = mem[b]
      BY <1>1, <3>2 DEF DcTypes
    <3> QED  BY <2>2, <3>4, <3>5, <3>6
  <2> QED  BY <2>1, <2>2
<1>7. /\ \A b \in Addrs : mem'[b].fd = mem[b].fd /\ mem'[b].joined = mem[b].joined
      /\ r # a => mem'[a].ptr = r /\ mem'[r].ptr = a
  <2>1. mem[a] \in Info /\ mem[r] \in Info
    BY <1>1 DEF DcTypes
  <2>2. CASE r # a
    <3>1. mem'[a].ptr = r /\ mem'[a].fd = mem[a].fd /\ mem'[a].joined = mem[a].joined
      BY <1>1, <1>6, <2>1, <2>2 DEF Info
    <3>2. mem'[r].ptr = a /\ mem'[r].fd = mem[r].fd /\ mem'[r].joined = mem[r].joined
      BY <1>1, <1>6, <2>1, <2>2 DEF Info
    <3>3. \A b \in Addrs : b \notin {a, r} => mem'[b] = mem[b]
      BY <1>6
    <3> QED  BY <3>1, <3>2, <3>3
  <2>3. CASE r = a
    BY <1>6, <2>3
  <2> QED  BY <2>2, <2>3
<1>8. /\ acc' \in [at : AcceptsAt, side : Sides, fd : 0..NFds,
                    me : Addrs \cup {Null}, other : Addrs \cup {Null}]
      /\ acc'.at = "push1" /\ acc'.me = a /\ acc'.other = r /\ acc'.side = s
  BY <1>1, <1>4 DEF DcTypes, AcceptsAt
<1>9. /\ mate' \in [Conns -> 0..MaxConns]
      /\ \A x \in Conns : mate'[x] = IF x = c THEN d ELSE IF x = d THEN c ELSE mate[x]
  BY <1>1, <1>3, <1>4 DEF DcTypes
<1>10. /\ free' \in [Sides -> Seq(Addrs)]
       /\ \A t \in Sides : free'[t] = IF t = Other(s) /\ free[t] # <<>> THEN Tail(free[t]) ELSE free[t]
  <2>1. free[Other(s)] # <<>> => Tail(free[Other(s)]) \in Seq(Addrs)
    BY <1>2, Shortened
  <2> QED  BY <1>1, <1>2, <1>4, <2>1 DEF DcTypes
<1>11. ghosts' \in [reset : SUBSET Conns, missed : SUBSET (0..MaxConns),
                    unhooked : SUBSET (0..MaxConns), late : SUBSET (0..MaxConns),
                    strayed : BOOLEAN, wild : BOOLEAN, torn : BOOLEAN]
  <2>1. PICK q : q = free[Other(s)]
    OBVIOUS
  <2>2. ghosts' = IF q = <<>> THEN [ghosts EXCEPT !.torn = TRUE, !.wild = TRUE] ELSE ghosts
    BY <1>4, <2>1 DEF Tears
  <2> QED  BY <1>1, <2>2 DEF DcTypes
<1>12. DcTypes'
  BY <1>1, <1>4, <1>6, <1>8, <1>9, <1>10, <1>11 DEF DcTypes
<1>13. /\ c \in 0..MaxConns
       /\ c = NoConn \/ (c <= accepted /\ peer[c].state \in Alive)
  BY <1>3
<1>14. /\ d \in 0..MaxConns
       /\ d = NoConn \/ (d <= accepted /\ peer[d].state \in Alive)
  BY <1>3
<1> QED  BY <1>1, <1>2, <1>4, <1>6, <1>7, <1>8, <1>9, <1>10, <1>12, <1>13, <1>14 DEF Pairs

\* The pairing keeps the invariant.
LEMMA PairKeeps ==
    ASSUME DcInv, NEW a, NEW s, NEW f, NEW r, NEW c, NEW d, Pairs(a, s, f, r, c, d)
    PROVE  DcInv'
<1>1. a = acc.me /\ s = acc.side /\ r = acc.other
  BY DEF Pairs
<1>2. f = acc.fd
  BY DEF Pairs
<1>3. c = ConnAt(f)
  BY DEF Pairs
<1>4. d = ConnAt(mem[r].fd)
  BY DEF Pairs
<1>5. /\ acc.at = "pop" /\ a \in Addrs /\ r \in Addrs
      /\ s \in Sides /\ Other(s) \in Sides /\ Other(s) # s /\ \A t \in Sides : t = s \/ t = Other(s)
      /\ c \in 0..MaxConns
      /\ c = NoConn \/ (c <= accepted /\ peer[c].state \in Alive)
      /\ d \in 0..MaxConns
      /\ d = NoConn \/ (d <= accepted /\ peer[d].state \in Alive)
      /\ DcTypes' /\ Tears(free[Other(s)])
      /\ UNCHANGED <<peer, file, watch, live, busy, ep, batch, chan, del, accepted>>
      /\ r # a => mem'[a].ptr = r /\ mem'[r].ptr = a
      /\ \A b \in Addrs : b \notin {a, r} => mem'[b] = mem[b]
      /\ \A b \in Addrs : mem'[b].fd = mem[b].fd /\ mem'[b].joined = mem[b].joined
      /\ acc'.at = "push1" /\ acc'.me = a /\ acc'.other = r /\ acc'.side = s
      /\ \A x \in Conns : mate'[x] = IF x = c THEN d ELSE IF x = d THEN c ELSE mate[x]
      /\ \A t \in Sides : free'[t] = IF t = Other(s) /\ free[t] # <<>> THEN Tail(free[t]) ELSE free[t]
  BY DEF Pairs
<1>6. DcTypes /\ InHand /\ KernelFits /\ OneSide /\ Tamed
  BY DEF DcInv
<1>7. ghosts.torn \in BOOLEAN /\ free[Other(s)] \in Seq(Addrs) /\ (free[Other(s)] = <<>> => chan # "open")
  BY <1>1, <1>5, <1>6, GhostsTyped DEF InHand, DcTypes
<1>8. \A x \in Conns : x \notin {c, d} => mate'[x] = mate[x]
  BY <1>5
<1>9. free[Other(s)] # <<>> =>
        \A t \in Sides : \A k \in DOMAIN free'[t] :
           \/ k \in DOMAIN free[t] /\ free'[t][k] = free[t][k] /\ t # Other(s)
           \/ k + 1 \in DOMAIN free[t] /\ free'[t][k] = free[t][k + 1] /\ k \in Int /\ k + 1 # 1
              /\ t = Other(s)
  <2>1. SUFFICES ASSUME free[Other(s)] # <<>>
                 PROVE  \A t \in Sides : \A k \in DOMAIN free'[t] :
           \/ k \in DOMAIN free[t] /\ free'[t][k] = free[t][k] /\ t # Other(s)
           \/ k + 1 \in DOMAIN free[t] /\ free'[t][k] = free[t][k + 1] /\ k \in Int /\ k + 1 # 1
              /\ t = Other(s)
    OBVIOUS
  <2>2. PICK q \in Seq(Addrs) : q = free[Other(s)]
    BY <1>7
  <2>3. ASSUME NEW k \in DOMAIN free'[Other(s)]
        PROVE  k + 1 \in DOMAIN q /\ free'[Other(s)][k] = q[k + 1] /\ k \in Int /\ k + 1 # 1
    <3>1. free'[Other(s)] = Tail(q) /\ k \in DOMAIN Tail(q)
      BY <1>5, <2>1, <2>2, <2>3
    <3> QED  BY <2>1, <2>2, <3>1, Shortened
  <2> QED  BY <1>5, <2>1, <2>2, <2>3
<1>10. InHand'
  BY <1>5, <1>6 DEF InHand
<1>11. OneSide'
  <2>1. PICK u \in Sides : free[u] = <<>>
    BY <1>6 DEF OneSide, Sides
  <2>2. free'[u] = <<>>
    BY <1>5, <2>1
  <2> QED  BY <2>1, <2>2 DEF OneSide, Sides
<1>12. KernelFits'
  <2>1. \A x \in Conns : x > accepted => x \notin {c, d}
    <3>1. \A y \in 0..MaxConns : \A x \in Conns : y <= accepted /\ x > accepted => x # y
      BY <1>6, KernelTyped, Numbers
    <3>2. \A x \in Conns : x # NoConn
      BY Numbers
    <3> QED  BY <1>5, <3>1, <3>2
  <2>2. ghosts'.reset = ghosts.reset
    <3>1. PICK q : q = free[Other(s)]
      OBVIOUS
    <3>2. ghosts' = IF q = <<>> THEN [ghosts EXCEPT !.torn = TRUE, !.wild = TRUE] ELSE ghosts
      BY <1>5, <3>1 DEF Tears
    <3> QED  BY <1>6, <3>2 DEF DcTypes
  <2> QED  BY <1>5, <1>6, <1>8, <2>1, <2>2 DEF KernelFits
<1>13. SomeClosed => SomeClosed'
  <2>1. \A x \in Conns : peer[x].state = "closed" => x \notin {c, d}
    BY <1>5, Numbers DEF Alive
  <2> QED  BY <1>5, <1>8, <2>1 DEF SomeClosed
<1>14. /\ Tamed' /\ (~ghosts'.wild => ghosts' = ghosts /\ free[Other(s)] # <<>>)
  <2>1. PICK q : q = free[Other(s)]
    OBVIOUS
  <2>2. CASE q = <<>>
    <3>1. ghosts' = [ghosts EXCEPT !.torn = TRUE, !.wild = TRUE]
      BY <1>5, <2>1, <2>2 DEF Tears
    <3>2. ghosts'.torn /\ ghosts'.wild
      BY <1>6, <3>1 DEF DcTypes
    <3> QED  BY <1>5, <1>7, <2>1, <2>2, <3>2 DEF Tamed
  <2>3. CASE q # <<>>
    <3>1. ghosts' = ghosts
      BY <1>5, <2>1, <2>3 DEF Tears
    <3> QED  BY <1>5, <1>6, <1>13, <2>1, <2>3, <3>1 DEF Tamed
  <2> QED  BY <2>2, <2>3
<1>15. ASSUME ~ghosts'.wild PROVE Sound'
  <2>1. Sound /\ ~ghosts.wild /\ ghosts' = ghosts /\ free[Other(s)] # <<>>
    BY <1>14, <1>15 DEF DcInv
  <2>2. /\ r \in live /\ r # a /\ mem[r].ptr = r /\ ~mem[r].joined /\ r # ep.addr /\ a # ep.addr
        /\ a \in live /\ mem[a].ptr = a /\ ~mem[a].joined /\ mem[a].fd = f
    <3>1. /\ r \in live /\ mem[r].ptr = r /\ r # a
          /\ a \in live /\ mem[a].ptr = a /\ ~mem[a].joined /\ mem[a].fd = f
      BY <1>1, <1>2, <1>5, <2>1 DEF Sound, Holding
    <3>2. ~mem[r].joined
      BY <2>1, <3>1 DEF Sound, PairedFirst
    <3> QED  BY <1>5, <1>6, <2>1, <3>1, <3>2, Numbers DEF Sound, TearingDown, InHand
  <2>3. /\ \A b : (Torn(b)' <=> Torn(b)) /\ (Open(b)' <=> Open(b)) /\ (b # ep.addr => ~Torn(b))
        /\ ~Torn(a) /\ ~Torn(r)
    BY <1>5, <2>2 DEF Torn, Open
  <2>4. /\ c \in Conns /\ d \in Conns /\ c # d /\ mate[c] = NoConn /\ mate[d] = NoConn
        /\ mate'[c] = d /\ mate'[d] = c /\ c # NoConn /\ d # NoConn
        /\ ConnOf(a) = c /\ ConnOf(r) = d
    <3>1. /\ Open(mem[a].fd) /\ ConnOf(a) \in Conns /\ ConnOf(a) # NoConn
          /\ Open(mem[r].fd) /\ ConnOf(r) \in Conns /\ ConnOf(r) # NoConn
      BY <1>6, <2>1, <2>2, <2>3, OwnConn DEF Sound
    <3>2. ConnOf(a) = c /\ ConnOf(r) = d
      BY <1>3, <1>4, <2>2, <3>1 DEF ConnAt, ConnOf
    <3>3. mate[c] = NoConn /\ mate[d] = NoConn
      BY <2>1, <2>2, <2>3, <3>2 DEF Sound, PairedFirst
    <3>4. c # d
      BY <1>6, <2>1, <2>2, <2>3, <3>2, OwnConnsDiffer DEF Sound
    <3> QED  BY <1>5, <3>1, <3>2, <3>3, <3>4
  <2>5. \A b \in live : /\ b \in Addrs /\ ConnOf(b)' = ConnOf(b)
                        /\ mem'[b].fd = mem[b].fd /\ mem'[b].joined = mem[b].joined
                        /\ b \notin {a, r} => mem'[b] = mem[b]
    BY <1>5, <1>6 DEF ConnOf, DcTypes
  <2>7. \A b \in live : ~Torn(b) /\ b \notin {a, r} =>
            mate'[ConnOf(b)] = mate[ConnOf(b)] /\ (Excused(b) => Excused(b)')
    <3>1. SUFFICES ASSUME NEW b \in live, ~Torn(b), b \notin {a, r}
                   PROVE  mate'[ConnOf(b)] = mate[ConnOf(b)] /\ (Excused(b) => Excused(b)')
      OBVIOUS
    <3>2. ConnOf(b) \in Conns
      BY <1>6, <2>1, <3>1, OwnConn DEF Sound
    <3>3. ConnOf(b) # d
      BY <1>6, <2>1, <2>2, <2>3, <2>4, <3>1, OwnConnsDiffer DEF Sound
    <3>4. ConnOf(b) # c
      BY <1>6, <2>1, <2>2, <2>3, <2>4, <3>1, OwnConnsDiffer DEF Sound
    <3>5. mate'[ConnOf(b)] = mate[ConnOf(b)]
      BY <1>8, <3>2, <3>3, <3>4
    <3> QED  BY <1>5, <1>13, <2>1, <2>5, <3>1, <3>5 DEF Excused
  <2>8. mem'[r].ptr = a /\ mem'[a].ptr = r
    BY <1>5, <2>2
  <2>9. FdsOwned'
    <3>1. \A b \in live : mem[b].fd \in Fds /\ (~Torn(b) => Open(mem[b].fd))
      BY <2>1 DEF Sound, FdsOwned
    <3>2. \A b, e \in live : b # e /\ ~Torn(b) /\ ~Torn(e) => mem[b].fd # mem[e].fd
      BY <2>1 DEF Sound, FdsOwned
    <3> QED  BY <1>5, <2>3, <2>5, <3>1, <3>2 DEF FdsOwned
  <2>10. TearingDown'
    BY <1>5, <1>13, <2>1, <2>5 DEF Sound, TearingDown
  <2>11. PairedFirst'
    <3>1. \A b \in live : mem'[b].joined => mem'[b].ptr # b
      BY <2>1, <2>2, <2>5, <2>8 DEF Sound, PairedFirst
    <3>2. \A b \in live : ~Torn(b) => (mem'[b].ptr = b <=> mate'[ConnOf(b)] = NoConn)
      <4>1. SUFFICES ASSUME NEW b \in live, ~Torn(b)
                     PROVE  mem'[b].ptr = b <=> mate'[ConnOf(b)] = NoConn
        OBVIOUS
      <4>2. CASE b \in {a, r}
        BY <2>2, <2>4, <2>8, <4>2
      <4>3. CASE b \notin {a, r}
        <5>1. mem[b].ptr = b <=> mate[ConnOf(b)] = NoConn
          BY <2>1, <4>1 DEF Sound, PairedFirst
        <5> QED  BY <2>5, <2>7, <4>1, <4>3, <5>1
      <4> QED  BY <4>2, <4>3
    <3> QED  BY <1>5, <2>3, <2>5, <3>1, <3>2 DEF PairedFirst
  <2>19. Holding'
    <3>1. \A b \in {a, r} : b \in live /\ ~mem'[b].joined /\ mem'[b].ptr # b
      BY <2>2, <2>5, <2>8
    <3> QED  BY <1>5, <2>2, <3>1 DEF Holding
  <2>12. \A b \in live : mem[b].joined => mem'[b] = mem[b]
    BY <2>2, <2>5
  <2>13. WatchFits'
    BY <1>5, <2>1, <2>3, <2>12 DEF Sound, WatchFits, Untold
  <2>14. BatchFits'
    BY <1>5, <2>1, <2>12 DEF Sound, BatchFits, Untold
  <2>15. JoinedWatched'
    BY <1>5, <2>1, <2>5 DEF Sound, JoinedWatched
  <2>16. Linked'
    <3>1. SUFFICES ASSUME NEW b \in live, NEW p, p = mem'[b].ptr, b # ep.addr, p \notin {Null, b}
                   PROVE  \/ /\ Mutual(b, p)' /\ p # ep.addr /\ mate'[ConnOf(b)'] = ConnOf(p)'
                          \/ (Mutual(b, p)' => p = ep.addr) /\ Excused(b)'
      BY <1>5 DEF Linked
    <3>2. CASE b \in {a, r}
      <4>1. {b, p} = {a, r} /\ p # ep.addr /\ p \in live' /\ p \in live /\ mem'[p].ptr = b
        BY <1>5, <2>2, <2>8, <3>1, <3>2
      <4>2. mate'[ConnOf(b)'] = ConnOf(p)'
        BY <2>2, <2>4, <2>5, <3>2, <4>1
      <4> QED  BY <4>1, <4>2 DEF Mutual
    <3>3. CASE b \notin {a, r}
      <4>1. p = mem[b].ptr /\ p \in Addrs /\ ~Torn(b) /\ ConnOf(b)' = ConnOf(b)
        BY <1>5, <1>6, <2>3, <2>5, <3>1, <3>3, MemTyped
      <4>2. p # r /\ p # a => (Mutual(b, p)' <=> Mutual(b, p))
        BY <1>5, <4>1 DEF Mutual
      <4>3. p = r \/ p = a => ~Mutual(b, p)' /\ ~Mutual(b, p)
        BY <1>5, <2>2, <2>8, <3>3 DEF Mutual
      <4>4. Mutual(b, p) => p \in live /\ ConnOf(p)' = ConnOf(p)
        BY <2>5 DEF Mutual
      <4> QED  BY <2>1, <2>7, <3>1, <3>3, <4>1, <4>2, <4>3, <4>4 DEF Sound, Linked
    <3> QED  BY <3>2, <3>3
  <2>17. Orphans'
    <3>1. \A b \in live : mem'[b].ptr = Null => b \notin {a, r}
      BY <1>5, <1>6, <2>8, Numbers
    <3> QED  BY <1>5, <2>1, <2>5, <3>1 DEF Sound, Orphans
  <2>18. QueuesFit'
    <3>1. \A t \in Sides : \A k \in DOMAIN free'[t] :
              free'[t][k] \in live /\ mem[free'[t][k]].ptr = free'[t][k]
      BY <1>9, <2>1 DEF Sound, QueuesFit
    <3>2. \A t \in Sides : \A k \in DOMAIN free'[t] : free'[t][k] # r /\ free'[t][k] # a
      <4>1. \A t \in Sides : \A k \in DOMAIN free[t] :
                free[t][k] # a /\ (free[t][k] = r => t = Other(s) /\ k = 1)
        BY <1>1, <1>5, <2>1 DEF Sound, Holding
      <4> QED  BY <1>9, <2>1, <4>1
    <3>3. \A t \in Sides : \A k, l \in DOMAIN free'[t] : free'[t][k] = free'[t][l] => k = l
      BY <1>9, <2>1 DEF Sound, QueuesFit
    <3>4. \A t \in Sides : \A k \in DOMAIN free'[t] :
              free'[t][k] \in live' /\ mem'[free'[t][k]].ptr = free'[t][k]
      BY <1>5, <2>5, <3>1, <3>2
    <3> QED  BY <1>5, <1>13, <2>1, <3>3, <3>4 DEF Sound, QueuesFit
  <2> QED  BY <2>9, <2>10, <2>11, <2>13, <2>14, <2>15, <2>16, <2>17, <2>18, <2>19 DEF Sound
<1> QED  BY <1>5, <1>6, <1>10, <1>11, <1>12, <1>14, <1>15 DEF DcInv

\* The same, without the names of what it works on.
LEMMA PairStep == ASSUME DcInv, Pair PROVE DcInv'
<1>1. PICK a : a = acc.me
  OBVIOUS
<1>2. PICK s : s = acc.side
  OBVIOUS
<1>3. PICK f : f = acc.fd
  OBVIOUS
<1>4. PICK r : r = acc.other
  OBVIOUS
<1>5. PICK c : c = ConnAt(f)
  OBVIOUS
<1>6. PICK d : d = ConnAt(mem[r].fd)
  OBVIOUS
<1>7. Pairs(a, s, f, r, c, d)
  BY <1>1, <1>2, <1>3, <1>4, <1>5, <1>6, PairEffect
<1> QED  BY <1>7, PairKeeps

\* A push to the queue of the paired ones.
LEMMA PushKeeps ==
    ASSUME DcInv, NEW u \in Sides, NEW a \in Addrs, busy' = [busy EXCEPT ![u] = Append(busy[u], a)],
           UNCHANGED <<peer, file, watch, mem, live, free, ep, batch, chan, del, accepted, mate>>,
           acc.at \in {"push1", "push2"}, a \in {acc.me, acc.other},
           acc' = [acc EXCEPT !.at = "push2"] \/ acc' = [acc EXCEPT !.at = "add1"],
           NEW late \in SUBSET (0..MaxConns), ghosts' = [ghosts EXCEPT !.late = late]
    PROVE  DcInv'
<1>1. DcTypes /\ InHand /\ KernelFits /\ OneSide /\ Tamed
  BY DEF DcInv
<1>2. /\ acc' \in [at : AcceptsAt, side : Sides, fd : 0..NFds,
                   me : Addrs \cup {Null}, other : Addrs \cup {Null}]
      /\ acc'.at \in {"push2", "add1"} /\ acc'.me = acc.me /\ acc'.other = acc.other
  BY <1>1 DEF DcTypes, AcceptsAt
<1>3. /\ ghosts'.reset = ghosts.reset /\ ghosts'.missed = ghosts.missed
      /\ ghosts'.unhooked = ghosts.unhooked /\ ghosts'.strayed = ghosts.strayed
      /\ ghosts'.wild = ghosts.wild /\ ghosts'.torn = ghosts.torn
      /\ ghosts' \in [reset : SUBSET Conns, missed : SUBSET (0..MaxConns),
                      unhooked : SUBSET (0..MaxConns), late : SUBSET (0..MaxConns),
                      strayed : BOOLEAN, wild : BOOLEAN, torn : BOOLEAN]
  BY <1>1 DEF DcTypes
<1>4. PICK q \in Seq(Addrs) : q = busy[u]
  BY <1>1 DEF DcTypes
<1>5. /\ Append(q, a) \in Seq(Addrs) /\ busy' \in [Sides -> Seq(Addrs)]
      /\ \A t \in Sides : busy'[t] = IF t = u THEN Append(q, a) ELSE busy[t]
  <2>1. Append(q, a) \in Seq(Addrs)
    BY Appended
  <2> QED  BY <1>1, <1>4, <2>1 DEF DcTypes
<1>6. DcTypes'
  BY <1>1, <1>2, <1>3, <1>5 DEF DcTypes
<1>7. InHand' /\ KernelFits' /\ OneSide' /\ (SomeClosed => SomeClosed') /\ Tamed'
  <2>1. InHand'
    BY <1>1, <1>2 DEF InHand
  <2>2. SomeClosed <=> SomeClosed'
    BY DEF SomeClosed
  <2>3. Tamed'
    BY <1>1, <1>3, <2>2 DEF Tamed
  <2>4. KernelFits' /\ OneSide'
    BY <1>1, <1>3 DEF KernelFits, OneSide
  <2> QED  BY <2>1, <2>2, <2>3, <2>4
<1>8. ASSUME ~ghosts'.wild PROVE Sound'
  <2>1. Sound /\ ~ghosts.wild
    BY <1>3, <1>8 DEF DcInv
  <2>2. Holding'
    BY <1>2, <2>1 DEF Sound, Holding
  <2>3. a \in live
    BY <2>1 DEF Sound, Holding
  <2>4. \A t \in Sides : \A k \in DOMAIN busy'[t] : busy'[t][k] \in live \/ SomeClosed
    <3>1. SUFFICES ASSUME NEW t \in Sides, NEW k \in DOMAIN busy'[t]
                   PROVE  busy'[t][k] \in live \/ SomeClosed
      OBVIOUS
    <3>2. CASE t = u
      <4>1. busy'[t][k] = a \/ (k \in DOMAIN q /\ busy'[t][k] = q[k])
        <5>1. k \in DOMAIN Append(q, a) /\ busy'[t] = Append(q, a)
          BY <1>5, <3>1, <3>2
        <5> QED  BY <5>1, Appended
      <4> QED  BY <1>4, <2>1, <2>3, <3>2, <4>1 DEF Sound, QueuesFit
    <3>3. CASE t # u
      BY <1>5, <2>1, <3>1, <3>3 DEF Sound, QueuesFit
    <3> QED  BY <3>2, <3>3
  <2>5. QueuesFit'
    BY <1>7, <2>1, <2>4 DEF Sound, QueuesFit
  <2>6. acc'.at # "accepted"
    BY <1>2
  <2> QED  BY <1>3, <1>6, <1>7, <2>1, <2>2, <2>5, <2>6, QuietStep
<1> QED  BY <1>6, <1>7, <1>8 DEF DcInv

\* Both ends of a pair are queued.
LEMMA PushStep == ASSUME DcInv, PushOwn \/ PushOther PROVE DcInv'
<1>1. PICK u, a, next :
         /\ acc.at \in {"push1", "push2"}
         /\ <<u, a>> = <<acc.side, acc.me>> \/ <<u, a>> = <<Other(acc.side), acc.other>>
         /\ next \in {"push2", "add1"} /\ Push(acc.at, a, u, next)
  <2>1. CASE PushOwn
    <3>1. acc.at = "push1" /\ Push(acc.at, acc.me, acc.side, "push2")
      BY <2>1 DEF PushOwn, Push
    <3> QED  BY <3>1
  <2>2. CASE PushOther
    <3>1. acc.at = "push2" /\ Push(acc.at, acc.other, Other(acc.side), "add1")
      BY <2>2 DEF PushOther, Push
    <3> QED  BY <3>1
  <2> QED  BY <2>1, <2>2
<1>2. DcTypes /\ InHand
  BY DEF DcInv
<1>3. u \in Sides /\ a \in Addrs /\ a \in {acc.me, acc.other}
  <2>1. acc.side \in Sides /\ Other(acc.side) \in Sides
    BY <1>2, ThreadsTyped, OtherSide
  <2> QED  BY <1>1, <1>2, <2>1 DEF InHand
<1>4. ConnAt(mem[a].fd) \in 0..MaxConns
  <2>1. 0 \in 0..MaxConns
    BY Numbers
  <2> QED  BY <1>2, <2>1, KernelTyped, Numbers DEF ConnAt
<1>5. PICK late \in SUBSET (0..MaxConns) : ghosts' = [ghosts EXCEPT !.late = late]
  <2>1. ghosts = [ghosts EXCEPT !.late = ghosts.late] /\ ghosts.late \in SUBSET (0..MaxConns)
    BY <1>2, GhostsTyped DEF DcTypes
  <2>2. ghosts.late \cup {ConnAt(mem[a].fd)} \in SUBSET (0..MaxConns)
    BY <1>4, <2>1
  <2>3. ghosts' = ghosts \/ ghosts' = [ghosts EXCEPT !.late = ghosts.late \cup {ConnAt(mem[a].fd)}]
    BY <1>1 DEF Push
  <2> QED  BY <2>1, <2>2, <2>3
<1>6. /\ busy' = [busy EXCEPT ![u] = Append(busy[u], a)]
      /\ UNCHANGED <<peer, file, watch, mem, live, free, ep, batch, chan, del, accepted, mate>>
      /\ acc' = [acc EXCEPT !.at = "push2"] \/ acc' = [acc EXCEPT !.at = "add1"]
  BY <1>1 DEF Push, kernel
<1> QED  BY <1>1, <1>3, <1>5, <1>6, PushKeeps

\* The registration of one end of a new pair; it may have been cut off since.
LEMMA AddEpollKeeps ==
    ASSUME DcInv, NEW b \in Addrs, AddEpoll(b),
           ~ghosts.wild => b \in live /\ ~mem[b].joined /\ mem[b].ptr # b,
           acc' \in [at : AcceptsAt, side : Sides, fd : 0..NFds,
                     me : Addrs \cup {Null}, other : Addrs \cup {Null}],
           \/ acc'.at = "wait"
           \/ /\ acc.at = "add1" /\ acc'.at = "add2" /\ acc'.side = acc.side /\ acc'.me = acc.me
              /\ acc'.other = acc.other /\ (~ghosts.wild => Second # b)
    PROVE  DcInv'
<1>1. DcTypes /\ InHand /\ KernelFits /\ OneSide /\ Tamed
  BY DEF DcInv
<1>2. PICK f : f = mem[b].fd
  OBVIOUS
<1>3. /\ mem' = [mem EXCEPT ![b].joined = TRUE]
      /\ watch' = IF Open(f) /\ watch[f] = NoWatch
                  THEN [watch EXCEPT ![f] = [ev |-> "in", ptr |-> b]] ELSE watch
      /\ UNCHANGED <<peer, file, live, free, busy, ep, batch, chan, del, accepted, mate, ghosts>>
  BY <1>2 DEF AddEpoll, queues
<1>4. /\ \A a \in Addrs : /\ mem'[a].fd = mem[a].fd /\ mem'[a].ptr = mem[a].ptr
                          /\ a # b => mem'[a] = mem[a]
      /\ mem'[b].joined
  BY <1>1, <1>3 DEF DcTypes, Info
<1>5. DcTypes'
  <2>1. mem' \in [Addrs -> Info]
    <3>1. \A i \in Info : [i EXCEPT !.joined = TRUE] \in Info
      <4>1. PICK t \in BOOLEAN : t = TRUE
        OBVIOUS
      <4>2. \A i \in Info : [i EXCEPT !.joined = t] \in Info
        BY DEF Info
      <4> QED  BY <4>1, <4>2
    <3> QED  BY <1>1, <1>3, <3>1 DEF DcTypes
  <2>2. watch' \in [Fds -> Events \cup {NoWatch}]
    BY <1>1, <1>3, WatchTyped DEF DcTypes
  <2> QED  BY <1>1, <1>3, <2>1, <2>2 DEF DcTypes
<1>6. InHand'
  BY <1>1, <1>3 DEF InHand
<1>7. KernelFits' /\ OneSide' /\ (SomeClosed <=> SomeClosed') /\ Tamed'
  BY <1>1, <1>3 DEF KernelFits, OneSide, SomeClosed, Tamed
<1>8. ASSUME ~ghosts'.wild PROVE Sound'
  <2>1. Sound /\ ~ghosts.wild /\ b \in live /\ ~mem[b].joined /\ mem[b].ptr # b
    BY <1>3, <1>8 DEF DcInv
  <2>2. b # ep.addr /\ ~Torn(b)
    BY <1>1, <2>1, Numbers DEF Sound, TearingDown, InHand, Torn
  <2>3. f \in Fds /\ Open(f) /\ watch[f] = NoWatch
    <3>1. f \in Fds /\ Open(f)
      BY <1>1, <1>2, <2>1, <2>2, OwnConn DEF Sound
    <3>2. watch[f].ev = "none"
      <4>1. SUFFICES ASSUME watch[f].ev # "none" PROVE FALSE
        OBVIOUS
      <4>2. PICK a \in live : mem[a].joined /\ mem[a].fd = f /\ ~Torn(a)
        BY <2>1, <3>1, <4>1 DEF Sound, WatchFits
      <4> QED  BY <1>2, <2>1, <2>2, <4>2 DEF Sound, FdsOwned
    <3> QED  BY <1>1, <3>1, <3>2, WatchTyped
  <2>4. /\ \A g \in Fds : g # f => watch'[g] = watch[g]
        /\ watch'[f].ev = "in" /\ watch'[f].ptr = b
    BY <1>1, <1>3, <2>3 DEF DcTypes
  <2>5. \A a \in live : a \in Addrs /\ ConnOf(a)' = ConnOf(a) /\ (Untold(a)' <=> Untold(a))
                        /\ (Excused(a) <=> Excused(a)')
    <3>1. \A a \in live : a \in Addrs /\ mem'[a].fd = mem[a].fd /\ mem'[a].ptr = mem[a].ptr
      BY <1>1, <1>4 DEF DcTypes
    <3> QED  BY <1>3, <1>7, <3>1 DEF ConnOf, Untold, Excused
  <2>6. \A a : (Torn(a)' <=> Torn(a)) /\ (Open(a)' <=> Open(a))
    BY <1>3 DEF Torn, Open
  <2>7. \A a \in live : mem'[a].fd = mem[a].fd /\ mem'[a].ptr = mem[a].ptr
                        /\ (mem[a].joined => mem'[a].joined) /\ (a # b => mem'[a] = mem[a])
    BY <1>4, <2>5
  <2>8. FdsOwned'
    BY <1>3, <2>1, <2>6, <2>7 DEF Sound, FdsOwned
  <2>9. TearingDown'
    BY <1>3, <1>7, <2>1, <2>7 DEF Sound, TearingDown
  <2>10. PairedFirst'
    <3>1. \A a \in live : mem'[a].joined => mem'[a].ptr # a
      BY <2>1, <2>7 DEF Sound, PairedFirst
    <3>2. \A a \in live : ~Torn(a) => (mem'[a].ptr = a <=> mate[ConnOf(a)] = NoConn)
      BY <2>1, <2>7 DEF Sound, PairedFirst
    <3> QED  BY <1>3, <2>5, <2>6, <2>7, <3>1, <3>2 DEF PairedFirst
  <2>18. Holding'
    <3>1. acc'.at = "add2" =>
              Second' = Second /\ Second \in live /\ ~mem[Second].joined /\ mem[Second].ptr # Second
              /\ Second # b
      BY <2>1 DEF Sound, Holding, Second
    <3> QED  BY <1>3, <2>7, <3>1 DEF Holding
  <2>11. WatchFits'
    <3>1. SUFFICES ASSUME NEW g \in Fds, watch'[g].ev # "none", NEW a, a = watch'[g].ptr
                   PROVE  /\ a \in live /\ mem'[a].joined /\ mem'[a].fd = g /\ ~Torn(a)
                          /\ watch'[g].ev = "out" => Untold(a)
      BY <1>3, <2>5, <2>6 DEF WatchFits
    <3>2. CASE g = f
      BY <1>2, <1>4, <2>1, <2>2, <2>4, <2>7, <3>1, <3>2
    <3>3. CASE g # f
      BY <2>1, <2>4, <2>7, <3>1, <3>3 DEF Sound, WatchFits
    <3> QED  BY <3>2, <3>3
  <2>12. BatchFits'
    BY <1>3, <2>1, <2>5, <2>7 DEF Sound, BatchFits
  <2>13. \A a \in live : a # ep.addr /\ a # b => watch'[mem[a].fd] = watch[mem[a].fd]
    <3>1. \A a \in live : a # ep.addr => ~Torn(a)
      BY DEF Torn
    <3> QED  BY <1>2, <2>1, <2>2, <2>4, <3>1 DEF Sound, FdsOwned
  <2>14. JoinedWatched'
    <3>1. SUFFICES ASSUME NEW a \in live, mem'[a].joined, a # ep.addr
                   PROVE  watch'[mem[a].fd].ptr = a \/ ConnOf(a) \in ghosts.unhooked
      BY <1>3, <2>5, <2>7 DEF JoinedWatched
    <3>2. CASE a = b
      BY <1>2, <2>4, <3>2
    <3>3. CASE a # b
      BY <2>1, <2>7, <2>13, <3>1, <3>3 DEF Sound, JoinedWatched
    <3> QED  BY <3>2, <3>3
  <2>15. Linked'
    <3>1. SUFFICES ASSUME NEW a \in live, NEW p, p = mem[a].ptr, a # ep.addr, p \notin {Null, a}
                   PROVE  \/ /\ Mutual(a, p)' /\ p # ep.addr /\ mate[ConnOf(a)] = ConnOf(p)'
                          \/ (Mutual(a, p)' => p = ep.addr) /\ Excused(a)
      BY <1>3, <2>5, <2>7 DEF Linked
    <3>2. Mutual(a, p)' <=> Mutual(a, p)
      BY <1>3, <2>7 DEF Mutual
    <3>3. Mutual(a, p) => ConnOf(p)' = ConnOf(p)
      BY <2>5 DEF Mutual
    <3> QED  BY <2>1, <3>1, <3>2, <3>3 DEF Sound, Linked
  <2>16. Orphans'
    <3>1. SUFFICES ASSUME NEW a \in live, a # ep.addr, mem[a].ptr = Null
                   PROVE  \/ mem'[a].joined /\ watch'[mem[a].fd] = [ev |-> "out", ptr |-> a]
                          \/ mem'[a].joined /\ ConnOf(a) \in ghosts.unhooked
                          \/ ConnOf(a) \in ghosts.missed
      BY <1>3, <2>5, <2>7 DEF Orphans
    <3>2. \/ mem[a].joined /\ watch[mem[a].fd] = [ev |-> "out", ptr |-> a]
          \/ mem[a].joined /\ ConnOf(a) \in ghosts.unhooked
          \/ ConnOf(a) \in ghosts.missed
      BY <2>1, <3>1 DEF Sound, Orphans
    <3>3. CASE a = b
      BY <2>1, <3>2, <3>3
    <3>4. CASE a # b
      BY <2>7, <2>13, <3>1, <3>2, <3>4
    <3> QED  BY <3>3, <3>4
  <2>17. QueuesFit'
    BY <1>3, <1>7, <2>1, <2>7 DEF Sound, QueuesFit
  <2> QED  BY <2>8, <2>9, <2>10, <2>11, <2>12, <2>14, <2>15, <2>16, <2>17, <2>18 DEF Sound
<1> QED  BY <1>5, <1>6, <1>7, <1>8 DEF DcInv

\* Both registrations of a pair keep the invariant.
LEMMA AddStep == ASSUME DcInv, AddFirst \/ AddSecond PROVE DcInv'
<1>1. DcTypes /\ InHand /\ (~ghosts.wild => Holding)
  BY DEF DcInv, Sound
<1>2. CASE AddFirst
  <2>1. acc.at = "add1" /\ AddEpoll(First) /\ acc' = [acc EXCEPT !.at = "add2"]
    BY <1>2 DEF AddFirst
  <2>2. PICK b \in Addrs : b = First
    BY <1>1, <2>1 DEF InHand, First
  <2>3. ~ghosts.wild => b \in live /\ ~mem[b].joined /\ mem[b].ptr # b /\ Second # b
    BY <1>1, <2>1, <2>2 DEF Holding, First, Second
  <2>4. /\ acc' \in [at : AcceptsAt, side : Sides, fd : 0..NFds,
                     me : Addrs \cup {Null}, other : Addrs \cup {Null}]
        /\ acc'.at = "add2" /\ acc'.me = acc.me /\ acc'.other = acc.other /\ acc'.side = acc.side
    BY <1>1, <2>1 DEF DcTypes, AcceptsAt
  <2> QED  BY <2>1, <2>2, <2>3, <2>4, AddEpollKeeps
<1>3. CASE AddSecond
  <2>1. acc.at = "add2" /\ AddEpoll(Second) /\ acc' = AccIdle
    BY <1>3 DEF AddSecond
  <2>2. PICK b \in Addrs : b = Second
    BY <1>1, <2>1 DEF InHand, Second
  <2>3. ~ghosts.wild => b \in live /\ ~mem[b].joined /\ mem[b].ptr # b
    BY <1>1, <2>1, <2>2 DEF Holding
  <2> QED  BY <1>1, <2>1, <2>2, <2>3, IdleTyped, AddEpollKeeps
<1> QED  BY <1>2, <1>3
-----------------------------------------------------------------------------
(***************************************************************************)
(* The business thread closes the listeners and goes from queue to queue.  *)
(***************************************************************************)
LEMMA BusinessStep == ASSUME DcInv, CloseListeners \/ LoopEnds PROVE DcInv'
<1>1. DcTypes /\ InHand /\ KernelFits /\ OneSide /\ Tamed
  BY DEF DcInv
<1>2. UNCHANGED <<peer, file, watch, mem, live, free, busy, acc, ep, batch, accepted, mate, ghosts>>
  BY DEF CloseListeners, LoopEnds, kernel, queues
<1>3. chan' \in {"closing", "deleted"} /\ del'.at = del.at /\ del'.addr = del.addr
      /\ del' \in [loop : 1..4, at : {"test", "front", "pop", "close"}, addr : Addrs \cup {Null}]
  <2>1. CASE CloseListeners
    BY <1>1, <2>1 DEF CloseListeners, DcTypes
  <2>2. CASE LoopEnds
    <3>1. chan = "closing" /\ (chan' = chan \/ chan' = "deleted")
      BY <2>2 DEF LoopEnds, InLoop
    <3>2. del' = del \/ (del.loop # 4 /\ del' = [del EXCEPT !.loop = del.loop + 1])
      BY <2>2 DEF LoopEnds
    <3>3. del.loop # 4 => del.loop + 1 \in 1..4
      BY <1>1, ThreadsTyped
    <3>4. CASE del' = del
      BY <1>1, <3>1, <3>4 DEF DcTypes
    <3>5. CASE del.loop # 4 /\ del' = [del EXCEPT !.loop = del.loop + 1]
      <4>1. PICK n \in 1..4 : n = del.loop + 1
        BY <3>3, <3>5
      <4>2. del' = [del EXCEPT !.loop = n]
        BY <3>5, <4>1
      <4> QED  BY <1>1, <3>1, <4>2 DEF DcTypes
    <3> QED  BY <3>2, <3>4, <3>5
  <2> QED  BY <2>1, <2>2
<1>4. DcTypes'
  BY <1>1, <1>2, <1>3 DEF DcTypes
<1>5. KernelFits' /\ OneSide' /\ (SomeClosed <=> SomeClosed')
  BY <1>1, <1>2 DEF KernelFits, OneSide, SomeClosed
<1>6. InHand'
  BY <1>1, <1>2, <1>3 DEF InHand
<1>7. Tamed'
  BY <1>1, <1>2, <1>3, <1>5 DEF Tamed
<1>8. ASSUME ~ghosts'.wild PROVE Sound'
  <2>1. ~ghosts.wild /\ Sound
    BY <1>2, <1>8 DEF DcInv
  <2>2. Holding'
    BY <1>2, <2>1, HoldingKept DEF Sound
  <2>3. QueuesFit'
    BY <1>2, <1>3, <1>5, <2>1 DEF Sound, QueuesFit
  <2> QED  BY <1>2, <1>3, <1>4, <1>5, <2>1, <2>2, <2>3, QuietStep
<1> QED  BY <1>4, <1>5, <1>6, <1>7, <1>8 DEF DcInv

-----------------------------------------------------------------------------
(***************************************************************************)
(* The epoll thread.                                                       *)
(***************************************************************************)
\* What epoll_wait returns is what is registered.
LEMMA EpollWaitStep == ASSUME DcInv, EpollWait PROVE DcInv'
<1>1. DcTypes /\ InHand /\ KernelFits /\ OneSide /\ Tamed /\ ep.at = "wait"
  BY DEF DcInv, EpollWait
<1>2. /\ UNCHANGED <<peer, file, watch, mem, live, free, busy, acc, ep, chan, del, accepted, mate, ghosts>>
      /\ \A e \in batch' : \E f \in Fds : e = watch[f] /\ watch[f].ev # "none"
  BY DEF EpollWait, kernel, queues, Ready
<1>3. DcTypes'
  <2>1. batch' \subseteq Events
    BY <1>1, <1>2, WatchTyped
  <2> QED  BY <1>1, <1>2, <2>1 DEF DcTypes
<1>4. InHand' /\ KernelFits' /\ OneSide' /\ (SomeClosed <=> SomeClosed') /\ Tamed'
  BY <1>1, <1>2 DEF InHand, KernelFits, OneSide, SomeClosed, Tamed
<1>5. ASSUME ~ghosts'.wild PROVE Sound'
  <2>1. ~ghosts.wild /\ Sound
    BY <1>2, <1>5 DEF DcInv
  <2>2. \A b : /\ Open(b)' <=> Open(b)
               /\ ConnOf(b)' = ConnOf(b) /\ (Torn(b)' <=> Torn(b))
               /\ (Excused(b) <=> Excused(b)') /\ (Untold(b) <=> Untold(b)')
               /\ \A p : Mutual(b, p)' <=> Mutual(b, p)
    BY <1>2, <1>4 DEF Open, ConnOf, Torn, Excused, Untold, Mutual
  <2>3. FdsOwned' /\ TearingDown' /\ PairedFirst' /\ WatchFits' /\ JoinedWatched'
    BY <1>2, <1>4, <2>1, <2>2
    DEF Sound, FdsOwned, TearingDown, PairedFirst, WatchFits, JoinedWatched
  <2>6. Holding'
    BY <1>2, <2>1, HoldingKept DEF Sound
  <2>4. Linked' /\ Orphans' /\ QueuesFit'
    BY <1>2, <1>4, <2>1, <2>2 DEF Sound, Linked, Orphans, QueuesFit
  <2>5. BatchFits'
    <3>1. ASSUME NEW e \in batch' 
          PROVE  /\ e.ptr \in live /\ mem[e.ptr].joined /\ e.ptr # ep.addr
                 /\ e = watch[mem[e.ptr].fd]
                 /\ e.ev = "out" => Untold(e.ptr)
      <4>1. PICK f \in Fds : e = watch[f] /\ watch[f].ev # "none"
        BY <1>2
      <4>2. /\ e.ptr \in live /\ mem[e.ptr].joined /\ mem[e.ptr].fd = f
            /\ e.ev = "out" => Untold(e.ptr)
        BY <2>1, <4>1 DEF Sound, WatchFits
      <4>3. e.ptr # ep.addr
        BY <1>1, <4>2, MemTyped, Numbers DEF InHand
      <4> QED  BY <4>1, <4>2, <4>3
    <3>2. \A e, d \in batch' : e.ptr = d.ptr => e = d
      BY <3>1
    <3> QED  BY <1>2, <2>2, <3>1, <3>2 DEF BatchFits
  <2> QED  BY <2>3, <2>4, <2>5, <2>6 DEF Sound
<1> QED  BY <1>3, <1>4, <1>5 DEF DcInv

\* What the epoll thread finds behind the pointer of an event.
LEMMA SeenTyped ==
    ASSUME DcTypes, NEW a \in Addrs, NEW i \in Seen(a)
    PROVE  /\ i \in Info /\ i.fd \in 0..NFds /\ i.ptr = mem[a].ptr /\ i.joined \in BOOLEAN
           /\ a \in live => i = mem[a]
<1>1. PICK z \in 0..NFds : z = 0
  BY Numbers
<1>2. PICK t \in BOOLEAN : t = FALSE
  OBVIOUS
<1>3. mem[a] \in Info
  BY DEF DcTypes
<1>4. i = mem[a] \/ (a \notin live /\ i = [mem[a] EXCEPT !.fd = z, !.joined = t])
  BY <1>1, <1>2, Numbers DEF Seen
<1> QED  BY <1>3, <1>4 DEF Info

\* The block of an event starts to be torn down, and its partner is not told.
LEMMA TearDownKeeps ==
    ASSUME DcInv, NEW e \in batch, Take(e), NEW i \in Seen(e.ptr), TearDown(e.ptr, i.fd),
           UNCHANGED <<peer, file, live, free, busy, acc, chan, del, accepted, mate>>,
           UNCHANGED <<watch, mem, ghosts>>,
           ~ghosts.wild =>
               \/ Untold(e.ptr)
               \/ ConnOf(e.ptr) \in ghosts.reset
    PROVE  DcInv'
<1>1. /\ DcTypes /\ InHand /\ KernelFits /\ OneSide /\ Tamed /\ ep.at = "wait" /\ ep.addr = Null
      /\ batch' = batch \ {e}
  BY DEF DcInv, Take, InHand
<1>2. PICK a \in Addrs : a = e.ptr
  BY <1>1, WatchTyped
<1>3. /\ i.fd \in 0..NFds /\ ep' = [at |-> "close", addr |-> a, fd |-> i.fd] /\ a # Null
      /\ a \in live => i = mem[a]
  BY <1>1, <1>2, SeenTyped, Numbers DEF TearDown
<1>4. DcTypes'
  <2>1. ep' \in [at : {"wait", "close", "ctl"}, addr : Addrs \cup {Null}, fd : 0..NFds]
    BY <1>3
  <2> QED  BY <1>1, <2>1 DEF DcTypes
<1>5. InHand' /\ KernelFits' /\ OneSide' /\ (SomeClosed <=> SomeClosed') /\ Tamed'
  BY <1>1, <1>3 DEF InHand, KernelFits, OneSide, SomeClosed, Tamed
<1>6. ASSUME ~ghosts'.wild PROVE Sound'
  <2>1. ~ghosts.wild /\ Sound /\ a \in live /\ mem[a].joined
    BY <1>2, <1>6 DEF DcInv, Sound, BatchFits
  <2>2. \A b : /\ Open(b)' <=> Open(b)
               /\ ConnOf(b)' = ConnOf(b) /\ ~Torn(b) /\ ~Torn(b)'
               /\ Untold(b)' <=> Untold(b)
               /\ \A p : Mutual(b, p)' <=> Mutual(b, p)
    BY <1>1, <1>3 DEF Open, ConnOf, Torn, Untold, Mutual
  <2>3. FdsOwned' /\ PairedFirst' /\ WatchFits'
    BY <2>1, <2>2 DEF Sound, FdsOwned, PairedFirst, WatchFits
  <2>4. TearingDown'
    BY <1>3, <2>1 DEF TearingDown
  <2>5. BatchFits'
    BY <1>1, <1>2, <1>3, <2>1, <2>2 DEF Sound, BatchFits
  <2>6. \A b \in live : b # ep.addr
    BY <1>1, MemTyped, Numbers
  <2>7. JoinedWatched'
    BY <2>1, <2>2, <2>6 DEF Sound, JoinedWatched
  <2>8. Orphans'
    BY <2>1, <2>2, <2>6 DEF Sound, Orphans
  <2>9. QueuesFit'
    BY <1>5, <2>1 DEF Sound, QueuesFit
  <2>10. Linked'
    <3>1. SUFFICES ASSUME NEW b \in live, NEW p, p = mem[b].ptr, b # a, p \notin {Null, b}
                   PROVE  \/ Mutual(b, p) /\ p # a /\ mate[ConnOf(b)] = ConnOf(p)
                          \/ (Mutual(b, p) => p = a) /\ Excused(b)'
      BY <1>3, <2>2 DEF Linked
    <3>2. \/ Mutual(b, p) /\ p # ep.addr /\ mate[ConnOf(b)] = ConnOf(p)
          \/ (Mutual(b, p) => p = ep.addr) /\ Excused(b)
      BY <2>1, <2>6, <3>1 DEF Sound, Linked
    <3>3. CASE Mutual(b, p) /\ p # ep.addr /\ mate[ConnOf(b)] = ConnOf(p)
      <4>1. CASE p # a
        BY <3>3, <4>1
      <4>2. CASE p = a
        <5>1. mem[a].ptr = b /\ b # Null
          BY <3>3, <4>2, MemTyped, Numbers, <1>1, <3>1 DEF Mutual
        <5>2. mate[ConnOf(b)] \in ghosts.reset \/ chan # "open"
          BY <1>2, <2>1, <3>3, <4>2, <5>1 DEF Untold
        <5> QED  BY <1>3, <2>2, <4>2, <5>2 DEF Excused
      <4> QED  BY <4>1, <4>2
    <3>4. CASE (Mutual(b, p) => p = ep.addr) /\ Excused(b)
      <4>1. p # a \/ ~Mutual(b, p)
        BY <1>1, <1>3, <3>4
      <4>2. ~Mutual(b, p)
        BY <2>6, <3>4 DEF Mutual
      <4>3. Excused(b)'
        BY <1>3, <1>5, <2>2, <3>4 DEF Excused
      <4> QED  BY <4>2, <4>3
    <3> QED  BY <3>2, <3>3, <3>4
  <2>11. Holding'
    BY <2>1, HoldingKept DEF Sound
  <2> QED  BY <2>3, <2>4, <2>5, <2>7, <2>8, <2>9, <2>10, <2>11 DEF Sound
<1> QED  BY <1>4, <1>5, <1>6 DEF DcInv

\* A block that asked for it is closed; so is one whose connection was reset.
LEMMA HandleCloseStep == ASSUME DcInv, NEW e \in batch, HandleClose(e) PROVE DcInv'
<1>1. PICK i \in Seen(e.ptr) : TearDown(e.ptr, i.fd)
  BY DEF HandleClose
<1>2. ~ghosts.wild => Untold(e.ptr)
  BY DEF HandleClose, DcInv, Sound, BatchFits
<1> QED  BY <1>1, <1>2, TearDownKeeps DEF HandleClose, kernel, queues

\* A connection that was reset starts to be torn down, which excuses its partner.
LEMMA HandleResetStep == ASSUME DcInv, NEW e \in batch, HandleReset(e) PROVE DcInv'
<1>1. PICK i \in Seen(e.ptr) :
          /\ ~ Open(i.fd) \/ (peer[file[i.fd]].rx = 0 /\ peer[file[i.fd]].state = "rst")
          /\ TearDown(e.ptr, i.fd)
  BY DEF HandleReset
<1>2. ASSUME ~ghosts.wild PROVE ConnOf(e.ptr) \in ghosts.reset
  <2>1. /\ DcTypes /\ KernelFits /\ FdsOwned /\ BatchFits /\ ep.at = "wait" /\ e \in batch
    BY <1>2 DEF DcInv, Sound, HandleReset, TakeIn, Take
  <2>2. PICK a \in live : a = e.ptr
    BY <2>1 DEF BatchFits
  <2>3. ~Torn(a)
    BY <2>1 DEF Torn
  <2>4. i = mem[a] /\ Open(mem[a].fd) /\ ConnOf(a) \in Conns
    BY <1>1, <2>1, <2>2, <2>3, OwnConn, SeenTyped
  <2> QED  BY <1>1, <2>1, <2>2, <2>4 DEF KernelFits, ConnOf
<1> QED  BY <1>1, <1>2, TearDownKeeps DEF HandleReset, TakeIn, kernel, queues

\* The block of an event follows its pointer: to its partner, or excused.
LEMMA PartnerOf ==
    ASSUME DcInv, ~ghosts.wild, NEW e \in batch, ep.at = "wait", NEW a, a = e.ptr,
           NEW p, p = mem[a].ptr, p # Null
    PROVE  /\ a \in live /\ mem[a].joined /\ p # a
           /\ Mutual(a, p) => p \in live /\ mem[p].ptr = a /\ mate[ConnOf(a)] = ConnOf(p)
           /\ ~Mutual(a, p) => SomeClosed /\ (ghosts.reset # {} \/ chan # "open")
<1>1. DcTypes /\ InHand /\ Sound
  BY DEF DcInv
<1>2. a \in live /\ mem[a].joined
  BY <1>1 DEF Sound, BatchFits
<1>3. ep.addr = Null /\ \A b \in live : b # ep.addr
  BY <1>1, MemTyped, Numbers DEF InHand
<1>4. p # a
  BY <1>1, <1>2 DEF Sound, PairedFirst
<1>5. \/ Mutual(a, p) /\ mate[ConnOf(a)] = ConnOf(p)
      \/ (Mutual(a, p) => p = ep.addr) /\ Excused(a)
  BY <1>1, <1>2, <1>3, <1>4 DEF Sound, Linked
<1>6. Mutual(a, p) => p \in live /\ p # ep.addr /\ mem[p].ptr = a
  BY <1>3 DEF Mutual
<1>7. Excused(a) => SomeClosed /\ (ghosts.reset # {} \/ chan # "open")
  BY DEF Excused
<1> QED  BY <1>2, <1>4, <1>5, <1>6, <1>7

\* close_socket of a block registers it for writability, or does nothing.
LEMMA CloseSocketTyped ==
    ASSUME DcTypes, NEW i, NEW a \in Addrs
    PROVE  /\ CloseSocket(i, a, watch) \in [Fds -> Events \cup {NoWatch}]
           /\ Modifies(i) => /\ i.joined /\ i.fd \in Fds /\ watch[i.fd].ev # "none"
                             /\ CloseSocket(i, a, watch)
                                    = [watch EXCEPT ![i.fd] = [ev |-> "out", ptr |-> a]]
           /\ ~Modifies(i) => CloseSocket(i, a, watch) = watch
<1>1. Modifies(i) => i.joined /\ i.fd \in Fds /\ watch[i.fd] # NoWatch
  BY KernelTyped DEF Modifies
<1>2. [ev |-> "out", ptr |-> a] \in Events
  BY WatchTyped
<1> QED  BY <1>1, <1>2, WatchTyped DEF DcTypes, CloseSocket

\* A step that tears down a and cuts off its partner p, which points back to it.
CutOff(e, a, p) ==
    /\ Take(e) /\ a = e.ptr /\ p = mem[a].ptr /\ p # Null /\ Mutual(a, p) /\ DcTypes'
    /\ UNCHANGED <<peer, file, live, free, busy, acc, chan, del, accepted, mate>>
    /\ ep' = [at |-> "close", addr |-> a, fd |-> mem[a].fd]
    /\ mem' = [mem EXCEPT ![p].ptr = Null]
    /\ watch' = CloseSocket(mem[p], p, watch)
    /\ ghosts'.reset = ghosts.reset /\ ghosts'.unhooked = ghosts.unhooked
    /\ ghosts.missed \subseteq ghosts'.missed
    /\ ~Modifies(mem[p]) => mate[ConnOf(a)] \in ghosts'.missed

\* It keeps what is sound.
LEMMA CutOffKeeps ==
    ASSUME DcInv, ~ghosts.wild, NEW e \in batch, NEW a, NEW p, CutOff(e, a, p)
    PROVE  Sound'
<1>1. /\ DcTypes /\ InHand /\ Sound /\ ep.at = "wait" /\ ep.addr = Null /\ batch' = batch \ {e}
      /\ Null \notin Addrs /\ a = e.ptr /\ p # Null /\ DcTypes'
      /\ UNCHANGED <<peer, file, live, free, busy, acc, chan, del, accepted, mate>>
      /\ ghosts'.reset = ghosts.reset /\ ghosts'.unhooked = ghosts.unhooked
      /\ ghosts.missed \subseteq ghosts'.missed
      /\ ep'.at = "close" /\ ep'.addr = a
  BY <1>1, Numbers DEF DcInv, Take, InHand, CutOff
<1>2. /\ a \in live /\ mem[a].joined /\ p # a /\ p \in live /\ mem[p].ptr = a
      /\ mate[ConnOf(a)] = ConnOf(p) /\ a \in Addrs /\ p \in Addrs
  BY <1>1, PartnerOf, MemTyped DEF CutOff
<1>3. /\ \A b \in Addrs : mem'[b].fd = mem[b].fd /\ mem'[b].joined = mem[b].joined
                          /\ (b # p => mem'[b] = mem[b])
      /\ mem'[p].ptr = Null
  <2>1. mem \in [Addrs -> Info] /\ mem' = [mem EXCEPT ![p].ptr = Null]
    BY <1>1 DEF DcTypes, CutOff
  <2>2. mem'[p] = [mem[p] EXCEPT !.ptr = Null] /\ \A b \in Addrs : b # p => mem'[b] = mem[b]
    BY <1>2, <2>1
  <2>3. \A i \in Info : LET j == [i EXCEPT !.ptr = Null] IN
                            j.fd = i.fd /\ j.joined = i.joined /\ j.ptr = Null
    BY DEF Info
  <2> QED  BY <1>2, <2>1, <2>2, <2>3
<1>4. \A b \in live : /\ b \in Addrs /\ b # ep.addr /\ ~Torn(b) /\ ~Torn(b)'
                      /\ ConnOf(b)' = ConnOf(b) /\ (Untold(b) => Untold(b)')
                      /\ mem'[b].fd = mem[b].fd /\ mem'[b].joined = mem[b].joined
                      /\ (b # p => mem'[b] = mem[b])
  <2>1. \A b \in live : b \in Addrs /\ b # ep.addr
    BY <1>1, MemTyped
  <2> QED  BY <1>1, <1>3, <2>1 DEF Torn, ConnOf, Untold, CutOff
<1>5. (SomeClosed <=> SomeClosed') /\ \A f : Open(f)' <=> Open(f)
  BY DEF SomeClosed, Open, CutOff
<1>6. \A f \in Fds : \/ watch'[f] = watch[f]
                     \/ f = mem[p].fd /\ mem[p].joined /\ watch'[f] = [ev |-> "out", ptr |-> p]
  <2>1. CASE Modifies(mem[p])
    <3>1. PICK g \in Fds : g = mem[p].fd
      BY <1>1, <1>2, <2>1, CloseSocketTyped
    <3>2. /\ mem[p].joined /\ watch \in [Fds -> Events \cup {NoWatch}]
          /\ watch' = [watch EXCEPT ![g] = [ev |-> "out", ptr |-> p]]
      <4>1. watch' = CloseSocket(mem[p], p, watch) /\ watch \in [Fds -> Events \cup {NoWatch}]
        BY <1>1 DEF DcTypes, CutOff
      <4>2. /\ mem[p].joined
            /\ CloseSocket(mem[p], p, watch) = [watch EXCEPT ![mem[p].fd] = [ev |-> "out", ptr |-> p]]
        BY <1>1, <1>2, <2>1, CloseSocketTyped
      <4> QED  BY <3>1, <4>1, <4>2
    <3> QED  BY <3>1, <3>2
  <2>2. CASE ~Modifies(mem[p])
    BY <1>1, <1>2, <2>2, CloseSocketTyped DEF CutOff
  <2> QED  BY <1>1, <2>1, <2>2
<1>7. \A b \in live : b # p => watch'[mem[b].fd] = watch[mem[b].fd]
  BY <1>1, <1>2, <1>4, <1>6 DEF Sound, FdsOwned
<1>8. FdsOwned'
  <2>1. acc.at = "accepted" => watch'[acc.fd] = watch[acc.fd]
    BY <1>1, <1>2, <1>4, <1>6, KernelTyped DEF Sound, FdsOwned
  <2>2. \A b \in live : mem'[b].fd \in Fds /\ file'[mem'[b].fd] # NoConn
    BY <1>1, <1>4 DEF Sound, FdsOwned, Open
  <2>3. \A b, d \in live : b # d => mem'[b].fd # mem'[d].fd
    BY <1>1, <1>4 DEF Sound, FdsOwned
  <2>4. acc.at = "accepted" => \A b \in live : mem'[b].fd # acc.fd
    BY <1>1, <1>4 DEF Sound, FdsOwned
  <2>5. acc.at = "accepted" => /\ Open(acc.fd)' /\ file[acc.fd] = accepted
                               /\ mate[accepted] = NoConn /\ watch'[acc.fd] = NoWatch
    BY <1>1, <1>5, <2>1 DEF Sound, FdsOwned
  <2> QED  BY <1>1, <2>2, <2>3, <2>4, <2>5 DEF FdsOwned, Open
<1>9. TearingDown'
  <2>1. ep'.at = "close" /\ ep'.addr = a /\ ep'.fd = mem[a].fd
    BY <1>1 DEF CutOff
  <2> QED  BY <1>1, <1>2, <1>4, <2>1 DEF TearingDown
<1>10. PairedFirst'
  <2>1. mem[p].ptr # p /\ mate[ConnOf(p)] # NoConn
    BY <1>1, <1>2, <1>4 DEF Sound, PairedFirst
  <2>2. mem'[p].ptr # p
    BY <1>1, <1>2, <1>3
  <2>3. \A b \in live : mem'[b].joined => mem'[b].ptr # b
    BY <1>1, <1>4, <2>2 DEF Sound, PairedFirst
  <2>4. \A b \in live : ~Torn(b)' => (mem'[b].ptr = b <=> mate[ConnOf(b)] = NoConn)
    BY <1>1, <1>4, <2>1, <2>2 DEF Sound, PairedFirst
  <2> QED  BY <1>1, <1>4, <2>3, <2>4 DEF PairedFirst
<1>11. WatchFits'
  <2>1. SUFFICES ASSUME NEW f \in Fds, watch'[f].ev # "none", NEW b, b = watch'[f].ptr
                 PROVE  /\ b \in live /\ mem'[b].joined /\ mem'[b].fd = f /\ ~Torn(b)'
                        /\ watch'[f].ev = "out" => Untold(b)'
    BY <1>1 DEF WatchFits
  <2>2. CASE watch'[f] = watch[f]
    BY <1>1, <1>4, <2>1, <2>2 DEF Sound, WatchFits
  <2>3. CASE f = mem[p].fd /\ mem[p].joined /\ watch'[f] = [ev |-> "out", ptr |-> p]
    <3>1. b = p /\ Untold(b)'
      BY <1>1, <1>3, <2>1, <2>3 DEF Untold
    <3> QED  BY <1>1, <1>2, <1>4, <2>3, <3>1
  <2> QED  BY <1>1, <1>6, <2>2, <2>3
<1>12. BatchFits'
  <2>1. \A d \in batch' : d \in batch /\ d.ptr # a
    BY <1>1 DEF Sound, BatchFits
  <2> QED  BY <1>1, <1>4, <2>1 DEF Sound, BatchFits
<1>13. JoinedWatched'
  <2>1. SUFFICES ASSUME NEW b \in live, mem[b].joined
                 PROVE  watch'[mem[b].fd].ptr = b \/ ConnOf(b) \in ghosts'.unhooked
    BY <1>1, <1>4 DEF JoinedWatched
  <2>2. watch[mem[b].fd].ptr = b \/ ConnOf(b) \in ghosts.unhooked
    BY <1>1, <1>4, <2>1 DEF Sound, JoinedWatched
  <2>3. watch'[mem[b].fd] = watch[mem[b].fd] \/ watch'[mem[b].fd].ptr = b
    BY <1>1, <1>4, <1>6, <1>7 DEF Sound, FdsOwned
  <2> QED  BY <1>1, <2>2, <2>3
<1>14. Linked'
  <2>1. SUFFICES ASSUME NEW b \in live, NEW q, q = mem'[b].ptr, b # a, q \notin {Null, b}
                 PROVE  \/ Mutual(b, q)' /\ q # a /\ mate[ConnOf(b)] = ConnOf(q)'
                        \/ ~Mutual(b, q)' /\ Excused(b)'
    BY <1>1, <1>4 DEF Linked
  <2>2. b # p /\ q = mem[b].ptr
    BY <1>1, <1>3, <1>4, <2>1
  <2>3. \/ Mutual(b, q) /\ mate[ConnOf(b)] = ConnOf(q)
        \/ (Mutual(b, q) => q = ep.addr) /\ Excused(b)
    BY <1>1, <1>4, <2>1, <2>2 DEF Sound, Linked
  <2>4. CASE Mutual(b, q) /\ mate[ConnOf(b)] = ConnOf(q)
    <3>1. q \in live /\ mem[q].ptr = b
      BY <1>1, <2>4 DEF Mutual
    <3>2. q # a /\ q # p
      <4>1. mem[p].ptr = a /\ mem[a].ptr = p /\ b # a /\ b # p
        BY <1>2, <2>1, <2>2 DEF CutOff
      <4> QED  BY <3>1, <4>1
    <3> QED  BY <1>1, <1>4, <2>4, <3>1, <3>2 DEF Mutual
  <2>5. CASE (Mutual(b, q) => q = ep.addr) /\ Excused(b)
    <3>1. ~Mutual(b, q)
      BY <1>1, <1>4, <2>5 DEF Mutual
    <3>2. ~Mutual(b, q)'
      BY <1>1, <1>3, <1>4, <2>1, <3>1 DEF Mutual
    <3>3. Excused(b)'
      BY <1>1, <1>4, <1>5, <2>5 DEF Excused
    <3> QED  BY <1>1, <3>2, <3>3
  <2> QED  BY <1>1, <2>3, <2>4, <2>5
<1>15. Orphans'
  <2>1. SUFFICES ASSUME NEW b \in live, b # a, mem'[b].ptr = Null
                 PROVE  \/ mem'[b].joined /\ watch'[mem[b].fd] = [ev |-> "out", ptr |-> b]
                        \/ mem'[b].joined /\ ConnOf(b) \in ghosts'.unhooked
                        \/ ConnOf(b) \in ghosts'.missed
    BY <1>1, <1>4 DEF Orphans
  <2>2. CASE b = p
    <3>1. CASE Modifies(mem[p])
      <4>1. PICK g \in Fds : g = mem[p].fd
        BY <1>1, <1>2, <3>1, CloseSocketTyped
      <4>2. watch'[g] = [ev |-> "out", ptr |-> p] /\ mem[p].joined
        <5>1. /\ mem[p].joined /\ watch \in [Fds -> Events \cup {NoWatch}]
              /\ watch' = [watch EXCEPT ![g] = [ev |-> "out", ptr |-> p]]
          <6>1. watch' = CloseSocket(mem[p], p, watch) /\ watch \in [Fds -> Events \cup {NoWatch}]
            BY <1>1 DEF DcTypes, CutOff
          <6>2. /\ mem[p].joined
                /\ CloseSocket(mem[p], p, watch)
                       = [watch EXCEPT ![mem[p].fd] = [ev |-> "out", ptr |-> p]]
            BY <1>1, <1>2, <3>1, CloseSocketTyped
          <6> QED  BY <4>1, <6>1, <6>2
        <5> QED  BY <5>1
      <4> QED  BY <1>1, <1>4, <2>2, <4>1, <4>2
    <3>2. CASE ~Modifies(mem[p])
      BY <1>1, <1>2, <2>2, <3>2 DEF CutOff
    <3> QED  BY <1>1, <3>1, <3>2
  <2>3. CASE b # p
    BY <1>1, <1>4, <1>7, <2>1, <2>3 DEF Sound, Orphans
  <2> QED  BY <1>1, <2>2, <2>3
<1>16. QueuesFit'
  <2>1. \A s \in Sides : \A k \in DOMAIN free[s] : free[s][k] # p
    BY <1>1, <1>2 DEF Sound, QueuesFit
  <2> QED  BY <1>1, <1>4, <1>5, <2>1 DEF Sound, QueuesFit
<1>17. Holding'
  <2>1. Holding /\ mem[p].ptr # p /\ mem'[p].ptr # p
    BY <1>1, <1>2, <1>3 DEF Sound
  <2>2. acc.at = "add2" => Second' = Second
    BY <1>1 DEF Second
  <2>3. \A b \in live : /\ (mem[b].ptr = b => mem'[b].ptr = b) /\ (mem[b].ptr # b => mem'[b].ptr # b)
                        /\ mem'[b].joined = mem[b].joined /\ mem'[b].fd = mem[b].fd
    BY <1>4, <2>1
  <2> QED  BY <1>1, <2>1, <2>2, <2>3 DEF Holding
<1> QED  BY <1>8, <1>9, <1>10, <1>11, <1>12, <1>13, <1>14, <1>15, <1>16, <1>17 DEF Sound

\* A pointer that does not lead back takes a reset or a deletion.
LEMMA WildIsTamed ==
    ASSUME DcInv, NEW e \in batch, ep.at = "wait", NEW a, a = e.ptr,
           NEW p, p = mem[a].ptr, p # Null, UNCHANGED <<chan, mate>>,
           SomeClosed => SomeClosed', ghosts'.reset = ghosts.reset, ghosts'.torn = ghosts.torn,
           ghosts'.strayed => ghosts'.wild,
           ghosts'.wild = (ghosts.wild \/ ~Mutual(a, p))
    PROVE  Tamed'
<1>1. ghosts.wild \/ ~Mutual(a, p)
          => ghosts.reset # {} \/ (chan # "open" /\ (SomeClosed \/ ghosts.torn))
  BY PartnerOf DEF DcInv, Tamed
<1>2. ghosts.torn => ghosts.wild /\ chan # "open"
  BY DEF DcInv, Tamed
<1> QED  BY <1>1, <1>2 DEF Tamed

\* A connection that ended takes its partner with it.
LEMMA HandleFinStep == ASSUME DcInv, NEW e \in batch, HandleFin(e) PROVE DcInv'
<1>1. PICK i \in Seen(e.ptr) :
          /\ AtEnd(i) /\ TearDown(e.ptr, i.fd)
          /\ \/ i.ptr = Null /\ UNCHANGED <<watch, mem, ghosts>>
             \/ /\ i.ptr # Null
                /\ mem' = [mem EXCEPT ![i.ptr].ptr = Null]
                /\ \E r \in Seen(i.ptr) :
                      /\ watch' = CloseSocket(r, i.ptr, watch)
                      /\ ghosts' = [ghosts EXCEPT
                            !.missed = IF Modifies(r) THEN @ ELSE @ \cup {mate[file[i.fd]]},
                            !.wild = @ \/ ~ Mutual(e.ptr, i.ptr)]
  BY DEF HandleFin
<1>2. /\ DcTypes /\ InHand /\ KernelFits /\ OneSide /\ Tamed /\ Take(e) /\ ep.at = "wait"
      /\ UNCHANGED <<peer, file, live, free, busy, acc, chan, del, accepted, mate>>
      /\ batch' = batch \ {e}
  BY DEF DcInv, HandleFin, TakeIn, Take, queues
<1>3. PICK a \in Addrs : a = e.ptr
  BY <1>2, WatchTyped
<1>4. i \in Info /\ i.fd \in 0..NFds /\ i.ptr = mem[a].ptr /\ (a \in live => i = mem[a])
  BY <1>1, <1>2, <1>3, SeenTyped
<1>5. CASE i.ptr = Null
  <2>1. UNCHANGED <<watch, mem, ghosts>> /\ Untold(e.ptr)
    BY <1>1, <1>3, <1>4, <1>5 DEF Untold
  <2> QED  BY <1>1, <1>2, <2>1, TearDownKeeps
<1>6. CASE i.ptr # Null
  <2>1. PICK p \in Addrs : p = i.ptr /\ p # Null
    BY <1>2, <1>3, <1>4, <1>6, MemTyped
  <2>2. PICK r \in Seen(p) :
            /\ watch' = CloseSocket(r, p, watch)
            /\ ghosts' = [ghosts EXCEPT
                  !.missed = IF Modifies(r) THEN @ ELSE @ \cup {mate[file[i.fd]]},
                  !.wild = @ \/ ~ Mutual(a, p)]
    BY <1>1, <1>3, <1>6, <2>1
  <2>3. PICK c \in Conns : c = file[i.fd]
    BY <1>1, <1>2, KernelTyped DEF AtEnd
  <2>4. PICK m \in 0..MaxConns : m = mate[c]
    BY <1>2, KernelTyped
  <2>5. PICK w \in BOOLEAN : w = (ghosts.wild \/ ~Mutual(a, p))
    OBVIOUS
  <2>6. PICK s \in SUBSET (0..MaxConns) : s = IF Modifies(r) THEN ghosts.missed ELSE ghosts.missed \cup {m}
    BY <1>2, GhostsTyped
  <2>7. ghosts' = [ghosts EXCEPT !.missed = s, !.wild = w]
    BY <1>2, <2>2, <2>3, <2>4, <2>5, <2>6 DEF DcTypes
  <2>8. /\ ghosts'.reset = ghosts.reset /\ ghosts'.unhooked = ghosts.unhooked
        /\ ghosts'.strayed = ghosts.strayed /\ ghosts'.missed = s /\ ghosts'.wild = w
        /\ ghosts'.torn = ghosts.torn
    BY <1>2, <2>7 DEF DcTypes
  <2>9. /\ mem' = [mem EXCEPT ![p].ptr = Null]
        /\ ep' = [at |-> "close", addr |-> a, fd |-> i.fd] /\ a # Null
    BY <1>1, <1>3, <1>6, <2>1, Numbers DEF TearDown
  <2>10. DcTypes'
    <3>1. [mem[p] EXCEPT !.ptr = Null] \in Info
      <4>1. \A j \in Info : [j EXCEPT !.ptr = Null] \in Info
        BY DEF Info
      <4> QED  BY <1>2, <4>1, MemTyped
    <3>2. mem' \in [Addrs -> Info]
      BY <1>2, <2>9, <3>1 DEF DcTypes
    <3>3. ep' \in [at : {"wait", "close", "ctl"}, addr : Addrs \cup {Null}, fd : 0..NFds]
      BY <1>4, <2>9
    <3>4. watch' \in [Fds -> Events \cup {NoWatch}]
      BY <1>2, <2>2, CloseSocketTyped
    <3>5. ghosts' \in [reset : SUBSET Conns, missed : SUBSET (0..MaxConns),
                       unhooked : SUBSET (0..MaxConns), late : SUBSET (0..MaxConns),
                       strayed : BOOLEAN, wild : BOOLEAN, torn : BOOLEAN]
      BY <1>2, <2>7 DEF DcTypes
    <3> QED  BY <1>2, <3>2, <3>3, <3>4, <3>5 DEF DcTypes
  <2>11. InHand'
    <3>1. \A b \in Addrs : mem'[b].fd = mem[b].fd
      BY <1>2, <2>9, MemTyped DEF DcTypes, Info
    <3>2. \A t \in Sides : \A k \in DOMAIN free[t] : free[t][k] \in Addrs
      BY <1>2 DEF DcTypes
    <3> QED  BY <1>2, <2>9, <3>1, <3>2 DEF InHand
  <2>12. KernelFits' /\ OneSide' /\ (SomeClosed <=> SomeClosed')
    BY <1>2, <2>8 DEF KernelFits, OneSide, SomeClosed
  <2>13. Tamed'
    <3>1. ghosts'.strayed => ghosts'.wild
      BY <1>2, <2>5, <2>8 DEF Tamed
    <3> QED  BY <1>2, <1>3, <1>4, <2>1, <2>5, <2>8, <2>12, <3>1, WildIsTamed
  <2>14. ASSUME ~ghosts'.wild PROVE Sound'
    <3>1. ~ghosts.wild /\ Mutual(a, p)
      BY <2>5, <2>8, <2>14
    <3>2. a \in live /\ p \in live /\ i = mem[a] /\ r = mem[p] /\ p = mem[a].ptr
      BY <1>2, <1>3, <1>4, <2>1, <2>2, <3>1, PartnerOf, SeenTyped
    <3>3. ghosts.missed \subseteq ghosts'.missed
      BY <2>6, <2>8
    <3>4. ~Modifies(mem[p]) => mate[ConnOf(a)] \in ghosts'.missed
      BY <2>3, <2>4, <2>6, <2>8, <3>2 DEF ConnOf
    <3>5. watch' = CloseSocket(mem[p], p, watch) /\ ep' = [at |-> "close", addr |-> a, fd |-> mem[a].fd]
      BY <2>2, <2>9, <3>2
    <3>6. CutOff(e, a, p)
      BY <1>2, <1>3, <2>1, <2>8, <2>9, <2>10, <3>1, <3>2, <3>3, <3>4, <3>5 DEF CutOff
    <3> QED  BY <3>1, <3>6, CutOffKeeps
  <2> QED  BY <2>10, <2>11, <2>12, <2>13, <2>14 DEF DcInv
<1> QED  BY <1>5, <1>6

\* Bytes are read and sent to the partner, or the connection is asked to close.
LEMMA HandleDataStep == ASSUME DcInv, NEW e \in batch, HandleData(e) PROVE DcInv'
<1>1. /\ DcTypes /\ InHand /\ KernelFits /\ OneSide /\ Tamed /\ ep.at = "wait"
      /\ UNCHANGED <<file, mem, live, free, busy, acc, ep, chan, del, accepted, mate>>
      /\ batch' \subseteq batch
  BY DEF DcInv, HandleData, TakeIn, Take, queues
<1>2. PICK a \in Addrs : a = e.ptr
  BY <1>1, WatchTyped
<1>3. PICK i \in Seen(a) :
          /\ Open(i.fd)
          /\ \/ /\ i.ptr = Null
                /\ peer' = [peer EXCEPT ![file[i.fd]].rx = 0]
                /\ watch' = CloseSocket(i, a, watch)
                /\ UNCHANGED ghosts
             \/ /\ i.ptr # Null
                /\ \E r \in Seen(i.ptr) :
                      LET d == IF Open(r.fd) THEN file[r.fd] ELSE NoConn IN
                      /\ peer' = [x \in Conns |->
                                    IF x = file[i.fd] THEN [peer[file[i.fd]] EXCEPT !.rx = 0]
                                    ELSE IF x = d /\ peer[d].state = "rst"
                                         THEN [peer[d] EXCEPT !.state = "eof"]
                                         ELSE peer[x]]
                      /\ ghosts' = [ghosts EXCEPT
                                      !.strayed = @ \/ d \notin {NoConn, mate[file[i.fd]]},
                                      !.wild = @ \/ ~ Mutual(a, i.ptr)]
                /\ UNCHANGED watch
  BY <1>2 DEF HandleData
<1>4. PICK c \in Conns : c = file[i.fd]
  BY <1>1, <1>3, KernelTyped
<1>5. i \in Info /\ i.fd \in 0..NFds /\ i.ptr = mem[a].ptr /\ (a \in live => i = mem[a])
  BY <1>1, <1>3, SeenTyped
<1> DEFINE P == [state : Alive \cup {"none", "closed"}, side : Sides, rx : 0..1]
<1>6. /\ \A q \in P : [q EXCEPT !.rx = 0] \in P /\ [q EXCEPT !.rx = 0].state = q.state
      /\ \A q \in P : [q EXCEPT !.state = "eof"] \in P /\ [q EXCEPT !.state = "eof"].state = "eof"
  <2>1. PICK z \in 0..1 : z = 0
    OBVIOUS
  <2>2. \A q \in P : [q EXCEPT !.rx = z] \in P /\ [q EXCEPT !.rx = z].state = q.state
    OBVIOUS
  <2>3. \A q \in P : [q EXCEPT !.state = "eof"] \in P /\ [q EXCEPT !.state = "eof"].state = "eof"
    BY DEF Alive
  <2> QED  BY <2>1, <2>2, <2>3
<1>7. ASSUME peer' \in [Conns -> P],
             \A x \in Conns : peer'[x].state = peer[x].state
                              \/ (peer[x].state = "rst" /\ peer'[x].state = "eof"),
             ghosts'.reset = ghosts.reset
      PROVE  InHand' /\ KernelFits' /\ OneSide' /\ (SomeClosed => SomeClosed')
  <2>1. InHand' /\ OneSide'
    BY <1>1 DEF InHand, OneSide
  <2>2. KernelFits'
    BY <1>1, <1>7, KernelTyped DEF KernelFits, Alive
  <2>3. SomeClosed => SomeClosed'
    BY <1>1, <1>7 DEF SomeClosed
  <2> QED  BY <2>1, <2>2, <2>3
<1>8. CASE i.ptr = Null
  <2>1. peer' = [peer EXCEPT ![c].rx = 0] /\ watch' = CloseSocket(i, a, watch) /\ ghosts' = ghosts
    BY <1>3, <1>4, <1>8
  <2>2. peer' \in [Conns -> P] /\ \A x \in Conns : peer'[x].state = peer[x].state
    BY <1>1, <1>6, <2>1 DEF DcTypes
  <2>3. InHand' /\ KernelFits' /\ OneSide' /\ (SomeClosed => SomeClosed')
    BY <1>7, <2>1, <2>2
  <2>4. Tamed'
    BY <1>1, <2>1, <2>3 DEF Tamed
  <2>5. DcTypes'
    BY <1>1, <2>1, <2>2, CloseSocketTyped DEF DcTypes
  <2>6. ASSUME ~ghosts'.wild PROVE Sound'
    <3>1. ~ghosts.wild /\ Sound
      BY <2>1, <2>6 DEF DcInv
    <3>2. a \in live /\ mem[a].joined /\ ~Torn(a) /\ i = mem[a]
      BY <1>1, <1>2, <1>5, <3>1 DEF Sound, BatchFits, Torn
    <3>3. Untold(a)'
      BY <1>1, <1>5, <1>8 DEF Untold
    <3>4. \/ watch' = watch
          \/ watch' = [watch EXCEPT ![mem[a].fd] = [ev |-> "out", ptr |-> a]]
      BY <1>1, <2>1, <3>2, CloseSocketTyped
    <3>5. QueuesFit' /\ Holding'
      BY <1>1, <2>3, <3>1, HoldingKept DEF Sound, QueuesFit
    <3> QED  BY <1>1, <2>1, <2>3, <2>5, <3>1, <3>2, <3>3, <3>4, <3>5, QuietStep
  <2> QED  BY <2>3, <2>4, <2>5, <2>6 DEF DcInv
<1>9. CASE i.ptr # Null
  <2>1. PICK p \in Addrs : p = i.ptr /\ p # Null
    BY <1>1, <1>5, <1>9, MemTyped
  <2>2. PICK r \in Seen(p) :
            LET d == IF Open(r.fd) THEN file[r.fd] ELSE NoConn IN
            /\ peer' = [x \in Conns |->
                          IF x = file[i.fd] THEN [peer[file[i.fd]] EXCEPT !.rx = 0]
                          ELSE IF x = d /\ peer[d].state = "rst"
                               THEN [peer[d] EXCEPT !.state = "eof"]
                               ELSE peer[x]]
            /\ ghosts' = [ghosts EXCEPT
                            !.strayed = @ \/ d \notin {NoConn, mate[file[i.fd]]},
                            !.wild = @ \/ ~ Mutual(a, i.ptr)]
            /\ watch' = watch
    BY <1>3, <1>9, <2>1
  <2>3. PICK d : d = IF Open(r.fd) THEN file[r.fd] ELSE NoConn
    OBVIOUS
  <2>4. PICK w \in BOOLEAN : w = (ghosts.wild \/ ~Mutual(a, p))
    OBVIOUS
  <2>5. PICK s \in BOOLEAN : s = (ghosts.strayed \/ d \notin {NoConn, mate[c]})
    OBVIOUS
  <2>6. /\ peer' = [x \in Conns |->
                      IF x = c THEN [peer[c] EXCEPT !.rx = 0]
                      ELSE IF x = d /\ peer[d].state = "rst"
                           THEN [peer[d] EXCEPT !.state = "eof"]
                           ELSE peer[x]]
        /\ ghosts' = [ghosts EXCEPT !.strayed = s, !.wild = w]
        /\ watch' = watch
    BY <1>1, <1>4, <2>1, <2>2, <2>3, <2>4, <2>5 DEF DcTypes
  <2>7. /\ ghosts'.reset = ghosts.reset /\ ghosts'.unhooked = ghosts.unhooked
        /\ ghosts'.missed = ghosts.missed /\ ghosts'.strayed = s /\ ghosts'.wild = w
        /\ ghosts'.torn = ghosts.torn
        /\ ghosts' \in [reset : SUBSET Conns, missed : SUBSET (0..MaxConns),
                        unhooked : SUBSET (0..MaxConns), late : SUBSET (0..MaxConns),
                        strayed : BOOLEAN, wild : BOOLEAN, torn : BOOLEAN]
    BY <1>1, <2>6 DEF DcTypes
  <2>8. \A x \in Conns : peer[x] \in P
    BY <1>1 DEF DcTypes
  <2>9. \A x \in Conns : /\ peer'[x] \in P
                         /\ peer'[x].state = peer[x].state
                            \/ (peer[x].state = "rst" /\ peer'[x].state = "eof")
    BY <1>6, <2>6, <2>8
  <2>10. peer' \in [Conns -> P]
    BY <2>6, <2>9
  <2>11. InHand' /\ KernelFits' /\ OneSide' /\ (SomeClosed => SomeClosed')
    BY <1>7, <2>7, <2>9, <2>10
  <2>12. DcTypes'
    BY <1>1, <2>6, <2>7, <2>10 DEF DcTypes
  <2>13. s => w
    <3>1. SUFFICES ASSUME s, ~w PROVE FALSE
      OBVIOUS
    <3>2. ~ghosts.wild /\ Mutual(a, p) /\ ~ghosts.strayed /\ p = mem[a].ptr
      BY <1>1, <1>5, <2>1, <2>4, <3>1 DEF Tamed
    <3>3. /\ a \in live /\ p \in live /\ mate[ConnOf(a)] = ConnOf(p)
          /\ i = mem[a] /\ r = mem[p]
      BY <1>1, <1>2, <1>5, <2>1, <2>2, <3>2, PartnerOf, SeenTyped
    <3>4. d \in {NoConn, mate[c]}
      BY <1>4, <2>3, <3>3 DEF ConnOf
    <3> QED  BY <2>5, <3>1, <3>2, <3>4
  <2>14. Tamed'
    <3>1. p = mem[a].ptr
      BY <1>5, <2>1
    <3> QED  BY <1>1, <1>2, <2>1, <2>4, <2>7, <2>11, <2>13, <3>1, WildIsTamed
  <2>15. ASSUME ~ghosts'.wild PROVE Sound'
    <3>1. ~ghosts.wild /\ Sound
      BY <2>4, <2>7, <2>15 DEF DcInv
    <3>2. QueuesFit' /\ Holding'
      BY <1>1, <2>11, <3>1, HoldingKept DEF Sound, QueuesFit
    <3> QED  BY <1>1, <2>6, <2>7, <2>11, <2>12, <3>1, <3>2, QuietStep
  <2> QED  BY <2>11, <2>12, <2>14, <2>15 DEF DcInv
<1> QED  BY <1>8, <1>9

\* ::close frees the number of a connection that was relayed.
LEMMA CloseFdStep == ASSUME DcInv, CloseFd PROVE DcInv'
<1>1. /\ DcTypes /\ InHand /\ KernelFits /\ OneSide /\ Tamed /\ ep.at = "close"
      /\ UNCHANGED <<mem, live, free, busy, acc, batch, chan, del, accepted, mate, ghosts>>
      /\ ep' = [ep EXCEPT !.at = "ctl"]
  BY DEF DcInv, CloseFd, queues
<1>2. /\ ep'.at = "ctl" /\ ep'.addr = ep.addr /\ ep'.fd = ep.fd
      /\ ep' \in [at : {"wait", "close", "ctl"}, addr : Addrs \cup {Null}, fd : 0..NFds]
  BY <1>1 DEF DcTypes
<1> DEFINE P == [state : Alive \cup {"none", "closed"}, side : Sides, rx : 0..1]
<1>3. /\ file' \in [Fds -> 0..MaxConns] /\ watch' \in [Fds -> Events \cup {NoWatch}]
      /\ peer' \in [Conns -> P]
      /\ \A f \in Fds : f # ep.fd => file'[f] = file[f] /\ watch'[f] = watch[f]
      /\ \A f \in Fds : f = ep.fd => /\ file'[f] = NoConn
                                     /\ Open(f) => watch'[f] = NoWatch
                                     /\ watch'[f] \in {watch[f], NoWatch}
      /\ \A c \in Conns : \/ peer'[c] = peer[c] /\ (Open(ep.fd) => file[ep.fd] # c)
                          \/ Open(ep.fd) /\ c = file[ep.fd] /\ peer'[c].state = "closed"
  <2>1. CASE Open(ep.fd)
    <3>1. PICK f \in Fds : f = ep.fd
      BY <2>1 DEF Open
    <3>2. PICK c \in Conns : c = file[f]
      BY <1>1, <2>1, <3>1, KernelTyped
    <3>3. PICK z \in 0..1 : z = 0
      OBVIOUS
    <3>4. PICK n \in 0..MaxConns : n = NoConn
      BY Numbers
    <3>5. PICK q \in P : q = [peer[c] EXCEPT !.state = "closed", !.rx = z] /\ q.state = "closed"
      <4>1. \A q \in P : [q EXCEPT !.state = "closed", !.rx = z] \in P
                         /\ [q EXCEPT !.state = "closed", !.rx = z].state = "closed"
        BY <3>3
      <4>2. peer[c] \in P
        BY <1>1 DEF DcTypes
      <4> QED  BY <4>1, <4>2
    <3>6. /\ file' = [file EXCEPT ![f] = n] /\ watch' = [watch EXCEPT ![f] = NoWatch]
          /\ peer' = [peer EXCEPT ![c] = q]
      BY <2>1, <3>1, <3>2, <3>3, <3>4, <3>5 DEF CloseFd
    <3> QED  BY <1>1, <2>1, <3>1, <3>2, <3>4, <3>5, <3>6 DEF DcTypes
  <2>2. CASE ~Open(ep.fd)
    BY <1>1, <2>2 DEF CloseFd, kernel, DcTypes, Open
  <2> QED  BY <2>1, <2>2
<1>4. DcTypes'
  BY <1>1, <1>2, <1>3 DEF DcTypes
<1>5. InHand' /\ OneSide'
  BY <1>1, <1>2 DEF InHand, OneSide
<1>6. KernelFits'
  <2>1. \A f \in Fds : file'[f] # NoConn => f # ep.fd /\ file'[f] = file[f]
    BY <1>3
  <2>2. \A f \in Fds : file'[f] # NoConn => file[f] \in Conns /\ peer'[file[f]] = peer[file[f]]
    BY <1>1, <1>3, <2>1, KernelTyped DEF KernelFits
  <2>3. \A f \in Fds : file'[f] # NoConn => file'[f] <= accepted /\ peer'[file'[f]].state \in Alive
    BY <1>1, <2>1, <2>2 DEF KernelFits
  <2>4. \A f, g \in Fds : file'[f] = file'[g] /\ file'[f] # NoConn => f = g
    BY <1>1, <2>1 DEF KernelFits
  <2>5. \A c \in Conns : c > accepted => ~(Open(ep.fd) /\ c = file[ep.fd])
    BY <1>1, KernelTyped, Numbers DEF KernelFits
  <2>6. \A c \in Conns : c > accepted => peer'[c].state = "none" /\ mate[c] = NoConn
    BY <1>1, <1>3, <2>5 DEF KernelFits
  <2>7. \A c \in Conns : peer'[c].state \in {"rst", "eof"} => c \in ghosts.reset
    BY <1>1, <1>3 DEF KernelFits
  <2> QED  BY <1>1, <2>3, <2>4, <2>6, <2>7 DEF KernelFits
<1>7. SomeClosed => SomeClosed'
  BY <1>1, <1>3 DEF SomeClosed
<1>8. Tamed'
  BY <1>1, <1>7 DEF Tamed
<1>9. ASSUME ~ghosts'.wild PROVE Sound'
  <2>1. Sound /\ ~ghosts.wild
    BY <1>1, <1>9 DEF DcInv
  <2>2. PICK a \in live : a = ep.addr /\ ep.fd = mem[a].fd /\ mem[a].joined
    BY <1>1, <2>1 DEF Sound, TearingDown
  <2>3. /\ \A b : ~Torn(b) /\ (Torn(b)' <=> b = a)
    BY <1>1, <1>2, <2>2 DEF Torn
  <2>4. ep.fd \in Fds /\ Open(ep.fd) /\ file[ep.fd] = ConnOf(a) /\ ConnOf(a) \in Conns
    BY <1>1, <2>1, <2>2, <2>3, OwnConn DEF Sound, ConnOf
  <2>5. mate[ConnOf(a)] # NoConn
    BY <2>1, <2>2, <2>3 DEF Sound, PairedFirst
  <2>6. SomeClosed'
    BY <1>1, <1>3, <2>4, <2>5 DEF SomeClosed
  <2>7. \A b \in live : b # a => mem[b].fd \in Fds /\ mem[b].fd # ep.fd
    BY <2>1, <2>2, <2>3 DEF Sound, FdsOwned
  <2>8. \A b \in live : b # a => /\ ConnOf(b)' = ConnOf(b) /\ watch'[mem[b].fd] = watch[mem[b].fd]
                                 /\ file'[mem[b].fd] = file[mem[b].fd]
                                 /\ (Excused(b) => Excused(b)')
    BY <1>1, <1>3, <2>6, <2>7 DEF ConnOf, Excused
  <2>9. \A b, q : (Untold(b)' <=> Untold(b)) /\ (Mutual(b, q)' <=> Mutual(b, q))
    BY <1>1 DEF Untold, Mutual
  <2>10. FdsOwned'
    <3>1. \A b \in live : mem[b].fd \in Fds /\ (b # a => Open(mem[b].fd)')
      BY <1>1, <2>1, <2>3, <2>8 DEF Sound, FdsOwned, Open
    <3>2. acc.at = "accepted" => acc.fd # ep.fd /\ acc.fd \in Fds
      BY <1>1, <2>1, <2>2, <2>3, Numbers DEF Sound, FdsOwned
    <3>3. acc.at = "accepted" => file'[acc.fd] = file[acc.fd] /\ watch'[acc.fd] = watch[acc.fd]
      BY <1>3, <3>2
    <3> QED  BY <1>1, <2>1, <2>3, <3>1, <3>3 DEF Sound, FdsOwned, Open
  <2>11. TearingDown'
    BY <1>1, <1>2, <2>2, <2>6 DEF TearingDown
  <2>12. PairedFirst'
    BY <1>1, <2>1, <2>3, <2>8 DEF Sound, PairedFirst
  <2>13. WatchFits'
    <3>1. SUFFICES ASSUME NEW f \in Fds, watch'[f].ev # "none", NEW b, b = watch'[f].ptr
                   PROVE  /\ b \in live /\ mem[b].joined /\ mem[b].fd = f /\ b # a
                          /\ watch'[f].ev = "out" => Untold(b)
      BY <1>1, <2>3, <2>9 DEF WatchFits
    <3>2. f # ep.fd
      BY <1>3, <2>4, <3>1, WatchTyped, <1>1
    <3> QED  BY <1>3, <2>1, <2>2, <3>1, <3>2 DEF Sound, WatchFits
  <2>14. BatchFits'
    BY <1>1, <1>2, <2>1, <2>9 DEF Sound, BatchFits
  <2>15. JoinedWatched'
    BY <1>1, <1>2, <2>1, <2>2, <2>8 DEF Sound, JoinedWatched
  <2>16. Linked'
    <3>1. SUFFICES ASSUME NEW b \in live, NEW p, p = mem[b].ptr, b # a, p \notin {Null, b}
                   PROVE  \/ Mutual(b, p) /\ p # a /\ mate[ConnOf(b)] = ConnOf(p)'
                          \/ (Mutual(b, p) => p = a) /\ Excused(b)'
      BY <1>1, <1>2, <2>2, <2>8, <2>9 DEF Linked
    <3>2. Mutual(b, p) /\ p # a => ConnOf(p)' = ConnOf(p)
      BY <2>8 DEF Mutual
    <3> QED  BY <2>1, <2>2, <2>8, <3>1, <3>2 DEF Sound, Linked
  <2>17. Orphans'
    BY <1>1, <1>2, <2>1, <2>2, <2>8 DEF Sound, Orphans
  <2>18. QueuesFit'
    BY <1>1, <2>1, <2>6 DEF Sound, QueuesFit
  <2>19. Holding'
    BY <1>1, <2>1, HoldingKept DEF Sound
  <2> QED  BY <2>10, <2>11, <2>12, <2>13, <2>14, <2>15, <2>16, <2>17, <2>18, <2>19 DEF Sound
<1> QED  BY <1>4, <1>5, <1>6, <1>8, <1>9 DEF DcInv

\* The late EPOLL_CTL_DEL may remove the registration of another; then the block is freed.
LEMMA DelInfoStep == ASSUME DcInv, DelInfo PROVE DcInv'
<1>1. /\ DcTypes /\ InHand /\ KernelFits /\ OneSide /\ Tamed /\ ep.at = "ctl"
      /\ UNCHANGED <<peer, file, mem, free, busy, acc, batch, chan, del, accepted, mate>>
      /\ ep' = Waiting /\ live' = live \ {ep.addr}
      /\ watch' = IF Open(ep.fd) THEN [watch EXCEPT ![ep.fd] = NoWatch] ELSE watch
      /\ ghosts' = IF Open(ep.fd) /\ watch[ep.fd] # NoWatch
                   THEN [ghosts EXCEPT !.unhooked = ghosts.unhooked \cup {file[ep.fd]}] ELSE ghosts
  BY DEF DcInv, DelInfo, queues
<1>2. ep'.at = "wait" /\ ep'.addr = Null
  BY <1>1, IdleTyped
<1>3. /\ watch' \in [Fds -> Events \cup {NoWatch}]
      /\ \A f \in Fds : watch'[f] = watch[f] \/ (watch'[f] = NoWatch /\ f = ep.fd /\ Open(ep.fd))
  BY <1>1 DEF DcTypes
<1>4. /\ ghosts' \in [reset : SUBSET Conns, missed : SUBSET (0..MaxConns),
                      unhooked : SUBSET (0..MaxConns), late : SUBSET (0..MaxConns),
                      strayed : BOOLEAN, wild : BOOLEAN, torn : BOOLEAN]
      /\ ghosts'.reset = ghosts.reset /\ ghosts'.missed = ghosts.missed
      /\ ghosts'.strayed = ghosts.strayed /\ ghosts'.wild = ghosts.wild
      /\ ghosts'.torn = ghosts.torn
      /\ ghosts.unhooked \subseteq ghosts'.unhooked
      /\ Open(ep.fd) /\ watch[ep.fd] # NoWatch => file[ep.fd] \in ghosts'.unhooked
  <2>1. CASE Open(ep.fd) /\ watch[ep.fd] # NoWatch
    <3>1. PICK c \in 0..MaxConns : c = file[ep.fd]
      BY <1>1, <2>1, KernelTyped, Numbers
    <3>2. PICK u \in SUBSET (0..MaxConns) : u = ghosts.unhooked \cup {c}
      BY <1>1, GhostsTyped
    <3>3. ghosts' = [ghosts EXCEPT !.unhooked = u]
      BY <1>1, <2>1, <3>1, <3>2
    <3> QED  BY <1>1, <3>1, <3>2, <3>3 DEF DcTypes
  <2>2. CASE ~(Open(ep.fd) /\ watch[ep.fd] # NoWatch)
    BY <1>1, <2>2 DEF DcTypes
  <2> QED  BY <2>1, <2>2
<1>5. DcTypes'
  BY <1>1, <1>3, <1>4, IdleTyped DEF DcTypes
<1>6. InHand' /\ KernelFits' /\ OneSide' /\ (SomeClosed <=> SomeClosed')
  BY <1>1, <1>2, <1>4 DEF InHand, KernelFits, OneSide, SomeClosed
<1>7. Tamed'
  BY <1>1, <1>4, <1>6 DEF Tamed
<1>8. ASSUME ~ghosts'.wild PROVE Sound'
  <2>1. Sound /\ ~ghosts.wild
    BY <1>4, <1>8 DEF DcInv
  <2>2. PICK a \in live : a = ep.addr /\ ep.fd = mem[a].fd /\ mem[a].joined /\ mem[a].ptr # a
    BY <1>1, <2>1 DEF Sound, TearingDown, PairedFirst
  <2>3. SomeClosed /\ SomeClosed'
    BY <1>1, <1>6, <2>1 DEF Sound, TearingDown
  <2>4. \A b : /\ (Torn(b) <=> b = a) /\ ~Torn(b)' /\ (Open(b)' <=> Open(b))
               /\ ConnOf(b)' = ConnOf(b) /\ (Untold(b)' <=> Untold(b))
               /\ (Excused(b) => Excused(b)')
    BY <1>1, <1>2, <1>4, <2>2, <2>3 DEF Torn, Open, ConnOf, Untold, Excused
  <2>5. \A b : b \in live' <=> b \in live /\ b # a
    BY <1>1, <2>2
  <2>6. \A b \in live' : b # Null /\ b # ep.addr
    BY <1>1, <2>2, <2>5, MemTyped, Numbers
  <2>7. FdsOwned'
    <3>1. acc.at = "accepted" => watch'[acc.fd] = NoWatch
      BY <1>1, <1>3, <2>1, KernelTyped DEF Sound, FdsOwned
    <3> QED  BY <1>1, <2>1, <2>4, <2>5, <3>1 DEF Sound, FdsOwned
  <2>8. TearingDown'
    BY <1>2 DEF TearingDown
  <2>9. PairedFirst'
    BY <1>1, <2>1, <2>2, <2>4, <2>5 DEF Sound, PairedFirst
  <2>10. WatchFits'
    <3>1. \A f \in Fds : watch'[f].ev # "none" => watch'[f] = watch[f]
      BY <1>1, <1>3, WatchTyped
    <3> QED  BY <1>1, <2>1, <2>4, <2>5, <3>1 DEF Sound, WatchFits
  <2>11. BatchFits'
    <3>1. \A e \in batch : e.ptr \in live' /\ e.ptr # Null
      BY <2>1, <2>2, <2>5, <2>6 DEF Sound, BatchFits
    <3> QED  BY <1>1, <1>2, <2>1, <2>4, <3>1 DEF Sound, BatchFits
  <2>12. ASSUME NEW b \in live'
         PROVE  \/ watch'[mem[b].fd] = watch[mem[b].fd]
                \/ watch[mem[b].fd] # NoWatch /\ ConnOf(b) \in ghosts'.unhooked
    <3>1. mem[b].fd \in Fds
      BY <2>1, <2>4, <2>5 DEF Sound, FdsOwned
    <3>2. CASE watch[mem[b].fd] = NoWatch
      BY <1>3, <3>1, <3>2
    <3>3. CASE watch[mem[b].fd] # NoWatch
      BY <1>3, <1>4, <3>1, <3>3 DEF ConnOf
    <3> QED  BY <3>2, <3>3
  <2>13. JoinedWatched'
    <3>1. SUFFICES ASSUME NEW b \in live', mem[b].joined
                   PROVE  watch'[mem[b].fd].ptr = b \/ ConnOf(b) \in ghosts'.unhooked
      BY <1>1, <2>4 DEF JoinedWatched
    <3>2. watch[mem[b].fd].ptr = b \/ ConnOf(b) \in ghosts.unhooked
      BY <2>1, <2>5, <2>6, <3>1 DEF Sound, JoinedWatched
    <3>3. CASE watch'[mem[b].fd] = watch[mem[b].fd]
      BY <1>4, <3>2, <3>3
    <3> QED  BY <2>12, <3>3
  <2>14. Linked'
    <3>1. SUFFICES ASSUME NEW b \in live', NEW p, p = mem[b].ptr, p \notin {Null, b}
                   PROVE  \/ Mutual(b, p)' /\ mate[ConnOf(b)] = ConnOf(p)
                          \/ ~Mutual(b, p)' /\ Excused(b)'
      BY <1>1, <1>2, <2>4 DEF Linked
    <3>2. Mutual(b, p)' <=> Mutual(b, p) /\ p # a
      BY <1>1, <2>5 DEF Mutual
    <3>3. \/ Mutual(b, p) /\ p # ep.addr /\ mate[ConnOf(b)] = ConnOf(p)
          \/ (Mutual(b, p) => p = ep.addr) /\ Excused(b)
      BY <2>1, <2>5, <2>6, <3>1 DEF Sound, Linked
    <3> QED  BY <2>2, <2>4, <3>2, <3>3
  <2>15. Orphans'
    <3>1. SUFFICES ASSUME NEW b \in live', mem[b].ptr = Null
                   PROVE  \/ mem[b].joined /\ watch'[mem[b].fd] = [ev |-> "out", ptr |-> b]
                          \/ mem[b].joined /\ ConnOf(b) \in ghosts'.unhooked
                          \/ ConnOf(b) \in ghosts'.missed
      BY <1>1, <2>4 DEF Orphans
    <3>2. \/ mem[b].joined /\ watch[mem[b].fd] = [ev |-> "out", ptr |-> b]
          \/ mem[b].joined /\ ConnOf(b) \in ghosts.unhooked
          \/ ConnOf(b) \in ghosts.missed
      BY <2>1, <2>5, <2>6, <3>1 DEF Sound, Orphans
    <3>3. CASE watch'[mem[b].fd] = watch[mem[b].fd]
      BY <1>4, <3>2, <3>3
    <3>4. CASE ConnOf(b) \in ghosts'.unhooked
      BY <1>4, <3>2, <3>4
    <3> QED  BY <2>12, <3>3, <3>4
  <2>16. QueuesFit'
    BY <1>1, <2>1, <2>2, <2>3, <2>5 DEF Sound, QueuesFit
  <2>17. Holding'
    <3>1. Second' = Second /\ UNCHANGED <<acc, mem, free>> /\ Holding
      BY <1>1, <2>1 DEF Second, Sound
    <3>2. \A b \in live : ~mem[b].joined \/ mem[b].ptr = b => b \in live'
      BY <2>2, <2>5
    <3> QED  BY <3>1, <3>2 DEF Holding
  <2> QED  BY <2>7, <2>8, <2>9, <2>10, <2>11, <2>13, <2>14, <2>15, <2>16, <2>17 DEF Sound
<1> QED  BY <1>5, <1>6, <1>7, <1>8 DEF DcInv

-----------------------------------------------------------------------------
(***************************************************************************)
(* The business thread empties the queues.                                 *)
(***************************************************************************)
\* The queues n hold what those of q hold, but for heads that were popped.
Rest(q, n) ==
    /\ n \in [Sides -> Seq(Addrs)]
    /\ \A s \in Sides : q[s] = <<>> => n[s] = <<>>
    /\ \A s \in Sides : \A k \in DOMAIN n[s] :
           \E l \in DOMAIN q[s] : n[s][k] = q[s][l] /\ (l = 1 => k = 1)
    /\ (\A s \in Sides : \A k, l \in DOMAIN q[s] : q[s][k] = q[s][l] => k = l)
       => \A s \in Sides : \A k, l \in DOMAIN n[s] : n[s][k] = n[s][l] => k = l

\* What is left of the queues when one of them is popped.
LEMMA Popped ==
    ASSUME DcTypes, NEW q, q \in {free, busy}, NEW t \in Sides, q[t] # <<>>,
           NEW n, n = [q EXCEPT ![t] = Tail(q[t])]
    PROVE  Rest(q, n)
<1>1. q \in [Sides -> Seq(Addrs)]
  BY DEF DcTypes
<1>2. PICK z \in Seq(Addrs) : z = q[t] /\ z # <<>>
  BY <1>1
<1>3. /\ Tail(z) \in Seq(Addrs) /\ Head(z) \in Addrs /\ 1 \in DOMAIN z /\ Head(z) = z[1]
      /\ \A k \in DOMAIN Tail(z) : k + 1 \in DOMAIN z /\ Tail(z)[k] = z[k + 1] /\ k \in Int /\ k + 1 # 1
  BY <1>2, Shortened
<1>4. \A s \in Sides : n[s] = IF s = t THEN Tail(z) ELSE q[s]
  BY <1>1, <1>2
<1>5. n \in [Sides -> Seq(Addrs)]
  BY <1>1, <1>2, <1>3
<1>6. \A s \in Sides : q[s] = <<>> => n[s] = <<>>
  BY <1>2, <1>4
<1>7. \A s \in Sides : \A k \in DOMAIN n[s] :
          \E l \in DOMAIN q[s] : n[s][k] = q[s][l] /\ (l = 1 => k = 1)
  BY <1>2, <1>3, <1>4
<1>8. ASSUME \A s \in Sides : \A k, l \in DOMAIN q[s] : q[s][k] = q[s][l] => k = l
      PROVE  \A s \in Sides : \A k, l \in DOMAIN n[s] : n[s][k] = n[s][l] => k = l
  <2>1. SUFFICES ASSUME NEW s \in Sides, NEW k \in DOMAIN n[s], NEW l \in DOMAIN n[s],
                        n[s][k] = n[s][l]
                 PROVE  k = l
    OBVIOUS
  <2>2. CASE s = t
    <3>1. k \in DOMAIN Tail(z) /\ l \in DOMAIN Tail(z) /\ Tail(z)[k] = Tail(z)[l]
      BY <1>4, <2>1, <2>2
    <3>2. /\ k \in Int /\ l \in Int /\ k + 1 \in DOMAIN z /\ l + 1 \in DOMAIN z
          /\ z[k + 1] = z[l + 1]
      BY <1>3, <3>1
    <3>3. k + 1 = l + 1
      BY <1>2, <1>8, <2>2, <3>2
    <3> QED  BY <3>2, <3>3
  <2>3. CASE s # t
    BY <1>4, <1>8, <2>1, <2>3
  <2> QED  BY <2>2, <2>3
<1> QED  BY <1>5, <1>6, <1>7, <1>8 DEF Rest

\* A queue of those that wait is looked at, or popped; nothing is closed.
LEMMA FreeKeeps ==
    ASSUME DcInv, chan # "open",
           UNCHANGED <<peer, file, watch, mem, live, busy, acc, ep, batch, chan, accepted, mate>>,
           NEW q, Tears(q) \/ (UNCHANGED ghosts /\ q # <<>>),
           del' \in [loop : 1..4, at : {"test", "front", "pop", "close"}, addr : Addrs \cup {Null}],
           del'.at \in {"pop", "close"} => del'.addr \in Addrs,
           del'.at \in {"pop", "close"} /\ q # <<>> /\ ~ghosts.wild => del'.addr \in live \/ SomeClosed,
           Rest(free, free')
    PROVE  DcInv'
<1>1. DcTypes /\ InHand /\ KernelFits /\ OneSide /\ Tamed
  BY DEF DcInv
<1>7. /\ free' \in [Sides -> Seq(Addrs)]
      /\ \A s \in Sides : free[s] = <<>> => free'[s] = <<>>
      /\ \A s \in Sides : \A k \in DOMAIN free'[s] :
             \E l \in DOMAIN free[s] : free'[s][k] = free[s][l] /\ (l = 1 => k = 1)
      /\ (\A s \in Sides : \A k, l \in DOMAIN free[s] : free[s][k] = free[s][l] => k = l)
         => \A s \in Sides : \A k, l \in DOMAIN free'[s] : free'[s][k] = free'[s][l] => k = l
  BY DEF Rest
<1>2. /\ Tamed' /\ ghosts' \in [reset : SUBSET Conns, missed : SUBSET (0..MaxConns),
                                unhooked : SUBSET (0..MaxConns), late : SUBSET (0..MaxConns),
                                strayed : BOOLEAN, wild : BOOLEAN, torn : BOOLEAN]
      /\ ~ghosts'.wild => ghosts' = ghosts /\ q # <<>>
      /\ ghosts'.reset = ghosts.reset
  <2>1. CASE Tears(q)
    BY <1>1, <2>1, TearsKeeps
  <2>2. CASE UNCHANGED ghosts /\ q # <<>>
    BY <1>1, <2>2 DEF DcTypes, Tamed, SomeClosed
  <2> QED  BY <2>1, <2>2
<1>3. DcTypes'
  BY <1>1, <1>2, <1>7 DEF DcTypes
<1>4. KernelFits' /\ OneSide' /\ (SomeClosed <=> SomeClosed')
  BY <1>1, <1>2, <1>7 DEF KernelFits, OneSide, SomeClosed, Sides
<1>5. InHand'
  BY <1>1 DEF InHand
<1>6. ASSUME ~ghosts'.wild PROVE Sound'
  <2>1. Sound /\ ~ghosts.wild /\ ghosts' = ghosts /\ q # <<>>
    BY <1>2, <1>6 DEF DcInv
  <2>2. Holding'
    <3>1. Second' = Second /\ Holding
      BY <2>1 DEF Second, Sound
    <3>2. acc.at \in {"look", "front", "pop"} =>
              \A s \in Sides : \A k \in DOMAIN free'[s] : free'[s][k] # acc.me
      BY <1>7, <3>1 DEF Holding
    <3>3. acc.at = "pop" => \A s \in Sides : \A k \in DOMAIN free'[s] :
                                free'[s][k] = acc.other => s = Other(acc.side) /\ k = 1
      BY <1>7, <3>1 DEF Holding
    <3> QED  BY <3>1, <3>2, <3>3 DEF Holding
  <2>3. QueuesFit'
    <3>1. \A s \in Sides : \A k \in DOMAIN free'[s] :
              free'[s][k] \in live /\ mem[free'[s][k]].ptr = free'[s][k]
      BY <1>7, <2>1 DEF Sound, QueuesFit
    <3> QED  BY <1>4, <1>7, <2>1, <3>1 DEF Sound, QueuesFit
  <2> QED  BY <1>3, <1>4, <2>1, <2>2, <2>3, QuietStep
<1> QED  BY <1>2, <1>3, <1>4, <1>5, <1>6 DEF DcInv

\* A connection that was queued is asked to close.
LEMMA CloseQueuedKeeps ==
    ASSUME DcInv, chan # "open", NEW a \in Addrs, CloseQueued(a),
           ~ghosts.wild => a \in live \/ SomeClosed,
           UNCHANGED <<peer, file, mem, live, free, acc, ep, batch, chan, accepted, mate>>,
           Rest(busy, busy'),
           del' \in [loop : 1..4, at : {"test", "front", "pop", "close"}, addr : Addrs \cup {Null}],
           del' = del \/ del'.at = "test"
    PROVE  DcInv'
<1>2. DcTypes /\ InHand /\ KernelFits /\ OneSide /\ Tamed
  BY DEF DcInv
<1>4. PICK i \in Seen(a) :
          /\ watch' = CloseSocket(i, a, watch)
          /\ ghosts' = [ghosts EXCEPT
                !.missed = IF Open(i.fd) /\ ~ Modifies(i) THEN @ \cup {file[i.fd]} ELSE @,
                !.wild = @ \/ Stale(a, i)]
  BY DEF CloseQueued
<1>6. /\ ghosts' \in [reset : SUBSET Conns, missed : SUBSET (0..MaxConns),
                      unhooked : SUBSET (0..MaxConns), late : SUBSET (0..MaxConns),
                      strayed : BOOLEAN, wild : BOOLEAN, torn : BOOLEAN]
      /\ ghosts'.reset = ghosts.reset /\ ghosts'.unhooked = ghosts.unhooked
      /\ ghosts'.strayed = ghosts.strayed /\ ghosts.missed \subseteq ghosts'.missed
      /\ ghosts'.torn = ghosts.torn
      /\ ghosts'.wild <=> ghosts.wild \/ Stale(a, i)
  <2>1. PICK w \in BOOLEAN : w = (ghosts.wild \/ Stale(a, i))
    OBVIOUS
  <2>2. PICK m \in SUBSET (0..MaxConns) :
            /\ m = IF Open(i.fd) /\ ~ Modifies(i) THEN ghosts.missed \cup {file[i.fd]} ELSE ghosts.missed
            /\ ghosts.missed \subseteq m
    <3>1. Open(i.fd) => file[i.fd] \in 0..MaxConns
      BY <1>2, KernelTyped
    <3>2. CASE Open(i.fd) /\ ~Modifies(i)
      <4>1. PICK c \in 0..MaxConns : c = file[i.fd]
        BY <3>1, <3>2
      <4>2. PICK m \in SUBSET (0..MaxConns) : m = ghosts.missed \cup {c}
        BY <1>2, GhostsTyped
      <4> QED  BY <3>2, <4>1, <4>2
    <3>3. CASE ~(Open(i.fd) /\ ~Modifies(i))
      BY <1>2, <3>3, GhostsTyped
    <3> QED  BY <3>2, <3>3
  <2>3. ghosts' = [ghosts EXCEPT !.missed = m, !.wild = w]
    BY <1>2, <1>4, <2>1, <2>2 DEF DcTypes
  <2> QED  BY <1>2, <2>1, <2>2, <2>3 DEF DcTypes
<1>8. DcTypes'
  BY <1>2, <1>4, <1>6, CloseSocketTyped DEF DcTypes, Rest
<1>10. InHand' /\ OneSide'
  BY <1>2 DEF InHand, OneSide
<1>11. KernelFits' /\ (SomeClosed <=> SomeClosed')
  BY <1>2, <1>6 DEF KernelFits, SomeClosed
<1>12. ASSUME ~ghosts.wild, Stale(a, i) PROVE SomeClosed
  <2>1. Sound
    BY <1>12 DEF DcInv
  <2>2. CASE a \notin live
    BY <1>12, <2>2
  <2>3. CASE a \in live
    BY <1>12, <2>1, <2>3 DEF Stale, Sound, TearingDown
  <2> QED  BY <2>2, <2>3
<1>13. Tamed'
  BY <1>2, <1>6, <1>11, <1>12 DEF Tamed
<1>14. ASSUME ~ghosts'.wild PROVE Sound'
  <2>1. ~ghosts.wild /\ Sound /\ ~Stale(a, i)
    BY <1>6, <1>14 DEF DcInv
  <2>2. a \in live /\ i = mem[a]
    BY <1>2, <2>1, SeenTyped DEF Stale
  <2>3. QueuesFit' /\ Holding'
    <3>1. Holding'
      BY <2>1, HoldingKept DEF Sound
    <3>2. \A s \in Sides : \A k \in DOMAIN busy'[s] : busy'[s][k] \in live \/ SomeClosed
      BY <2>1 DEF Sound, QueuesFit, Rest
    <3> QED  BY <1>11, <2>1, <3>1, <3>2 DEF Sound, QueuesFit
  <2>4. \/ watch' = watch
        \/ /\ a \in live /\ mem[a].joined /\ ~Torn(a) /\ Untold(a)'
           /\ watch' = [watch EXCEPT ![mem[a].fd] = [ev |-> "out", ptr |-> a]]
    <3>1. CASE Modifies(i)
      <4>1. Open(mem[a].fd) /\ mem[a].joined
        BY <2>2, <3>1 DEF Modifies
      <4>2. ~Torn(a)
        <5>1. SUFFICES ASSUME Torn(a) PROVE FALSE
          OBVIOUS
        <5>2. ep.at = "ctl" /\ ep.addr = a /\ ep.fd = mem[a].fd
          BY <2>1, <5>1 DEF Torn, Sound, TearingDown
        <5>3. ep = [at |-> "ctl", addr |-> a, fd |-> mem[a].fd]
          BY <1>2, <5>2 DEF DcTypes
        <5> QED  BY <2>1, <2>2, <4>1, <5>3 DEF Stale
      <4>3. Untold(a)'
        BY <1>2 DEF Untold
      <4> QED  BY <1>2, <1>4, <2>2, <3>1, <4>1, <4>2, <4>3, CloseSocketTyped
    <3>2. CASE ~Modifies(i)
      BY <1>2, <1>4, <3>2, CloseSocketTyped
    <3> QED  BY <3>1, <3>2
  <2> QED  BY <1>2, <1>6, <1>8, <1>11, <2>1, <2>3, <2>4, QuietStep
<1> QED  BY <1>8, <1>10, <1>11, <1>13, <1>14 DEF DcInv

\* Those that wait are taken out of their queue and asked to close; so are the paired.
LEMMA DrainStep == ASSUME DcInv, NEW t \in Sides, DrainFree(t) \/ DrainBusy(t) PROVE DcInv'
<1>1. DcTypes /\ InHand /\ chan = "closing" /\ free \in [Sides -> Seq(Addrs)] /\ del \in
          [loop : 1..4, at : {"test", "front", "pop", "close"}, addr : Addrs \cup {Null}]
  BY DEF DcInv, DcTypes, DrainFree, DrainBusy, InLoop
<1>2. CASE DrainBusy(t)
  <2>1. /\ busy[t] # <<>> /\ busy' = [busy EXCEPT ![t] = Tail(busy[t])] /\ CloseQueued(Head(busy[t]))
        /\ UNCHANGED <<peer, file, mem, live, free, acc, ep, batch, chan, del, accepted, mate>>
    BY <1>2 DEF DrainBusy
  <2>2. PICK a \in Addrs : a = Head(busy[t]) /\ 1 \in DOMAIN busy[t] /\ a = busy[t][1]
    <3>1. PICK z \in Seq(Addrs) : z = busy[t] /\ z # <<>>
      BY <1>1, <2>1 DEF DcTypes
    <3> QED  BY <3>1, Shortened
  <2>3. ~ghosts.wild => a \in live \/ SomeClosed
    BY <2>2 DEF DcInv, Sound, QueuesFit
  <2>4. Rest(busy, busy')
    BY <1>1, <2>1, Popped
  <2> QED  BY <1>1, <2>1, <2>2, <2>3, <2>4, CloseQueuedKeeps
<1>3. CASE DrainFree(t)
  <2>1. UNCHANGED <<peer, file, mem, live, busy, acc, ep, batch, chan, accepted, mate>>
    BY <1>3 DEF DrainFree
  <2> DEFINE q == free[t]
  <2>2. (free' = free => Rest(free, free')) /\ Rest(busy, busy')
    <3>1. free \in [Sides -> Seq(Addrs)] /\ busy \in [Sides -> Seq(Addrs)]
      BY <1>1 DEF DcTypes
    <3> QED  BY <2>1, <3>1 DEF Rest
  <2>3. CASE del.at = "test" /\ q # <<>> /\ del' = [del EXCEPT !.at = "front"]
             /\ UNCHANGED <<watch, free, ghosts>>
    <3>1. /\ del' \in [loop : 1..4, at : {"test", "front", "pop", "close"}, addr : Addrs \cup {Null}]
          /\ del'.at = "front"
      BY <1>1, <2>3
    <3>2. Rest(free, free')
      BY <2>2, <2>3
    <3> HIDE DEF q
    <3> QED  BY <1>1, <2>1, <2>3, <3>1, <3>2, FreeKeeps
  <2>4. CASE /\ del.at = "front"
             /\ \E a \in IF q = <<>> THEN Addrs ELSE {Head(q)} :
                   del' = [del EXCEPT !.at = "pop", !.addr = a]
             /\ Tears(q)
             /\ UNCHANGED <<watch, free>>
    <3>1. q # <<>> => Head(q) \in Addrs /\ 1 \in DOMAIN q /\ Head(q) = q[1]
      BY <1>1, Shortened
    <3>2. PICK a \in Addrs : (q # <<>> => a = Head(q)) /\ del' = [del EXCEPT !.at = "pop", !.addr = a]
      BY <2>4, <3>1
    <3>3. /\ del' \in [loop : 1..4, at : {"test", "front", "pop", "close"}, addr : Addrs \cup {Null}]
          /\ del'.addr = a
      BY <1>1, <3>2
    <3>4. q # <<>> /\ ~ghosts.wild => a \in live \/ SomeClosed
      BY <3>1, <3>2 DEF DcInv, Sound, QueuesFit
    <3>5. Rest(free, free')
      BY <2>2, <2>4
    <3>6. Tears(q) /\ UNCHANGED watch
      BY <2>4
    <3> HIDE DEF q
    <3> QED  BY <1>1, <2>1, <3>3, <3>4, <3>5, <3>6, FreeKeeps
  <2>5. CASE /\ del.at = "pop"
             /\ free' = IF q = <<>> THEN free ELSE [free EXCEPT ![t] = Tail(q)]
             /\ Tears(q)
             /\ del' = [del EXCEPT !.at = "close"]
             /\ UNCHANGED watch
    <3>1. /\ del' \in [loop : 1..4, at : {"test", "front", "pop", "close"}, addr : Addrs \cup {Null}]
          /\ del'.addr = del.addr /\ del'.at = "close"
      BY <1>1, <2>5
    <3>2. del.addr \in Addrs /\ (~ghosts.wild => del.addr \in live \/ SomeClosed)
      BY <1>1, <2>5 DEF InHand, DcInv, Sound, QueuesFit
    <3>3. Rest(free, free')
      <4>1. CASE q = <<>>
        BY <2>2, <2>5, <4>1
      <4>2. CASE q # <<>>
        BY <1>1, <2>5, <4>2, Popped
      <4> QED  BY <4>1, <4>2
    <3>4. Tears(q) /\ UNCHANGED watch
      BY <2>5
    <3> HIDE DEF q
    <3> QED  BY <1>1, <2>1, <3>1, <3>2, <3>3, <3>4, FreeKeeps
  <2>6. CASE /\ del.at = "close"
             /\ CloseQueued(del.addr)
             /\ del' = [del EXCEPT !.at = "test", !.addr = Null]
             /\ UNCHANGED free
    <3>1. PICK a \in Addrs : a = del.addr /\ (~ghosts.wild => a \in live \/ SomeClosed)
      BY <1>1, <2>6 DEF InHand, DcInv, Sound, QueuesFit
    <3>2. /\ del' \in [loop : 1..4, at : {"test", "front", "pop", "close"}, addr : Addrs \cup {Null}]
          /\ del'.at = "test"
      BY <1>1, <2>6
    <3> QED  BY <1>1, <2>1, <2>2, <2>6, <3>1, <3>2, CloseQueuedKeeps
  <2> QED  BY <1>3, <2>3, <2>4, <2>5, <2>6 DEF DrainFree
<1> QED  BY <1>2, <1>3

-----------------------------------------------------------------------------
\* The invariant holds at the start.
LEMMA DcStart == ASSUME Init PROVE DcInv
<1>1. PICK z \in 0..NFds : z = 0
  BY Numbers
<1>2. PICK c \in 0..MaxConns : c = 0
  BY Numbers
<1>3. PICK r \in 0..1 : r = 0
  OBVIOUS
<1>4. PICK t \in BOOLEAN : t = FALSE
  OBVIOUS
<1>5. /\ peer = [x \in Conns |-> [state |-> "none", side |-> "out", rx |-> r]]
      /\ file = [f \in Fds |-> c] /\ watch = [f \in Fds |-> NoWatch]
      /\ mem = [a \in Addrs |-> [fd |-> z, joined |-> t, ptr |-> Null]]
      /\ live = {} /\ free = [s \in Sides |-> <<>>] /\ busy = [s \in Sides |-> <<>>]
      /\ acc = AccIdle /\ ep = Waiting /\ batch = {} /\ chan = "open" /\ accepted = c
      /\ mate = [x \in Conns |-> c]
      /\ del = [loop |-> 1, at |-> "test", addr |-> Null]
      /\ ghosts = [reset |-> {}, missed |-> {}, unhooked |-> {}, late |-> {},
                   strayed |-> t, wild |-> t, torn |-> t]
  BY <1>1, <1>2, <1>3, <1>4, Numbers DEF Init
<1>6. PICK one \in 1..4 : one = 1
  OBVIOUS
<1>7. DcTypes
  <2>1. <<>> \in Seq(Addrs)
    OBVIOUS
  <2>2. [fd |-> z, joined |-> t, ptr |-> Null] \in Info
    BY DEF Info
  <2>3. [state |-> "none", side |-> "out", rx |-> r]
            \in [state : Alive \cup {"none", "closed"}, side : Sides, rx : 0..1]
    BY DEF Sides
  <2>4. [reset |-> {}, missed |-> {}, unhooked |-> {}, late |-> {}, strayed |-> t, wild |-> t, torn |-> t]
            \in [reset : SUBSET Conns, missed : SUBSET (0..MaxConns),
                 unhooked : SUBSET (0..MaxConns), late : SUBSET (0..MaxConns),
                 strayed : BOOLEAN, wild : BOOLEAN, torn : BOOLEAN]
    OBVIOUS
  <2>5. /\ AccIdle \in [at : AcceptsAt, side : Sides, fd : 0..NFds,
                        me : Addrs \cup {Null}, other : Addrs \cup {Null}]
        /\ Waiting \in [at : {"wait", "close", "ctl"}, addr : Addrs \cup {Null}, fd : 0..NFds]
    <3>1. BadFd = z
      BY <1>1, Numbers
    <3> QED  BY <3>1 DEF AccIdle, Waiting, Sides, AcceptsAt
  <2>6. del \in [loop : 1..4, at : {"test", "front", "pop", "close"}, addr : Addrs \cup {Null}]
    BY <1>5, <1>6
  <2> QED  BY <1>5, <2>1, <2>2, <2>3, <2>4, <2>5, <2>6 DEF DcTypes
<1>8. /\ \A s \in Sides : free[s] = <<>> /\ busy[s] = <<>> /\ DOMAIN free[s] = {} /\ DOMAIN busy[s] = {}
      /\ live = {} /\ acc.at = "wait" /\ ep.at = "wait" /\ ep.addr = Null /\ batch = {}
      /\ \A f \in Fds : file[f] = NoConn /\ watch[f].ev = "none"
      /\ \A x \in Conns : peer[x].state = "none" /\ mate[x] = NoConn
      /\ ~ghosts.wild /\ ~ghosts.strayed /\ ~ghosts.torn /\ del.at = "test"
  <2>1. DOMAIN <<>> = {}
    OBVIOUS
  <2> QED  BY <1>2, <1>4, <1>5, <1>7, <2>1, IdleTyped, Numbers DEF NoWatch
<1>9. InHand /\ KernelFits /\ OneSide /\ Tamed
  BY <1>8 DEF InHand, KernelFits, OneSide, Tamed, Sides
<1>10. Sound
  BY <1>8
  DEF Sound, FdsOwned, TearingDown, PairedFirst, Holding, WatchFits, BatchFits, JoinedWatched, Linked,
      Orphans, QueuesFit
<1> QED  BY <1>7, <1>9, <1>10 DEF DcInv

\* Each step of the peers and of the three threads keeps the invariant.
LEMMA DcStep == ASSUME DcInv, [Next]_vars PROVE DcInv'
<1>1. ASSUME NEW e \in batch, Handle(e) PROVE DcInv'
  BY <1>1, HandleCloseStep, HandleResetStep, HandleFinStep, HandleDataStep DEF Handle
<1>2. CASE \E c \in Conns : Peer(c)
  BY <1>2, PeerStep
<1>3. CASE \E side \in Sides : Accept(side)
  BY <1>3, AcceptStep
<1>4. CASE AcceptThread
  BY <1>4, GetInfoStep, ParkStep, LookStep, PairStep, PushStep, AddStep DEF AcceptThread
<1>5. CASE EpollThread
  BY <1>1, <1>5, EpollWaitStep, CloseFdStep, DelInfoStep DEF EpollThread
<1>6. CASE Business
  BY <1>6, BusinessStep, DrainStep DEF Business, Drain
<1>7. CASE UNCHANGED vars
  <2>1. /\ UNCHANGED <<peer, file, watch, mem, live, free, busy, acc, ep, batch, chan, del>>
        /\ UNCHANGED <<accepted, mate, ghosts>>
    BY <1>7 DEF vars
  <2> QED  BY <2>1 DEF DcInv, DcTypes, InHand, KernelFits, OneSide, Tamed, Sound, FdsOwned,
             TearingDown, PairedFirst, Holding, Second, WatchFits, BatchFits, JoinedWatched, Linked, Orphans,
             QueuesFit, SomeClosed, Torn, Open, ConnOf, Untold, Excused, Mutual
<1> QED  BY <1>2, <1>3, <1>4, <1>5, <1>6, <1>7 DEF Next

\* Whatever the three threads and the peers do, in any order, the invariant holds
\* (data_channel_server.cpp, sh_socket_client.cpp).
THEOREM DcInvariance == Spec => []DcInv
<1>1. Init => DcInv
  BY DcStart
<1>2. DcInv /\ [Next]_vars => DcInv'
  BY DcStep
<1> QED  BY <1>1, <1>2, PTL DEF Spec

\* The ends of a pair that are closed, reset or deleted in any order use no number that
\* is another's, stay registered, and send no byte to another's peer (close_socket,
\* run_epoll, del_channel).
THEOREM RelaysStayApartSafety == Spec => []RelaysStayApart
<1>1. ASSUME DcInv, ~ghosts.wild PROVE OwnsDescriptor
  <2>1. DcTypes /\ FdsOwned /\ TearingDown /\ ep.at \in {"wait", "close", "ctl"}
    BY <1>1, ThreadsTyped DEF DcInv, Sound
  <2>2. SUFFICES ASSUME NEW a \in live, ep.addr # a
                 PROVE  /\ Open(mem[a].fd)
                        /\ \A b \in live \ {a} : mem[b].fd = mem[a].fd => ep.addr = b /\ ep.at = "ctl"
    BY DEF OwnsDescriptor
  <2>3. ~Torn(a)
    BY <2>2 DEF Torn
  <2>4. Open(mem[a].fd)
    BY <2>1, <2>3 DEF FdsOwned
  <2>5. ASSUME NEW b \in live \ {a}, mem[b].fd = mem[a].fd PROVE ep.addr = b /\ ep.at = "ctl"
    BY <2>1, <2>3, <2>5 DEF FdsOwned, Torn
  <2> QED  BY <2>4, <2>5
<1>2. ASSUME DcInv, ~ghosts.wild PROVE JoinedIsWatched
  BY <1>2 DEF DcInv, Sound, JoinedWatched, JoinedIsWatched, Serving
<1>3. ASSUME DcInv, ~ghosts.wild PROVE DanglingOnlyAfterReset
  <2>1. Linked /\ PairedFirst
    BY <1>3 DEF DcInv, Sound
  <2>2. SUFFICES ASSUME NEW a \in live, Serving(a), mem[a].ptr # Null
                 PROVE  \/ Mutual(a, mem[a].ptr)
                        \/ mate[ConnOf(a)] \in ghosts.reset \/ chan # "open"
    BY DEF DanglingOnlyAfterReset
  <2>3. a # ep.addr /\ mem[a].ptr # a
    BY <2>1, <2>2 DEF Serving, PairedFirst
  <2> QED  BY <2>1, <2>2, <2>3 DEF Linked, Excused
<1>4. ASSUME DcInv PROVE StrayOnlyAfterReset
  BY <1>4 DEF DcInv, Tamed, SomeClosed, StrayOnlyAfterReset
<1>5. DcInv => RelaysStayApart
  BY <1>1, <1>2, <1>3, <1>4
  DEF RelaysStayApart, OwnsDescriptor, JoinedIsWatched, DanglingOnlyAfterReset
<1> QED  BY <1>5, DcInvariance, PTL

\* The accept thread has a connection in hand that neither waits nor is paired.
Carrying == acc.at \in {"accepted", "look", "front", "pop"}

\* Pairs are pairs of one connection of each side; who is accepted is in hand, waits in
\* the order of arrival, or is paired; and so is the order of the pairs.
Ordered ==
    /\ \A c \in Conns : mate[c] # NoConn =>
           mate[c] \in Conns /\ mate[mate[c]] = c /\ peer[mate[c]].side # peer[c].side
    /\ Carrying => accepted \in Conns /\ peer[accepted].side = acc.side /\ file[acc.fd] = accepted
    /\ \A s \in Sides : \A k \in DOMAIN free[s] : peer[ConnOf(free[s][k])].side = s
    /\ \A s \in Sides : \A k, l \in DOMAIN free[s] :
           k < l => ConnOf(free[s][k]) < ConnOf(free[s][l])
    /\ \A c \in Conns : c <= accepted /\ mate[c] = NoConn =>
           \/ Carrying /\ c = accepted
           \/ \E s \in Sides : \E k \in DOMAIN free[s] : ConnOf(free[s][k]) = c
    /\ PairedInOrder

OrderInv == ~ghosts.wild /\ chan = "open" => Ordered
-----------------------------------------------------------------------------
(***************************************************************************)
(* The order of the pairs, while no block is used that is another's and    *)
(* the channel is not being deleted.                                       *)
(***************************************************************************)
\* The connection in hand is open and not paired.
LEMMA CarriedConn ==
    ASSUME DcInv, ~ghosts.wild, Carrying
    PROVE  /\ acc.fd \in Fds /\ Open(acc.fd) /\ mate[file[acc.fd]] = NoConn
           /\ ep.at = "close" => acc.fd # ep.fd
           /\ \A a \in live : ~Torn(a) /\ (acc.at # "accepted" => a # acc.me) => mem[a].fd # acc.fd
<1>1. DcTypes /\ KernelFits /\ Sound /\ InHand
  BY DEF DcInv
<1>2. CASE acc.at = "accepted"
  <2>1. /\ acc.fd \in Fds /\ Open(acc.fd) /\ mate[file[acc.fd]] = NoConn
        /\ \A a \in live : ~Torn(a) => mem[a].fd # acc.fd
    BY <1>1, <1>2 DEF Sound, FdsOwned, InHand
  <2>2. ep.at = "close" => ep.addr \in live /\ ~Torn(ep.addr) /\ ep.fd = mem[ep.addr].fd
    BY <1>1 DEF Sound, TearingDown, Torn
  <2> QED  BY <1>2, <2>1, <2>2
<1>3. CASE acc.at \in {"look", "front", "pop"}
  <2>1. PICK m \in live : m = acc.me /\ ~mem[m].joined /\ mem[m].fd = acc.fd /\ mem[m].ptr = m
    BY <1>1, <1>3 DEF Sound, Holding
  <2>2. ep.at # "wait" => ep.addr \in live /\ ep.addr # m /\ ep.fd = mem[ep.addr].fd
    BY <1>1, <2>1 DEF Sound, TearingDown
  <2>3. ~Torn(m) /\ (ep.at = "close" => ~Torn(ep.addr))
    BY <2>2 DEF Torn
  <2>4. /\ acc.fd \in Fds /\ Open(acc.fd) /\ mate[file[acc.fd]] = NoConn
    BY <1>1, <2>1, <2>3, OwnConn DEF Sound, PairedFirst, ConnOf
  <2>5. \A a \in live : ~Torn(a) /\ a # m => mem[a].fd # acc.fd
    BY <1>1, <2>1, <2>3 DEF Sound, FdsOwned
  <2> QED  BY <1>3, <2>1, <2>2, <2>3, <2>4, <2>5
<1> QED  BY <1>2, <1>3 DEF Carrying

\* Blocks that wait are not torn down, and their connections are open and not paired.
LEMMA WaitingConn ==
    ASSUME DcInv, ~ghosts.wild, NEW s \in Sides, NEW k \in DOMAIN free[s]
    PROVE  /\ free[s][k] \in live /\ free[s][k] \in Addrs /\ ~mem[free[s][k]].joined
           /\ ~Torn(free[s][k]) /\ mem[free[s][k]].fd \in Fds /\ Open(mem[free[s][k]].fd)
           /\ ConnOf(free[s][k]) \in Conns /\ ConnOf(free[s][k]) <= accepted
           /\ mate[ConnOf(free[s][k])] = NoConn
           /\ Carrying /\ file[acc.fd] = accepted => ConnOf(free[s][k]) < accepted
           /\ ep.at = "close" => mem[free[s][k]].fd # ep.fd
<1>1. DcTypes /\ KernelFits /\ Sound /\ InHand
  BY DEF DcInv
<1>2. PICK a \in live : a = free[s][k] /\ mem[a].ptr = a
  BY <1>1 DEF Sound, QueuesFit
<1>3. ~mem[a].joined
  BY <1>1, <1>2 DEF Sound, PairedFirst
<1>4. ~Torn(a) /\ (ep.at # "wait" => ep.addr \in live /\ ep.addr # a /\ ep.fd = mem[ep.addr].fd)
  BY <1>1, <1>3 DEF Torn, Sound, TearingDown
<1>5. /\ a \in Addrs /\ mem[a].fd \in Fds /\ Open(mem[a].fd)
      /\ ConnOf(a) \in Conns /\ ConnOf(a) # NoConn
  BY <1>1, <1>4, OwnConn DEF Sound
<1>6. mate[ConnOf(a)] = NoConn
  BY <1>1, <1>2, <1>4 DEF Sound, PairedFirst
<1>7. ConnOf(a) <= accepted
  BY <1>1, <1>5 DEF KernelFits, ConnOf
<1>8. Carrying /\ file[acc.fd] = accepted => ConnOf(a) < accepted
  <2>4. ConnOf(a) \in Int /\ accepted \in Int
    BY <1>1, <1>5, KernelTyped, Numbers
  <2>1. SUFFICES ASSUME Carrying, file[acc.fd] = accepted PROVE ConnOf(a) # accepted
    BY <1>7, <2>4
  <2>2. acc.at # "accepted" => a # acc.me
    BY <1>1, <1>2, <2>1 DEF Sound, Holding, Carrying
  <2>3. acc.fd \in Fds /\ mem[a].fd # acc.fd
    BY <1>2, <1>4, <2>1, <2>2, CarriedConn
  <2> QED  BY <1>1, <1>5, <2>1, <2>3 DEF KernelFits, ConnOf
<1>9. ep.at = "close" => mem[a].fd # ep.fd
  BY <1>1, <1>4 DEF Sound, FdsOwned, Torn
<1> QED  BY <1>2, <1>3, <1>4, <1>5, <1>6, <1>7, <1>8, <1>9

\* A step of which the queue of those that wait, the pairs and the thread that makes
\* them take no notice.
Calm ==
    /\ UNCHANGED <<free, accepted, mate>>
    /\ Carrying' <=> Carrying
    /\ Carrying => acc'.side = acc.side /\ file'[acc'.fd] = file[acc.fd]
    /\ \A c \in Conns : peer'[c].side = peer[c].side
    /\ \A s \in Sides : \A k \in DOMAIN free[s] : ConnOf(free[s][k])' = ConnOf(free[s][k])

\* Such a step keeps the order.
LEMMA OrderKept == ASSUME DcInv, ~ghosts.wild, Ordered, Calm PROVE Ordered'
<1>1. \A s \in Sides : \A k \in DOMAIN free[s] : ConnOf(free[s][k]) \in Conns
  BY WaitingConn
<1>2. \A c \in Conns : mate'[c] # NoConn =>
          mate'[c] \in Conns /\ mate'[mate'[c]] = c /\ peer'[mate'[c]].side # peer'[c].side
  BY DEF Ordered, Calm
<1>3. Carrying' => /\ accepted' \in Conns /\ peer'[accepted'].side = acc'.side
                   /\ file'[acc'.fd] = accepted'
  BY DEF Ordered, Calm
<1>4. \A s \in Sides : \A k \in DOMAIN free'[s] : peer'[ConnOf(free[s][k])'].side = s
  BY <1>1 DEF Ordered, Calm
<1>5. \A s \in Sides : \A k, l \in DOMAIN free'[s] :
          k < l => ConnOf(free[s][k])' < ConnOf(free[s][l])'
  BY DEF Ordered, Calm
<1>6. \A c \in Conns : c <= accepted' /\ mate'[c] = NoConn =>
          \/ Carrying' /\ c = accepted'
          \/ \E s \in Sides : \E k \in DOMAIN free'[s] : ConnOf(free[s][k])' = c
  BY DEF Ordered, Calm
<1>7. PairedInOrder'
  BY DEF Ordered, Calm, PairedInOrder
<1> QED  BY <1>2, <1>3, <1>4, <1>5, <1>6, <1>7 DEF Ordered

\* All steps but those of accept() and of the pairing are such steps.
LEMMA Calmly ==
    ASSUME DcInv, Next, ~ghosts'.wild, chan' = "open",
           ~(\E side \in Sides : Accept(side)), ~Park, ~Pair
    PROVE  Calm /\ ~ghosts.wild /\ chan = "open"
<1>1. DcTypes /\ ghosts.wild \in BOOLEAN
  BY GhostsTyped DEF DcInv
<1>2. \A s \in Sides : \A k \in DOMAIN free[s] : free[s][k] \in Addrs
  BY <1>1 DEF DcTypes
<1>3. ASSUME UNCHANGED <<file, free>>, \A b \in Addrs : mem'[b].fd = mem[b].fd
      PROVE  \A s \in Sides : \A k \in DOMAIN free[s] : ConnOf(free[s][k])' = ConnOf(free[s][k])
  BY <1>2, <1>3 DEF ConnOf
<1>12. ASSUME UNCHANGED <<file, acc>>
       PROVE  (Carrying' <=> Carrying) /\ (Carrying => acc'.side = acc.side /\ file'[acc'.fd] = file[acc.fd])
  BY <1>12 DEF Carrying
<1>4. CASE \E c \in Conns : Peer(c)
  <2>1. PICK c \in Conns : Peer(c)
    BY <1>4
  <2>2. /\ UNCHANGED <<file, mem, free, acc, chan, accepted, mate>>
        /\ \A d \in Conns : peer'[d].side = peer[d].side
        /\ ghosts' = [ghosts EXCEPT !.reset = ghosts'.reset]
    BY <2>1, PeerEffect
  <2>3. ghosts'.wild = ghosts.wild
    BY <1>1, <2>2 DEF DcTypes
  <2> QED  BY <1>3, <1>12, <2>2, <2>3 DEF Calm
<1>5. CASE AddFirst \/ AddSecond
  <2>1. /\ \E b \in Addrs : mem' = [mem EXCEPT ![b].joined = TRUE]
        /\ UNCHANGED <<peer, file, free, chan, accepted, mate, ghosts>>
        /\ ~Carrying /\ ~Carrying'
    <3>1. acc.at \in {"add1", "add2"} /\ acc'.at \in {"add2", "wait"}
      BY <1>1, <1>5, IdleTyped DEF AddFirst, AddSecond, DcTypes
    <3>2. /\ \E b : b \in {First, Second} /\ mem' = [mem EXCEPT ![b].joined = TRUE]
          /\ UNCHANGED <<peer, file, free, chan, accepted, mate, ghosts>>
      BY <1>5 DEF AddFirst, AddSecond, AddEpoll, queues
    <3>3. First \in Addrs /\ Second \in Addrs
      BY <3>1 DEF DcInv, InHand, First, Second
    <3> QED  BY <3>1, <3>2, <3>3 DEF Carrying
  <2>2. \A b \in Addrs : mem'[b].fd = mem[b].fd
    BY <1>1, <2>1 DEF DcTypes, Info
  <2> QED  BY <1>3, <2>1, <2>2 DEF Calm
<1>6. CASE EpollWait \/ \E e \in batch : HandleClose(e) \/ HandleReset(e)
  <2>1. UNCHANGED <<peer, file, mem, free, acc, chan, accepted, mate, ghosts>>
    BY <1>6 DEF EpollWait, HandleClose, HandleReset, kernel, queues
  <2> QED  BY <1>3, <1>12, <2>1 DEF Calm
<1>7. CASE \E e \in batch : HandleFin(e)
  <2>1. /\ mem' = mem \/ \E p : mem' = [mem EXCEPT ![p].ptr = Null]
        /\ ghosts' = ghosts \/ \E m, w : ghosts' = [ghosts EXCEPT !.missed = m, !.wild = ghosts.wild \/ w]
        /\ UNCHANGED <<peer, file, free, acc, chan, accepted, mate>>
    BY <1>7 DEF HandleFin, queues
  <2>2. \A b \in Addrs : mem'[b].fd = mem[b].fd
    <3>1. \A b \in Addrs : mem'[b] = mem[b] \/ mem'[b] = [mem[b] EXCEPT !.ptr = Null]
      <4>1. CASE mem' = mem
        BY <4>1
      <4>2. CASE \E p : mem' = [mem EXCEPT ![p].ptr = Null]
        <5>1. PICK p : mem' = [mem EXCEPT ![p].ptr = Null]
          BY <4>2
        <5>2. mem \in [Addrs -> Info]
          BY <1>1 DEF DcTypes
        <5>3. \A b \in Addrs : mem'[b] = IF b = p THEN [mem[b] EXCEPT !.ptr = Null] ELSE mem[b]
          BY <5>1, <5>2
        <5> QED  BY <5>3
      <4> QED  BY <2>1, <4>1, <4>2
    <3>2. \A i \in Info : [i EXCEPT !.ptr = Null].fd = i.fd
      BY DEF Info
    <3> QED  BY <1>1, <3>1, <3>2 DEF DcTypes
  <2>3. ~ghosts.wild
    BY <1>1, <2>1 DEF DcTypes
  <2> QED  BY <1>3, <1>12, <2>1, <2>2, <2>3 DEF Calm
<1>8. CASE \E e \in batch : HandleData(e)
  <2>1. UNCHANGED <<file, mem, free, acc, chan, accepted, mate>>
    BY <1>8 DEF HandleData, queues
  <2>2. ghosts' = ghosts \/ \E t, w : ghosts' = [ghosts EXCEPT !.strayed = t, !.wild = ghosts.wild \/ w]
    BY <1>8 DEF HandleData
  <2>3. ~ghosts.wild
    BY <1>1, <2>2 DEF DcTypes
  <2>4. \A c \in Conns : peer'[c].side = peer[c].side
    <3>1. ASSUME NEW x \in Conns
          PROVE  \/ peer'[x] = peer[x] \/ peer'[x] = [peer[x] EXCEPT !.rx = 0]
                 \/ peer'[x] = [peer[x] EXCEPT !.state = "eof"]
      <4>1. PICK e \in batch : HandleData(e)
        BY <1>8
      <4>2. PICK i \in Seen(e.ptr) :
                \/ peer' = [peer EXCEPT ![file[i.fd]].rx = 0]
                \/ \E r \in Seen(i.ptr) :
                      LET d == IF Open(r.fd) THEN file[r.fd] ELSE NoConn IN
                      peer' = [y \in Conns |->
                                 IF y = file[i.fd] THEN [peer[file[i.fd]] EXCEPT !.rx = 0]
                                 ELSE IF y = d /\ peer[d].state = "rst"
                                      THEN [peer[d] EXCEPT !.state = "eof"]
                                      ELSE peer[y]]
        BY <4>1 DEF HandleData
      <4>3. peer \in [Conns -> [state : Alive \cup {"none", "closed"}, side : Sides, rx : 0..1]]
        BY <1>1 DEF DcTypes
      <4>4. CASE peer' = [peer EXCEPT ![file[i.fd]].rx = 0]
        <5>1. PICK c : c = file[i.fd]
          OBVIOUS
        <5>2. peer' = [peer EXCEPT ![c].rx = 0]
          BY <4>4, <5>1
        <5>3. peer'[x] = IF x = c THEN [peer[x] EXCEPT !.rx = 0] ELSE peer[x]
          BY <4>3, <5>2
        <5> QED  BY <5>3
      <4>5. ASSUME NEW r \in Seen(i.ptr),
                   LET d == IF Open(r.fd) THEN file[r.fd] ELSE NoConn IN
                   peer' = [y \in Conns |->
                              IF y = file[i.fd] THEN [peer[file[i.fd]] EXCEPT !.rx = 0]
                              ELSE IF y = d /\ peer[d].state = "rst"
                                   THEN [peer[d] EXCEPT !.state = "eof"]
                                   ELSE peer[y]]
            PROVE  \/ peer'[x] = peer[x] \/ peer'[x] = [peer[x] EXCEPT !.rx = 0]
                   \/ peer'[x] = [peer[x] EXCEPT !.state = "eof"]
        <5>1. PICK c, d : c = file[i.fd] /\ d = IF Open(r.fd) THEN file[r.fd] ELSE NoConn
          OBVIOUS
        <5>2. peer' = [y \in Conns |-> IF y = c THEN [peer[c] EXCEPT !.rx = 0]
                                       ELSE IF y = d /\ peer[d].state = "rst"
                                            THEN [peer[d] EXCEPT !.state = "eof"]
                                            ELSE peer[y]]
          BY <4>5, <5>1
        <5>3. peer'[x] = IF x = c THEN [peer[x] EXCEPT !.rx = 0]
                         ELSE IF x = d /\ peer[x].state = "rst"
                              THEN [peer[x] EXCEPT !.state = "eof"] ELSE peer[x]
          BY <5>2
        <5> QED  BY <5>3
      <4> QED  BY <4>2, <4>4, <4>5
    <3>2. \A q \in [state : Alive \cup {"none", "closed"}, side : Sides, rx : 0..1] :
              [q EXCEPT !.rx = 0].side = q.side /\ [q EXCEPT !.state = "eof"].side = q.side
      OBVIOUS
    <3>3. \A x \in Conns : peer[x] \in [state : Alive \cup {"none", "closed"}, side : Sides, rx : 0..1]
      BY <1>1 DEF DcTypes
    <3> QED  BY <3>1, <3>2, <3>3
  <2> QED  BY <1>3, <1>12, <2>1, <2>3, <2>4 DEF Calm
<1>9. CASE CloseFd
  <2>1. /\ UNCHANGED <<mem, free, acc, chan, accepted, mate, ghosts>> /\ ep.at = "close"
        /\ \/ file' = file /\ peer' = peer
           \/ /\ file' = [file EXCEPT ![ep.fd] = NoConn]
              /\ \E c : peer' = [peer EXCEPT ![c] = [peer[c] EXCEPT !.state = "closed", !.rx = 0]]
    BY <1>9 DEF CloseFd, queues, kernel
  <2>2. \A f \in Fds : f # ep.fd => file'[f] = file[f]
    BY <1>1, <2>1 DEF DcTypes
  <2>3. \A s \in Sides : \A k \in DOMAIN free[s] : ConnOf(free[s][k])' = ConnOf(free[s][k])
    BY <2>1, <2>2, WaitingConn DEF ConnOf
  <2>4. \A c \in Conns : peer'[c].side = peer[c].side
    <3>1. \A q \in [state : Alive \cup {"none", "closed"}, side : Sides, rx : 0..1] :
              [q EXCEPT !.state = "closed", !.rx = 0].side = q.side
      OBVIOUS
    <3>2. \A x \in Conns : \/ peer'[x] = peer[x]
                           \/ peer'[x] = [peer[x] EXCEPT !.state = "closed", !.rx = 0]
      <4>1. CASE peer' = peer
        BY <4>1
      <4>2. CASE \E c : peer' = [peer EXCEPT ![c] = [peer[c] EXCEPT !.state = "closed", !.rx = 0]]
        <5>1. PICK c : peer' = [peer EXCEPT ![c] = [peer[c] EXCEPT !.state = "closed", !.rx = 0]]
          BY <4>2
        <5>2. peer \in [Conns -> [state : Alive \cup {"none", "closed"}, side : Sides, rx : 0..1]]
          BY <1>1 DEF DcTypes
        <5>3. \A x \in Conns : peer'[x] = IF x = c
                                          THEN [peer[x] EXCEPT !.state = "closed", !.rx = 0]
                                          ELSE peer[x]
          BY <5>1, <5>2
        <5> QED  BY <5>3
      <4> QED  BY <2>1, <4>1, <4>2
    <3>3. \A x \in Conns : peer[x] \in [state : Alive \cup {"none", "closed"}, side : Sides, rx : 0..1]
      BY <1>1 DEF DcTypes
    <3> QED  BY <3>1, <3>2, <3>3
  <2>5. ~ghosts.wild
    BY <2>1
  <2>6. Carrying => acc.fd \in Fds /\ acc.fd # ep.fd
    BY <2>1, <2>5, CarriedConn
  <2>7. Carrying => acc'.side = acc.side /\ file'[acc'.fd] = file[acc.fd]
    BY <2>1, <2>2, <2>6
  <2>8. Carrying' <=> Carrying
    BY <2>1 DEF Carrying
  <2> QED  BY <2>1, <2>3, <2>4, <2>5, <2>7, <2>8 DEF Calm
<1>10. CASE DelInfo
  <2>1. /\ UNCHANGED <<peer, file, mem, free, acc, chan, accepted, mate>>
        /\ ghosts' = ghosts \/ \E u : ghosts' = [ghosts EXCEPT !.unhooked = u]
    BY <1>10 DEF DelInfo, queues
  <2>2. ~ghosts.wild
    BY <1>1, <2>1 DEF DcTypes
  <2> QED  BY <1>3, <1>12, <2>1, <2>2 DEF Calm
<1>11. ~Business
  BY DEF Business, CloseListeners, Drain, DrainFree, DrainBusy, InLoop, LoopEnds
<1>13. CASE \E a \in Addrs : GetInfo(a)
  <2>1. PICK a \in Addrs : GetInfo(a)
    BY <1>13
  <2>2. /\ UNCHANGED <<peer, file, free, chan, accepted, mate, ghosts>>
        /\ acc.at = "accepted" /\ acc' = [acc EXCEPT !.at = "look", !.me = a] /\ a \notin live
        /\ mem' = [mem EXCEPT ![a] = [fd |-> acc.fd, joined |-> FALSE, ptr |-> a]]
    BY <2>1 DEF GetInfo, kernel, queues
  <2>3. acc'.at = "look" /\ acc'.side = acc.side /\ acc'.fd = acc.fd
    BY <1>1, <2>2 DEF DcTypes
  <2>4. ~ghosts.wild
    BY <2>2
  <2>5. \A b \in Addrs : b # a => mem'[b] = mem[b]
    BY <1>1, <2>2 DEF DcTypes
  <2>6. \A s \in Sides : \A k \in DOMAIN free[s] : ConnOf(free[s][k])' = ConnOf(free[s][k])
    BY <2>2, <2>4, <2>5, WaitingConn DEF ConnOf
  <2> QED  BY <2>2, <2>3, <2>4, <2>6 DEF Calm, Carrying
<1>14. CASE Look \/ Front
  <2>1. /\ UNCHANGED <<peer, file, mem, free, chan, accepted, mate>>
        /\ acc.at \in {"look", "front"} /\ (ghosts' = ghosts \/ ghosts' = [ghosts EXCEPT !.torn = TRUE, !.wild = TRUE])
        /\ \/ acc' = [acc EXCEPT !.at = "front"]
           \/ \E r : acc' = [acc EXCEPT !.at = "pop", !.other = r]
    BY <1>14 DEF Look, Front, Tears, kernel, queues
  <2>2. acc'.at \in {"front", "pop"} /\ acc'.side = acc.side /\ acc'.fd = acc.fd
    BY <1>1, <2>1 DEF DcTypes
  <2>3. ~ghosts.wild
    BY <1>1, <2>1 DEF DcTypes
  <2> QED  BY <1>3, <2>1, <2>2, <2>3 DEF Calm, Carrying
<1>15. CASE PushOwn \/ PushOther
  <2>1. /\ UNCHANGED <<peer, file, mem, free, chan, accepted, mate>>
        /\ acc.at \in {"push1", "push2"}
        /\ acc' = [acc EXCEPT !.at = "push2"] \/ acc' = [acc EXCEPT !.at = "add1"]
        /\ ghosts' = ghosts \/ \E l : ghosts' = [ghosts EXCEPT !.late = l]
    BY <1>15 DEF PushOwn, PushOther, Push, kernel
  <2>2. acc'.at \in {"push2", "add1"}
    BY <1>1, <2>1 DEF DcTypes
  <2>3. ~ghosts.wild
    BY <1>1, <2>1 DEF DcTypes
  <2> QED  BY <1>3, <2>1, <2>2, <2>3 DEF Calm, Carrying
<1> QED  BY <1>4, <1>5, <1>6, <1>7, <1>8, <1>9, <1>10, <1>11, <1>13, <1>14, <1>15
         DEF Next, AcceptThread, EpollThread, Handle

\* A connection that is accepted is the last so far, and in hand.
LEMMA AcceptOrders ==
    ASSUME DcInv, ~ghosts.wild, Ordered, NEW side \in Sides, Accept(side)
    PROVE  Ordered'
<1>1. DcTypes /\ KernelFits /\ acc.at = "wait" /\ accepted < MaxConns
  BY DEF DcInv, Accept
<1>2. PICK f \in Fds : /\ file[f] = NoConn
                       /\ f = Lowest({g \in Fds : file[g] = NoConn})
  BY LowestIsOne DEF Accept
<1>3. PICK c \in Conns : c = accepted + 1
  BY <1>1, Numbers, KernelTyped DEF Conns, DcTypes
<1>4. /\ file' = [file EXCEPT ![f] = c] /\ accepted' = c
      /\ peer' = [peer EXCEPT ![c] = [state |-> "up", side |-> side, rx |-> 0]]
      /\ acc' = [AccIdle EXCEPT !.at = "accepted", !.side = side, !.fd = f]
      /\ UNCHANGED <<mem, free, mate>>
  BY <1>2, <1>3 DEF Accept, queues
<1>5. /\ \A d \in Conns : d # c => peer'[d] = peer[d]
      /\ peer'[c].side = side /\ acc'.at = "accepted" /\ acc'.side = side
      /\ file'[acc'.fd] = c /\ Carrying' /\ ~Carrying
  BY <1>1, <1>4 DEF DcTypes, AccIdle, Carrying
<1>6. \A d \in Conns : /\ d <= accepted => d # c
                       /\ d <= c <=> d <= accepted \/ d = c
                       /\ mate[d] # NoConn => d <= accepted
  <2>1. \A d \in Conns : /\ d <= accepted => d # c
                         /\ d <= c <=> d <= accepted \/ d = c
                         /\ d <= accepted \/ d > accepted
    BY <1>1, <1>3, KernelTyped, Numbers
  <2> QED  BY <1>1, <2>1 DEF KernelFits
<1>7. \A s \in Sides : \A k \in DOMAIN free[s] :
          /\ ConnOf(free[s][k])' = ConnOf(free[s][k]) /\ ConnOf(free[s][k]) \in Conns
          /\ ConnOf(free[s][k]) <= accepted
  <2>1. \A s \in Sides : \A k \in DOMAIN free[s] : /\ mem[free[s][k]].fd \in Fds
                                                   /\ mem[free[s][k]].fd # f
    BY <1>2, WaitingConn DEF Open
  <2> QED  BY <1>1, <1>4, <2>1, WaitingConn DEF ConnOf, DcTypes
<1>8. \A d \in Conns : mate[d] # NoConn =>
          /\ mate[d] \in Conns /\ mate[mate[d]] = d
          /\ peer'[d] = peer[d] /\ peer'[mate[d]] = peer[mate[d]]
          /\ peer[mate[d]].side # peer[d].side
  <2>1. SUFFICES ASSUME NEW d \in Conns, mate[d] # NoConn
                 PROVE  /\ mate[d] \in Conns /\ mate[mate[d]] = d
                        /\ peer'[d] = peer[d] /\ peer'[mate[d]] = peer[mate[d]]
                        /\ peer[mate[d]].side # peer[d].side
    OBVIOUS
  <2>2. mate[d] \in Conns /\ mate[mate[d]] = d /\ peer[mate[d]].side # peer[d].side /\ d # NoConn
    BY <2>1, Numbers DEF Ordered
  <2> QED  BY <1>5, <1>6, <2>1, <2>2
<1>9. \A s \in Sides : \A k \in DOMAIN free'[s] : peer'[ConnOf(free[s][k])'].side = s
  BY <1>4, <1>5, <1>6, <1>7 DEF Ordered
<1>10. \A s \in Sides : \A k, l \in DOMAIN free'[s] :
          k < l => ConnOf(free[s][k])' < ConnOf(free[s][l])'
  BY <1>4, <1>7 DEF Ordered
<1>11. \A d \in Conns : d <= accepted' /\ mate[d] = NoConn =>
           d = c \/ \E s \in Sides : \E k \in DOMAIN free[s] : ConnOf(free[s][k])' = d
  <2>1. ~Carrying
    BY <1>1 DEF Carrying
  <2> QED  BY <1>4, <1>6, <1>7, <2>1 DEF Ordered
<1>12. PairedInOrder'
  <2>1. SUFFICES ASSUME NEW d \in Conns, NEW e \in Conns, d < e, peer'[d].side = peer'[e].side,
                        mate[e] # NoConn
                 PROVE  mate[d] # NoConn /\ mate[d] < mate[e]
    BY <1>4 DEF PairedInOrder
  <2>2. e <= accepted /\ d <= accepted
    BY <1>1, <1>6, <2>1, KernelTyped, Numbers
  <2>3. peer'[e] = peer[e] /\ peer'[d] = peer[d]
    BY <1>5, <1>6, <2>2
  <2> QED  BY <2>1, <2>3 DEF Ordered, PairedInOrder
<1> QED  BY <1>4, <1>5, <1>8, <1>9, <1>10, <1>11, <1>12 DEF Ordered

\* A connection that has to wait is behind those that wait already.
LEMMA ParkOrders ==
    ASSUME DcInv, ~ghosts.wild, Ordered, Park
    PROVE  Ordered'
<1>1. DcTypes /\ InHand /\ Sound /\ acc.at = "look" /\ Carrying
  BY DEF DcInv, Park, Carrying
<1>2. PICK s \in Sides : s = acc.side
  BY <1>1, ThreadsTyped
<1>3. PICK a \in Addrs : a = acc.me /\ mem[a].fd = acc.fd
  BY <1>1 DEF InHand, Sound, Holding
<1>4. /\ acc' = AccIdle
      /\ free' = [free EXCEPT ![s] = Append(free[s], a)]
      /\ UNCHANGED <<peer, file, mem, accepted, mate>>
  BY <1>2, <1>3 DEF Park, kernel
<1>5. /\ acc'.at = "wait"
      /\ \A t \in Sides : free'[t] = IF t = s THEN Append(free[s], a) ELSE free[t]
  BY <1>1, <1>4, IdleTyped DEF DcTypes
<1>6. ConnOf(a)' = accepted /\ accepted \in Conns /\ peer[accepted].side = s
  BY <1>1, <1>2, <1>3, <1>4 DEF ConnOf, Ordered
<1>7. \A t \in Sides : \A k \in DOMAIN free[t] :
          /\ ConnOf(free[t][k])' = ConnOf(free[t][k]) /\ ConnOf(free[t][k]) \in Conns
          /\ ConnOf(free[t][k]) < accepted
  BY <1>1, <1>4, WaitingConn DEF ConnOf, Ordered
<1>8. /\ \A t \in Sides : \A k \in DOMAIN free'[t] :
             \/ k \in DOMAIN free[t] /\ free'[t][k] = free[t][k]
             \/ t = s /\ k = Len(free[t]) + 1 /\ free'[t][k] = a
      /\ \A t \in Sides : \A k \in DOMAIN free[t] : k \in DOMAIN free'[t] /\ free'[t][k] = free[t][k]
      /\ \E k \in DOMAIN free'[s] : free'[s][k] = a
      /\ \A t \in Sides : /\ Len(free[t]) \in Nat /\ DOMAIN free[t] = 1..Len(free[t])
  <2>1. PICK q \in Seq(Addrs) : q = free[s]
    BY <1>1 DEF DcTypes
  <2>2. PICK r : r = Append(q, a)
    OBVIOUS
  <2>3. /\ Len(r) = Len(q) + 1 /\ Len(q) \in Nat /\ \A i \in 1..Len(q) : r[i] = q[i]
        /\ r[Len(q) + 1] = a /\ DOMAIN r = 1..Len(r) /\ DOMAIN q = 1..Len(q)
    BY <2>2
  <2>4. /\ \A k \in DOMAIN r : (k \in DOMAIN q /\ r[k] = q[k]) \/ (k = Len(q) + 1 /\ r[k] = a)
        /\ \A k \in DOMAIN q : k \in DOMAIN r /\ r[k] = q[k]
        /\ \E k \in DOMAIN r : r[k] = a
    BY <2>3
  <2>5. \A t \in Sides : Len(free[t]) \in Nat /\ DOMAIN free[t] = 1..Len(free[t])
    BY <1>1 DEF DcTypes
  <2> QED  BY <1>5, <2>1, <2>2, <2>4, <2>5
<1>9. \A t \in Sides : \A k \in DOMAIN free'[t] : peer[file[mem'[free'[t][k]].fd]].side = t
  <2>1. SUFFICES ASSUME NEW t \in Sides, NEW k \in DOMAIN free'[t], NEW b, b = free'[t][k]
                 PROVE  peer[file[mem'[b].fd]].side = t
    OBVIOUS
  <2>2. CASE k \in DOMAIN free[t] /\ b = free[t][k]
    BY <1>4, <1>7, <2>2 DEF Ordered, ConnOf
  <2>3. CASE t = s /\ b = a
    BY <1>4, <1>6, <2>3 DEF ConnOf
  <2> QED  BY <1>8, <2>1, <2>2, <2>3
<1>10. \A t \in Sides : \A k, l \in DOMAIN free'[t] :
           k < l => file[mem'[free'[t][k]].fd] < file[mem'[free'[t][l]].fd]
  <2>1. SUFFICES ASSUME NEW t \in Sides, NEW k \in DOMAIN free'[t], NEW l \in DOMAIN free'[t], k < l
                 PROVE  file[mem'[free'[t][k]].fd] < file[mem'[free'[t][l]].fd]
    OBVIOUS
  <2>2. k \in DOMAIN free[t] /\ free'[t][k] = free[t][k]
    BY <1>8, <2>1
  <2>3. CASE l \in DOMAIN free[t] /\ free'[t][l] = free[t][l]
    BY <1>4, <1>7, <2>1, <2>2, <2>3 DEF Ordered, ConnOf
  <2>4. CASE free'[t][l] = a
    BY <1>4, <1>6, <1>7, <2>2, <2>4 DEF ConnOf
  <2> QED  BY <1>8, <2>1, <2>3, <2>4
<1>11. \A c \in Conns : c <= accepted /\ mate[c] = NoConn =>
           \E t \in Sides : \E k \in DOMAIN free'[t] : file[mem'[free'[t][k]].fd] = c
  <2>1. SUFFICES ASSUME NEW c \in Conns, c <= accepted, mate[c] = NoConn
                 PROVE  \E t \in Sides : \E k \in DOMAIN free'[t] : file[mem'[free'[t][k]].fd] = c
    OBVIOUS
  <2>2. CASE c = accepted
    BY <1>4, <1>6, <1>8, <2>2 DEF ConnOf
  <2>3. CASE c # accepted
    <3>1. PICK t \in Sides : \E k \in DOMAIN free[t] : ConnOf(free[t][k]) = c
      BY <2>1, <2>3 DEF Ordered
    <3>2. PICK k \in DOMAIN free[t] : ConnOf(free[t][k]) = c
      BY <3>1
    <3>3. k \in DOMAIN free'[t] /\ free'[t][k] = free[t][k] /\ file[mem'[free[t][k]].fd] = c
      BY <1>4, <1>7, <1>8, <3>2 DEF ConnOf
    <3> QED  BY <3>3
  <2> QED  BY <2>2, <2>3
<1>12. PairedInOrder'
  BY <1>4 DEF Ordered, PairedInOrder
<1>13. \A c \in Conns : mate'[c] # NoConn =>
           mate'[c] \in Conns /\ mate'[mate'[c]] = c /\ peer'[mate'[c]].side # peer'[c].side
  BY <1>4 DEF Ordered
<1>14. ~Carrying' /\ UNCHANGED <<peer, file, accepted, mate>>
  BY <1>4, <1>5 DEF Carrying
<1> QED  BY <1>9, <1>10, <1>11, <1>12, <1>13, <1>14 DEF Ordered, ConnOf

\* The two that are paired are the first that waits and the last that came.
LEMMA PairOrders ==
    ASSUME DcInv, ~ghosts.wild, Ordered, chan = "open",
           NEW a, NEW s, NEW f, NEW r, NEW c, NEW d, Pairs(a, s, f, r, c, d)
    PROVE  Ordered'
<1>1. f = acc.fd /\ s = acc.side /\ r = acc.other /\ c = ConnAt(f) /\ d = ConnAt(mem[r].fd)
  BY DEF Pairs
<1>2. /\ acc.at = "pop" /\ Carrying /\ r \in Addrs /\ s \in Sides /\ Other(s) \in Sides /\ Other(s) # s
      /\ 1 \in DOMAIN free[Other(s)] /\ r = free[Other(s)][1] /\ free[Other(s)] # <<>>
      /\ UNCHANGED <<peer, file, accepted>> /\ acc'.at = "push1"
      /\ \A b \in Addrs : mem'[b].fd = mem[b].fd
      /\ \A x \in Conns : mate'[x] = IF x = c THEN d ELSE IF x = d THEN c ELSE mate[x]
      /\ \A t \in Sides : free'[t] = IF t = Other(s) THEN Tail(free[t]) ELSE free[t]
  <2>1. acc.at = "pop" /\ s \in Sides /\ Other(s) \in Sides
    BY DEF Pairs
  <2>2. free[Other(s)] # <<>> /\ r = Head(free[Other(s)])
    BY <1>1, <2>1 DEF DcInv, InHand
  <2>3. PICK q \in Seq(Addrs) : q = free[Other(s)] /\ q # <<>>
    BY <2>1, <2>2 DEF DcInv, DcTypes
  <2>4. 1 \in DOMAIN q /\ Head(q) = q[1]
    BY <2>3, Shortened
  <2> QED  BY <2>1, <2>2, <2>3, <2>4 DEF Pairs, Carrying
<1>3. DcTypes /\ KernelFits /\ OneSide /\ Sound
  BY DEF DcInv
<1>4. \A t \in Sides : t = s \/ t = Other(s)
  BY <1>2 DEF Sides
<1>5. /\ c = accepted /\ c \in Conns /\ mate[c] = NoConn /\ peer[c].side = s
  <2>1. Open(acc.fd) /\ mate[file[acc.fd]] = NoConn
    BY <1>2, CarriedConn
  <2>2. accepted \in Conns /\ peer[accepted].side = acc.side /\ file[acc.fd] = accepted
    BY <1>2 DEF Ordered
  <2> QED  BY <1>1, <2>1, <2>2 DEF ConnAt
<1>6. /\ d = ConnOf(r) /\ d \in Conns /\ d < c /\ mate[d] = NoConn /\ peer[d].side = Other(s)
  <2>1. file[acc.fd] = accepted
    BY <1>2 DEF Ordered
  <2>2. /\ Open(mem[r].fd) /\ ConnOf(r) \in Conns /\ mate[ConnOf(r)] = NoConn
        /\ ConnOf(r) < accepted
    BY <1>2, <2>1, WaitingConn
  <2>3. peer[ConnOf(r)].side = Other(s)
    BY <1>2 DEF Ordered
  <2>4. d = ConnOf(r)
    BY <1>1, <2>2 DEF ConnOf, ConnAt
  <2> QED  BY <1>5, <2>2, <2>3, <2>4
<1>7. c # d /\ c # NoConn /\ d # NoConn /\ c \in Int /\ d \in Int
  BY <1>5, <1>6, Numbers
<1>8. /\ mate'[c] = d /\ mate'[d] = c
      /\ \A x \in Conns : x \notin {c, d} => mate'[x] = mate[x]
  BY <1>2, <1>5, <1>6, <1>7
<1>9. free[s] = <<>> /\ \A k \in DOMAIN free[s] : FALSE
  <2>1. free[Other(s)] # <<>>
    BY <1>2
  <2> QED  BY <1>2, <1>3, <2>1 DEF OneSide, Sides
<1>10. \A t \in Sides : \A k \in DOMAIN free[t] :
           /\ file[mem'[free[t][k]].fd] = ConnOf(free[t][k])
           /\ ConnOf(free[t][k]) \in Conns
  BY <1>2, WaitingConn DEF ConnOf
<1>11. PICK q \in Seq(Addrs) : q = free[Other(s)] /\ q # <<>>
  BY <1>2, <1>3 DEF DcTypes
<1>12. free'[Other(s)] = Tail(q) /\ free'[s] = <<>>
  BY <1>2, <1>9, <1>11
<1>13. /\ \A k \in DOMAIN Tail(q) : /\ k + 1 \in DOMAIN q /\ Tail(q)[k] = q[k + 1]
                                    /\ k \in Int /\ k + 1 # 1
       /\ \A k \in DOMAIN q : k = 1 \/ (k > 1 /\ k - 1 \in DOMAIN Tail(q) /\ Tail(q)[k - 1] = q[k])
  <2>1. PICK z : z = Tail(q)
    OBVIOUS
  <2>2. /\ Len(z) = Len(q) - 1 /\ Len(q) \in Nat /\ Len(q) > 0
        /\ \A i \in 1..Len(z) : z[i] = q[i + 1]
        /\ DOMAIN z = 1..Len(z) /\ DOMAIN q = 1..Len(q)
    BY <1>11, <2>1
  <2> QED  BY <2>1, <2>2
<1>14. \A t \in Sides : \A k \in DOMAIN free'[t] :
           /\ t = Other(s) /\ k \in DOMAIN Tail(q) /\ free'[t][k] = q[k + 1] /\ k + 1 \in DOMAIN q
  <2>1. \A k \in DOMAIN free'[s] : FALSE
    BY <1>12
  <2> QED  BY <1>4, <1>12, <1>13, <2>1
<1>15. \A t \in Sides : \A k \in DOMAIN free'[t] : peer[file[mem'[free'[t][k]].fd]].side = t
  BY <1>2, <1>10, <1>11, <1>14 DEF Ordered
<1>16. \A t \in Sides : \A k, l \in DOMAIN free'[t] :
           k < l => file[mem'[free'[t][k]].fd] < file[mem'[free'[t][l]].fd]
  <2>1. SUFFICES ASSUME NEW t \in Sides, NEW k \in DOMAIN free'[t], NEW l \in DOMAIN free'[t], k < l
                 PROVE  file[mem'[free'[t][k]].fd] < file[mem'[free'[t][l]].fd]
    OBVIOUS
  <2>2. /\ k + 1 \in DOMAIN free[t] /\ l + 1 \in DOMAIN free[t] /\ k + 1 < l + 1
        /\ free'[t][k] = free[t][k + 1] /\ free'[t][l] = free[t][l + 1]
    BY <1>11, <1>13, <1>14, <2>1
  <2>3. ConnOf(free[t][k + 1]) < ConnOf(free[t][l + 1])
    BY <2>2 DEF Ordered
  <2> QED  BY <1>10, <2>2, <2>3
<1>17. ASSUME NEW x \in Conns, x <= accepted, mate[x] = NoConn, x # c
       PROVE  \E k \in DOMAIN q : ConnOf(q[k]) = x
  <2>1. PICK t \in Sides : \E k \in DOMAIN free[t] : ConnOf(free[t][k]) = x
    BY <1>5, <1>17 DEF Ordered
  <2> QED  BY <1>4, <1>9, <1>11, <2>1
<1>18. \A x \in Conns : x <= accepted /\ mate'[x] = NoConn =>
           \E t \in Sides : \E k \in DOMAIN free'[t] : file[mem'[free'[t][k]].fd] = x
  <2>1. SUFFICES ASSUME NEW x \in Conns, x <= accepted, mate'[x] = NoConn
                 PROVE  \E t \in Sides : \E k \in DOMAIN free'[t] : file[mem'[free'[t][k]].fd] = x
    OBVIOUS
  <2>2. x \notin {c, d} /\ mate[x] = NoConn
    BY <1>7, <1>8, <2>1
  <2>3. PICK k \in DOMAIN q : ConnOf(q[k]) = x
    BY <1>17, <2>1, <2>2
  <2>4. k # 1
    BY <1>2, <1>6, <1>11, <2>2, <2>3
  <2>5. k - 1 \in DOMAIN free'[Other(s)] /\ free'[Other(s)][k - 1] = q[k]
    BY <1>12, <1>13, <2>4
  <2>6. file[mem'[q[k]].fd] = x
    BY <1>2, <1>10, <1>11, <2>3
  <2> QED  BY <1>2, <2>5, <2>6
<1>19. \A x \in Conns : mate'[x] # NoConn =>
           mate'[x] \in Conns /\ mate'[mate'[x]] = x /\ peer[mate'[x]].side # peer[x].side
  <2>1. SUFFICES ASSUME NEW x \in Conns, mate'[x] # NoConn
                 PROVE  mate'[x] \in Conns /\ mate'[mate'[x]] = x /\ peer[mate'[x]].side # peer[x].side
    OBVIOUS
  <2>2. CASE x \in {c, d}
    BY <1>2, <1>5, <1>6, <1>8, <2>2
  <2>3. CASE x \notin {c, d}
    <3>1. mate[x] \in Conns /\ mate[mate[x]] = x /\ peer[mate[x]].side # peer[x].side
      BY <1>8, <2>1, <2>3 DEF Ordered
    <3>2. mate[x] \notin {c, d}
      BY <1>5, <1>6, <2>1, <3>1, Numbers
    <3> QED  BY <1>8, <2>3, <3>1, <3>2
  <2> QED  BY <2>2, <2>3
<1>20. \A x \in Conns : x \in Int /\ mate[x] \in Int /\ (mate[x] # NoConn => mate[x] <= accepted)
  <2>1. \A x \in Conns : x \in Int /\ mate[x] \in Int
    BY <1>3, KernelTyped, Numbers
  <2>2. ASSUME NEW x \in Conns, mate[x] # NoConn PROVE mate[x] <= accepted
    <3>1. mate[x] \in Conns /\ mate[mate[x]] = x /\ x # NoConn
      BY <2>2, Numbers DEF Ordered
    <3>2. ~(mate[x] > accepted)
      BY <1>3, <3>1 DEF KernelFits
    <3> QED  BY <1>3, <2>1, <3>2, KernelTyped
  <2> QED  BY <2>1, <2>2
<1>21. PairedInOrder'
  <2>1. SUFFICES ASSUME NEW x \in Conns, NEW y \in Conns, x < y, peer[x].side = peer[y].side,
                        mate'[y] # NoConn
                 PROVE  mate'[x] # NoConn /\ mate'[x] < mate'[y]
    BY <1>2 DEF PairedInOrder
  <2>2. CASE y \notin {c, d}
    <3>1. mate[x] # NoConn /\ mate[x] < mate[y]
      BY <1>8, <2>1, <2>2 DEF Ordered, PairedInOrder
    <3>2. x \notin {c, d}
      BY <1>5, <1>6, <3>1
    <3> QED  BY <1>8, <2>2, <3>1, <3>2
  <2>3. CASE y = c
    <3>1. x # c /\ x # d /\ x <= accepted /\ mate'[x] = mate[x]
      <4>1. x \in Int /\ x < c /\ peer[x].side = s
        BY <1>5, <1>20, <2>1, <2>3
      <4>2. x # c /\ x # d
        BY <1>2, <1>6, <1>7, <4>1
      <4>3. x <= accepted
        BY <1>5, <1>7, <4>1
      <4> QED  BY <1>8, <4>2, <4>3
    <3>2. mate[x] # NoConn
      <4>1. SUFFICES ASSUME mate[x] = NoConn PROVE FALSE
        OBVIOUS
      <4>2. PICK k \in DOMAIN q : ConnOf(q[k]) = x
        BY <1>17, <3>1, <4>1
      <4>3. peer[x].side = Other(s)
        BY <1>2, <1>11, <4>2 DEF Ordered
      <4> QED  BY <1>2, <1>5, <2>1, <2>3, <4>3
    <3>3. mate[x] \in Conns /\ mate[mate[x]] = x /\ peer[mate[x]].side # peer[x].side /\ x # NoConn
      BY <3>2, Numbers DEF Ordered
    <3>4. peer[mate[x]].side = peer[d].side
      BY <1>3, <1>4, <1>5, <1>6, <2>1, <2>3, <3>3, KernelTyped
    <3>5. mate[x] # d
      BY <1>6, <3>3
    <3>6. ~(d < mate[x])
      BY <1>6, <3>3, <3>4 DEF Ordered, PairedInOrder
    <3>7. mate[x] < d
      BY <1>6, <1>7, <1>20, <3>5, <3>6
    <3> QED  BY <1>8, <2>3, <3>1, <3>2, <3>7
  <2>4. CASE y = d
    <3>1. x < c /\ x # c /\ x # d /\ x <= accepted /\ mate'[x] = mate[x]
      BY <1>5, <1>6, <1>7, <1>8, <1>20, <2>1, <2>4
    <3>2. mate[x] # NoConn
      <4>1. SUFFICES ASSUME mate[x] = NoConn PROVE FALSE
        OBVIOUS
      <4>2. PICK k \in DOMAIN q : ConnOf(q[k]) = x
        BY <1>17, <3>1, <4>1
      <4>3. k # 1 /\ 1 \in DOMAIN q /\ q[1] = r
        BY <1>2, <1>6, <1>11, <3>1, <4>2
      <4>4. 1 < k
        BY <1>13, <4>3
      <4>5. d < x
        BY <1>2, <1>6, <1>11, <4>2, <4>3, <4>4 DEF Ordered
      <4>6. x \in Int /\ x < d
        BY <1>20, <2>1, <2>4
      <4> QED  BY <1>7, <4>5, <4>6
    <3>3. mate[mate[x]] = x /\ x # NoConn /\ mate[x] # c
      BY <1>5, <3>2, Numbers DEF Ordered
    <3>4. mate[x] < c
      <4>1. PICK m \in Int : m = mate[x]
        BY <1>20, <2>1
      <4>2. m <= c /\ m # c
        BY <1>5, <1>20, <2>1, <3>2, <3>3, <4>1
      <4> QED  BY <1>7, <4>1, <4>2
    <3> QED  BY <1>8, <2>4, <3>1, <3>2, <3>4
  <2> QED  BY <2>2, <2>3, <2>4
<1>22. ~Carrying' /\ UNCHANGED <<peer, file, accepted>>
  BY <1>2 DEF Carrying
<1> QED  BY <1>15, <1>16, <1>18, <1>19, <1>21, <1>22 DEF Ordered, ConnOf

\* The order of the pairs at the start, and after each step.
LEMMA OrderStart == ASSUME Init PROVE Ordered
<1>1. /\ \A s \in Sides : free[s] = <<>> /\ \A k \in DOMAIN free[s] : FALSE
      /\ acc.at = "wait" /\ accepted = 0 /\ \A c \in Conns : mate[c] = NoConn /\ ~(c <= accepted)
  <2>1. \A c \in Conns : ~(c <= 0)
    BY ConstantsAssumption DEF Conns
  <2> QED  BY <2>1 DEF Init, AccIdle
<1> QED  BY <1>1 DEF Ordered, PairedInOrder, Carrying

\* Each step keeps the order, as long as it is kept up.
LEMMA OrderStep == ASSUME DcInv, OrderInv, [Next]_vars PROVE OrderInv'
<1>1. SUFFICES ASSUME ~ghosts'.wild, chan' = "open" PROVE Ordered'
  BY DEF OrderInv
<1>2. CASE \E side \in Sides : Accept(side)
  <2>1. PICK side \in Sides : Accept(side)
    BY <1>2
  <2>2. ~ghosts.wild /\ Ordered
    BY <1>1, <2>1 DEF Accept, OrderInv
  <2> QED  BY <2>1, <2>2, AcceptOrders
<1>3. CASE Park
  <2>1. ~ghosts.wild /\ Ordered
    BY <1>1, <1>3 DEF Park, OrderInv
  <2> QED  BY <1>3, <2>1, ParkOrders
<1>4. CASE Pair
  <2>1. chan = "open" /\ ~ghosts.wild /\ Ordered
    <3>1. chan = "open" /\ (ghosts' = ghosts \/ ghosts' = [ghosts EXCEPT !.torn = TRUE, !.wild = TRUE])
      BY <1>1, <1>4 DEF Pair, Tears
    <3>2. ~ghosts.wild
      BY <1>1, <3>1 DEF DcInv, DcTypes
    <3> QED  BY <3>1, <3>2 DEF OrderInv
  <2>2. PICK a, s, f, r : a = acc.me /\ s = acc.side /\ f = acc.fd /\ r = acc.other
    OBVIOUS
  <2>3. PICK c, d : c = ConnAt(f) /\ d = ConnAt(mem[r].fd)
    OBVIOUS
  <2>4. Pairs(a, s, f, r, c, d)
    BY <1>4, <2>2, <2>3, PairEffect
  <2> QED  BY <2>1, <2>4, PairOrders
<1>5. CASE Next /\ ~(\E side \in Sides : Accept(side)) /\ ~Park /\ ~Pair
  <2>1. Calm /\ ~ghosts.wild /\ chan = "open"
    BY <1>1, <1>5, Calmly
  <2> QED  BY <2>1, OrderKept DEF OrderInv
<1>6. CASE UNCHANGED vars
  <2>1. UNCHANGED <<peer, file, mem, free, acc, chan, accepted, mate, ghosts>>
    BY <1>6 DEF vars
  <2>2. Calm /\ ~ghosts.wild /\ Ordered
    BY <1>1, <2>1 DEF Calm, Carrying, ConnOf, OrderInv
  <2> QED  BY <2>2, OrderKept
<1> QED  BY <1>2, <1>3, <1>4, <1>5, <1>6

\* The pairing of users with connections of the client is sound as long as no block is
\* used that is another's and the channel is not being deleted (date_socket_accept).
THEOREM PairingUntilWild == Spec => [](~ghosts.wild /\ chan = "open" => PairingIsSound)
<1>1. Init => DcInv /\ OrderInv
  BY DcStart, OrderStart DEF OrderInv
<1>2. DcInv /\ OrderInv /\ [Next]_vars => DcInv' /\ OrderInv'
  BY DcStep, OrderStep
<1>3. DcInv /\ OrderInv => (~ghosts.wild /\ chan = "open" => PairingIsSound)
  <2>1. SUFFICES ASSUME DcInv, Ordered, ~ghosts.wild PROVE PairingIsSound
    BY DEF OrderInv
  <2>2. PairedInOrder
    BY <2>1 DEF Ordered
  <2>3. OneSideWaits
    BY <2>1, WaitingConn DEF DcInv, OneSide, OneSideWaits
  <2>4. OrphanIsClosing
    BY <2>1 DEF DcInv, Sound, Orphans, OrphanIsClosing, Serving
  <2> QED  BY <2>2, <2>3, <2>4 DEF PairingIsSound
<1> QED  BY <1>1, <1>2, <1>3, PTL DEF Spec

\* It is sound for ever when no peer resets its connection and the channel is not deleted.
THEOREM PairingIsSoundSafety == ~MayReset /\ ~MayDelete => (Spec => []PairingIsSound)
<1> SUFFICES ASSUME ~MayReset, ~MayDelete PROVE Spec => []PairingIsSound
  OBVIOUS
<1> DEFINE Peace == DcInv /\ chan = "open" /\ ghosts.reset = {}
<1>1. Init => Peace
  BY DcStart DEF Init
<1>2. ASSUME Peace, [Next]_vars PROVE Peace'
  <2>1. DcInv'
    BY <1>2, DcStep
  <2>2. chan' = chan
    BY <1>2 DEF Next, Peer, PeerSends, PeerCloses, PeerResets, Accept, AcceptThread,
       GetInfo, Park, Look, Front, Pair, PushOwn, PushOther, Push, Tears, AddFirst, AddSecond,
       AddEpoll, EpollThread, EpollWait, Handle, HandleClose, HandleReset, HandleFin, HandleData,
       CloseFd, DelInfo, Business, CloseListeners, Drain, LoopEnds, DrainFree, DrainBusy, InLoop,
       CloseQueued, vars
  <2>3. ghosts'.reset = ghosts.reset
    BY <1>2 DEF DcInv, DcTypes, Next, Peer, PeerSends, PeerCloses, PeerResets, Accept, AcceptThread,
       GetInfo, Park, Look, Front, Pair, PushOwn, PushOther, Push, Tears, AddFirst, AddSecond,
       AddEpoll, EpollThread, EpollWait, Handle, HandleClose, HandleReset, HandleFin, HandleData,
       CloseFd, DelInfo, Business, CloseListeners, Drain, LoopEnds, DrainFree, DrainBusy, InLoop,
       CloseQueued, vars
  <2> QED  BY <1>2, <2>1, <2>2, <2>3
<1>3. Peace => ~ghosts.wild /\ chan = "open"
  BY DEF DcInv, Tamed
<1> QED  BY <1>1, <1>2, <1>3, PairingUntilWild, PTL DEF Spec

=============================================================================
