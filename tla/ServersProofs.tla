----------------------------- MODULE ServersProofs -----------------------------
(***************************************************************************)
(* Proofs about the two tunnel servers: ServerLife, SvpnServer,            *)
(* BusinessServer and SvpnChannel, for any numbers of clients, channels    *)
(* and connections.                                                        *)
(***************************************************************************)
EXTENDS BusinessServer, SvpnServer, ServerLife, SvpnChannel, FiniteSetTheorems, TLAPS

(***************************************************************************)
(* ServerLife: close() takes nothing away that the accept thread uses.     *)
(***************************************************************************)
\* The clients are closed, and what they own with them.
ClientsClosed == main \in {"closeManager", "closeListener", "closeData",
                           "deleteBusiness", "deleteData", "terminated"}

\* Nothing is deleted before; after it the accept thread has nothing to do, unless it
\* was busy just then or has a channel of nobody.
LifeInv ==
    /\ chState \in [LifeChannels -> {"none", "owned", "orphan", "closed"}]
    /\ main \in {"start", "ended", "exec", "stopData", "closeClients"} \/ ClientsClosed
    /\ ~ClientsClosed =>
          /\ misused = {} /\ freed = {}
          /\ IF main \in {"start", "ended"} THEN acceptor.at = "none" ELSE listenFd = "open"
    /\ ClientsClosed => \/ overlap \/ InState("orphan") # {}
                        \/ /\ acceptor.at = "wait" /\ \A ch \in LifeChannels : ~Open(ch)
                           /\ listenFd \notin LifeUsers /\ misused = {}

\* Nobody takes a channel from nobody: an orphan stays one.
LEMMA OrphansStay ==
    ASSUME LifeInv, LifeNext
    PROVE  \A ch \in InState("orphan") : ch \in InState("orphan")'
  BY DEF LifeInv, LifeNext, InState, LifeStart, LifeCreate, ClientDeparts, Poll, StopServer,
         CloseClients, CloseManager, CloseListener, CloseData, DeleteBusiness, DeleteData,
         EpollExits, AcceptFails, AskClient, QueueUser, LifeAccept, DeleteAll, Open

\* Each step of the main thread, the epoll threads and the accept thread keeps it.
LEMMA LifeStep ==
    ASSUME LifeInv, [LifeNext]_lifeVars
    PROVE  LifeInv'
  <1>1. CASE UNCHANGED lifeVars
    BY <1>1 DEF LifeInv, lifeVars, threads, history, ClientsClosed, InState, Open
  <1>2. CASE LifeNext
    <2>1. chState' \in [LifeChannels -> {"none", "owned", "orphan", "closed"}]
      BY <1>2 DEF LifeInv, LifeNext, LifeStart, LifeCreate, ClientDeparts, Poll, StopServer,
         CloseClients, CloseManager, CloseListener, CloseData, DeleteBusiness, DeleteData,
         EpollExits, AcceptFails, AskClient, QueueUser, LifeAccept, DeleteAll
    <2>2. CASE CloseClients
      BY <2>1, <2>2, LifeAssumption DEF LifeInv, CloseClients, ClientsClosed, DeleteAll,
         InState, Open, threads
    <2>3. CASE CloseManager \/ CloseListener \/ CloseData \/ DeleteBusiness \/ DeleteData
      BY <2>1, <2>3, LifeAssumption
         DEF LifeInv, CloseManager, CloseListener, CloseData, DeleteBusiness, DeleteData,
             ClientsClosed, InState, Open, threads, history
    <2>4. CASE LifeStart
      BY <2>1, <2>4 DEF LifeInv, LifeStart, ClientsClosed, Waits, history
    <2>5. ASSUME NEW s \in Servers,
                 \/ EpollExits(s) \/ StopServer("business", "exec", "stopData")
                 \/ StopServer("data", "stopData", "closeClients")
          PROVE  LifeInv'
      BY <2>1, <2>5 DEF LifeInv, EpollExits, StopServer, ClientsClosed, InState, Open, history
    <2>6. ASSUME NEW ch \in LifeChannels, LifeCreate(ch) \/ ClientDeparts(ch) \/ Poll(ch)
          PROVE  LifeInv'
      BY <2>1, <2>6, OrphansStay, <1>2
         DEF LifeInv, LifeCreate, ClientDeparts, Poll, ClientsClosed, DeleteAll, InState, Open,
             threads, history
    <2>7. CASE AcceptFails \/ AskClient \/ QueueUser
      BY <2>1, <2>7 DEF LifeInv, AcceptFails, AskClient, QueueUser, ClientsClosed,
                        InState, Open, threads, history, Uses, Waits
    <2>8. ASSUME NEW u \in LifeUsers, LifeAccept(u)
          PROVE  LifeInv'
      BY <2>1, <2>8 DEF LifeInv, LifeAccept, ClientsClosed, InState, Open, threads, history
    <2>9. QED
      BY <1>2, <2>2, <2>3, <2>4, <2>5, <2>6, <2>7, <2>8 DEF LifeNext, Servers
  <1>3. QED
    BY <1>1, <1>2

\* Until its clients are closed the server deletes nothing, and after that the accept thread
\* has nothing in hand, but for an accept under way or a channel of nobody (vpn_core.cpp).
THEOREM LifeInvariance == LifeSpec => []LifeInv
  <1>1. LifeInit => LifeInv
    BY DEF LifeInit, LifeInv, ClientsClosed, Waits
  <1>2. QED
    BY <1>1, LifeStep, PTL DEF LifeSpec

\* The accept thread that stop() leaves running uses nothing that close() took away,
\* but for a channel of nobody or an accept that was under way then (vpn_core.cpp).
THEOREM ShutdownSafety == LifeSpec => []ShutdownIsClean
  <1>1. LifeInv => ShutdownIsClean
    BY DEF LifeInv, ShutdownIsClean
  <1>2. QED
    BY <1>1, LifeInvariance, PTL
-----------------------------------------------------------------------------
(***************************************************************************)
(* SvpnServer: a client's channels die with it, and nothing else does.     *)
(***************************************************************************)
SvTypeOK ==
    /\ client \in [Clients -> {"none", "listed", "deleted", "erased"}]
    /\ owner \in [SvChannels -> Clients \cup {None}]
    /\ chan \in [SvChannels -> {"none", "new", "open", "failed", "half", "deleted"}]
    /\ nextId \in Nat \ {0}
    /\ console.at \in {"rest", "insert", "init"}
    /\ console.at # "rest" => console.id \in SvChannels /\ console.client \in Clients
    /\ ep.at \in {"rest", "delete", "free", "erase"}
    /\ ep.at # "rest" => ep.client \in Clients
    /\ asks \subseteq SvChannels
    /\ life \in {"down", "up", "stopped", "closed", "terminated"}

\* A channel is in the map of a client from its insertion until it is deleted, and
\* only the channel that the console is about to initialise is new.
OwnedWhileThere ==
    /\ \A n \in SvChannels :
        /\ owner[n] # None <=> chan[n] \in {"new", "open", "failed", "half"}
        /\ n >= nextId => chan[n] = "none"
    /\ console.at = "insert" => console.id = nextId
    /\ console.at = "init" => chan[console.id] = "new"

\* A client whose channels are being closed is listed, and when the loop has ended it has
\* none but those that the console has inserted since.
ClientsListed ==
    /\ console.at = "insert" => client[console.client] # "none"
    /\ ep.at \in {"delete", "free"} => client[ep.client] = "listed"
    /\ ep.at = "erase" => client[ep.client] = "deleted"
    /\ ep.at = "free" => \A n \in Held(ep.client) : <<"insert", n>> \in raced
    /\ \A n \in SvChannels :
          owner[n] # None /\ <<"insert", n>> \notin raced => client[owner[n]] = "listed"
    /\ \A n \in asks : owner[n] # None
    /\ \A n \in SvChannels : <<"ask", n>> \in raced => <<"insert", n>> \in raced

\* The end of the process leaves the channel that caused it in the map.
KilledByHalfMade ==
    life = "terminated" =>
        /\ ep.at = "delete"
        /\ \E n \in Held(ep.client) : chan[n] \in {"failed", "half"} \/ <<"close", n>> \in raced

SvInv == SvTypeOK /\ OwnedWhileThere /\ ClientsListed /\ KilledByHalfMade

\* Each step of the console, the epoll thread and the accept threads keeps it.
LEMMA SvStep ==
    ASSUME SvInv, [SvNext]_svVars
    PROVE  SvInv'
  <1> USE DEF SvInv
  <1>1. CASE UNCHANGED svVars
    BY <1>1 DEF svVars, SvTypeOK, OwnedWhileThere, ClientsListed, KilledByHalfMade, Held
  <1>2. CASE StartServer \/ Quit \/ CloseServer
    BY <1>2 DEF StartServer, Quit, CloseServer,
                SvTypeOK, OwnedWhileThere, ClientsListed, KilledByHalfMade, Held
  <1>3. ASSUME NEW c \in Clients, FindSvClient(c) \/ AddClient(c) \/ DelClient(c)
        PROVE  SvInv'
    <2>1. SvTypeOK'
      <3>1. FindSvClient(c) => SvTypeOK'
        BY SvAssumption DEF FindSvClient, SvTypeOK, SvChannels
      <3>2. AddClient(c) => SvTypeOK'
        BY DEF AddClient, SvTypeOK
      <3>3. DelClient(c) => SvTypeOK'
        BY DEF DelClient, SvTypeOK
      <3>4. QED
        BY <1>3, <3>1, <3>2, <3>3
    <2>2. OwnedWhileThere' /\ ClientsListed' /\ KilledByHalfMade'
      BY <1>3, SvAssumption DEF FindSvClient, AddClient, DelClient,
                  SvTypeOK, OwnedWhileThere, ClientsListed, KilledByHalfMade, Held
    <2>3. QED
      BY <2>1, <2>2
  <1>4. CASE InsertChannel
    <2>1. SvTypeOK'
      BY <1>4, SvAssumption DEF InsertChannel, Race, SvTypeOK, SvChannels
    <2>2. OwnedWhileThere'
      BY <1>4, SvAssumption DEF InsertChannel, SvTypeOK, OwnedWhileThere, SvChannels
    <2>3. /\ console.id \in SvChannels /\ chan[console.id] = "none" /\ owner[console.id] = None
          /\ owner' = [owner EXCEPT ![console.id] = console.client] /\ console'.at = "init"
          /\ chan' = [chan EXCEPT ![console.id] = "new"]
          /\ life # "terminated" /\ UNCHANGED <<client, ep, asks, leaked, life>>
      BY <1>4 DEF InsertChannel, SvTypeOK, OwnedWhileThere
    <2>4. /\ raced \subseteq raced'
          /\ \A n \in SvChannels : <<"ask", n>> \in raced' => <<"ask", n>> \in raced
          /\ Departs(console.client) => <<"insert", console.id>> \in raced'
      BY <1>4 DEF InsertChannel, Race
    <2>5. \A n \in SvChannels :
             /\ owner'[n] = IF n = console.id THEN console.client ELSE owner[n]
             /\ chan'[n] = IF n = console.id THEN "new" ELSE chan[n]
      BY <2>3 DEF SvTypeOK
    <2>6. ClientsListed'
      BY <2>3, <2>4, <2>5 DEF SvTypeOK, ClientsListed, Departs, Held
    <2>7. KilledByHalfMade'
      BY <2>3 DEF KilledByHalfMade
    <2>8. QED
      BY <2>1, <2>2, <2>6, <2>7
  <1>5. CASE InitChannel
    BY <1>5, SvAssumption DEF InitChannel, Resting,
                SvTypeOK, OwnedWhileThere, ClientsListed, KilledByHalfMade, Held
  <1>6. ASSUME NEW n \in SvChannels, DeleteSvChannel(n)
        PROVE  SvInv'
    <2>1. /\ ep.at = "delete" /\ owner[n] = ep.client /\ life # "terminated" /\ n \notin asks
          /\ UNCHANGED <<client, nextId, console, ep, asks, leaked>>
      BY <1>6 DEF DeleteSvChannel, Held
    <2>2. CASE chan[n] = "open"
      <3>1. /\ chan' = [chan EXCEPT ![n] = "deleted"] /\ owner' = [owner EXCEPT ![n] = None]
            /\ UNCHANGED <<life, raced>>
        BY <1>6, <2>2 DEF DeleteSvChannel
      <3>2. SvTypeOK' /\ OwnedWhileThere'
        BY <2>1, <2>2, <3>1, SvAssumption DEF SvTypeOK, OwnedWhileThere
      <3>3. ClientsListed'
        BY <2>1, <3>1, SvAssumption DEF SvTypeOK, ClientsListed
      <3>4. KilledByHalfMade'
        BY <2>1, <3>1 DEF KilledByHalfMade
      <3>5. QED
        BY <3>2, <3>3, <3>4
    <2>3. CASE chan[n] # "open"
      <3>1. /\ life' = "terminated" /\ UNCHANGED <<chan, owner>> /\ raced \subseteq raced'
            /\ \A k \in SvChannels : <<"ask", k>> \in raced' => <<"ask", k>> \in raced
            /\ chan[n] = "new" => <<"close", n>> \in raced'
        BY <1>6, <2>3 DEF DeleteSvChannel, Race
      <3>2. SvTypeOK' /\ OwnedWhileThere'
        BY <2>1, <3>1 DEF SvTypeOK, OwnedWhileThere
      <3>3. ClientsListed'
        BY <2>1, <3>1 DEF SvTypeOK, ClientsListed, Held
      <3>4. chan[n] \in {"new", "failed", "half"}
        BY <2>1, <2>3, SvAssumption DEF SvTypeOK, OwnedWhileThere
      <3>5. KilledByHalfMade'
        BY <2>1, <3>1, <3>4 DEF KilledByHalfMade, Held
      <3>6. QED
        BY <3>2, <3>3, <3>5
    <2>4. QED
      BY <2>2, <2>3
  <1>7. CASE LoopEnds
    BY <1>7 DEF LoopEnds, SvTypeOK, OwnedWhileThere, ClientsListed, KilledByHalfMade, Held
  <1>8. CASE DeleteSvClient \/ EraseSvClient
    <2>1. /\ life # "terminated" /\ ep.at \in {"free", "erase"} /\ ep.client \in Clients
          /\ client' \in [Clients -> {"none", "listed", "deleted", "erased"}]
          /\ \A c \in Clients \ {ep.client} : client'[c] = client[c]
          /\ client'[ep.client] = IF ep.at = "free" THEN "deleted" ELSE "erased"
          /\ ep' = IF ep.at = "free" THEN [ep EXCEPT !.at = "erase"] ELSE Resting
          /\ UNCHANGED <<owner, chan, nextId, console, asks, leaked, life, raced>>
      BY <1>8 DEF DeleteSvClient, EraseSvClient, SvTypeOK, KilledByHalfMade
    <2>2. SvTypeOK'
      BY <2>1 DEF SvTypeOK, Resting
    <2>3. OwnedWhileThere' /\ KilledByHalfMade'
      BY <2>1 DEF OwnedWhileThere, KilledByHalfMade
    <2>4. \A n \in SvChannels : owner[n] = ep.client => <<"insert", n>> \in raced
      BY <2>1, SvAssumption DEF ClientsListed, Held, SvTypeOK
    <2>5. ClientsListed'
      BY <2>1, <2>4, SvAssumption DEF SvTypeOK, ClientsListed, Held, Resting
    <2>6. QED
      BY <2>2, <2>3, <2>5
  <1>9. ASSUME NEW n \in SvChannels, LookUp(n) \/ SendCreate(n)
        PROVE  SvInv'
    BY <1>9, SvAssumption DEF LookUp, SendCreate, Race,
                SvTypeOK, OwnedWhileThere, ClientsListed, KilledByHalfMade, Held
  <1>10. QED
    BY <1>1, <1>2, <1>3, <1>4, <1>5, <1>6, <1>7, <1>8, <1>9 DEF SvNext, SvConsole, Controls

\* A client is listed until its loop over its channels has ended, and what is in its map
\* then was inserted by the console meanwhile (s_vpn.cpp).
THEOREM SvInvariance == SvSpec => []SvInv
  <1>1. SvInit => SvInv
    BY SvAssumption DEF SvInit, SvInv, Resting, SvTypeOK, OwnedWhileThere, ClientsListed,
                        KilledByHalfMade, SvChannels
  <1>2. QED
    BY <1>1, SvStep, PTL DEF SvSpec

\* Deleting a client of the first server is the end of its channels, but for one that the
\* console inserts when the loop of del_client has ended, and terminates the process only
\* over a channel whose init has failed or not been called yet (create_channel_server).
THEOREM ChannelsDieAloneSafety == SvSpec => []ChannelsDieAlone
  <1>1. SvInv => ChannelsDieAlone
    BY DEF SvInv, ChannelsDieAlone, ChannelsDieWithClient, OnlyHalfMadeChannelsKill,
           SvTypeOK, OwnedWhileThere, ClientsListed, KilledByHalfMade
  <1>2. QED
    BY <1>1, SvInvariance, PTL
-----------------------------------------------------------------------------
(***************************************************************************)
(* The least and the largest of a finite set of numbers exist: by          *)
(* well-foundedness of strict inclusion among the sets of numbers up to x. *)
(***************************************************************************)
LEMMA LeastExists ==
    ASSUME NEW S \in SUBSET Int, IsFiniteSet(S), S # {}
    PROVE  \E x \in S : \A y \in S : x <= y
  <1> DEFINE UpTo(x) == {y \in S : y <= x}
             T == {UpTo(x) : x \in S}
  <1>1. IsWellFoundedOn(StrictSubsetOrdering(S), SUBSET S)
    BY FS_StrictSubsetOrderingWellFounded, FS_FiniteSubsetsOfFinite
  <1>2. T \subseteq SUBSET S /\ T # {}
    OBVIOUS
  <1>3. PICK B \in T : \A C \in T : ~ (<<C, B>> \in StrictSubsetOrdering(S))
    <2> HIDE DEF T
    <2> QED
      BY <1>1, <1>2, WFMin
  <1>4. PICK x \in S : B = UpTo(x)
    BY <1>3
  <1>5. ASSUME NEW y \in S, ~(x <= y)
        PROVE  FALSE
    <2>1. x \in Int /\ y \in Int /\ y <= x
      BY <1>5
    <2>2. UpTo(y) \in T
      OBVIOUS
    <2>3. x \in UpTo(x) /\ x \notin UpTo(y)
      BY <2>1, <1>5
    <2>4. ASSUME NEW z \in S, z <= y
          PROVE  z <= x
      BY <2>1, <2>4
    <2>5. UpTo(y) \subseteq UpTo(x)
      BY <2>4
    <2>6. <<UpTo(y), UpTo(x)>> \in StrictSubsetOrdering(S)
      BY <2>3, <2>5 DEF StrictSubsetOrdering
    <2>7. QED
      BY <2>2, <2>6, <1>3, <1>4
  <1>6. QED
    BY <1>5

\* The least number of a set is one of it.
LEMMA LeastIsLeast ==
    ASSUME NEW n \in Nat, NEW S \in SUBSET (1..n), S # {}
    PROVE  Least(S) \in S /\ \A y \in S : Least(S) <= y
  <1>1. IsFiniteSet(1..n) /\ 1..n \subseteq Int
    BY FS_Interval
  <1>2. IsFiniteSet(S) /\ S \subseteq Int
    BY <1>1, FS_Subset
  <1>3. QED
    BY <1>2, LeastExists DEF Least

\* The largest number of a finite set is one of it.
LEMMA LargestIsLargest ==
    ASSUME NEW n \in Nat, NEW S \in SUBSET (1..n)
    PROVE  Largest(S) \in 0..n /\ \A y \in S : Largest(S) >= y
  <1>1. CASE S = {}
    BY <1>1 DEF Largest
  <1>2. CASE S # {}
    <2> DEFINE Gap == {n - x : x \in S}
    <2>1. Gap \in SUBSET (0..n) /\ Gap # {}
      BY <1>2
    <2>2. IsFiniteSet(0..n)
      BY FS_Interval
    <2>3. IsFiniteSet(Gap) /\ Gap \subseteq Int
      BY <2>2, <2>1, FS_Subset
    <2>4. PICK g \in Gap : \A h \in Gap : g <= h
      BY <2>1, <2>3, LeastExists
    <2>5. PICK x \in S : g = n - x
      BY <2>4
    <2>6. \A y \in S : x >= y
      <3>1. ASSUME NEW y \in S
            PROVE  x >= y
        <4>1. n - y \in Gap
          OBVIOUS
        <4>2. n - x <= n - y /\ x \in 1..n /\ y \in 1..n
          BY <4>1, <2>4, <2>5
        <4>3. QED
          BY <4>2
      <3>2. QED
        BY <3>1
    <2>7. \E z \in S : \A y \in S : z >= y
      BY <2>6
    <2>8. Largest(S) \in S /\ \A y \in S : Largest(S) >= y
      BY <2>7, <1>2 DEF Largest
    <2>9. Largest(S) \in 1..n
      BY <2>8
    <2>10. QED
      BY <2>8, <2>9
  <1>3. QED
    BY <1>1, <1>2
-----------------------------------------------------------------------------
(***************************************************************************)
(* BusinessServer: the maps that three threads use without a lock.         *)
(***************************************************************************)
\* The client's connection has ended, and its departure has begun.
Departing(i) == conn[i] \in {"leaving", "gone"}
Creating     == {"bind", "listenOut", "listenIn", "insertData", "insertClient"}

ConType == {Idle} \cup [at : Creating, id : Ids, ch : Chs, fd : {0}, stray : {FALSE}]
BizType == {Idle} \cup [at : {"channels", "close"}, id : Ids, ch : 0..MaxChannels, fd : {0}, stray : {FALSE}]
AccType == {Idle} \cup [at : {"client", "channel"}, id : Ids, ch : Chs, fd : {0}, stray : BOOLEAN]
                  \cup [at : {"send"}, id : Ids, ch : Chs, fd : Fds, stray : BOOLEAN]

\* Where the threads are; the client and channel that each one is busy with.
BizTypeOK ==
    /\ conn \in [Ids -> {"none", "up", "leaving", "gone"}]
    /\ file \in [Fds -> Ids \cup {Nobody}] /\ fdOf \in [Ids -> 0..NFds]
    /\ clients \subseteq Ids /\ channels \in [Ids -> SUBSET Chs]
    /\ listener \in [Channels -> {"none", "open", "closed"}]
    /\ lost \subseteq Channels /\ stray \subseteq Channels
    /\ con \in ConType /\ biz \in BizType /\ acc \in AccType

\* A connection is in the map until the epoll thread erases it, has its descriptor until
\* the epoll thread closes it, and never comes back.
Registered ==
    /\ \A i \in Ids : conn[i] = "leaving" <=> biz # Idle /\ biz.id = i
    /\ \A i \in Ids : i \in clients <=> conn[i] = "up" \/ (conn[i] = "leaving" /\ biz.at = "channels")
    /\ \A i \in Ids : conn[i] \in {"up", "leaving"} => fdOf[i] \in Fds /\ file[fdOf[i]] = i
    /\ \A i \in Ids : conn[i] = "gone" => fdOf[i] \in Fds /\ (file[fdOf[i]] = Nobody \/ file[fdOf[i]] > i)
    /\ \A i, j \in Ids : conn[i] = "none" /\ i < j => conn[j] = "none"
    /\ \A f \in Fds : file[f] # Nobody => conn[file[f]] # "none"
    /\ con # Idle => conn[con.id] # "none"
    /\ acc # Idle => conn[acc.id] # "none" \/ (acc.stray /\ acc.at = "client")
    /\ \A c \in Channels : listener[c] # "none" => conn[c[1]] # "none"

\* Whose departure overtook a call of another thread is remembered.
Overtaken ==
    /\ con # Idle /\ Departing(con.id) => <<"console", con.id>> \in ghosts.overlapped
    /\ acc # Idle /\ conn[acc.id] = "leaving" => <<"accept", acc.id>> \in ghosts.overlapped
    /\ acc.at \in {"channel", "send"} /\ Departing(acc.id) => <<"accept", acc.id>> \in ghosts.overlapped
    /\ acc.at = "send" => acc.fd = fdOf[acc.id] \/ "accept" \in ghosts.freed

\* A channel that is being created has a new number, ...
NumberIsNew ==
    /\ con.at \in Creating /\ (conn[con.id] = "up" \/ "console" \notin ghosts.freed)
           => con.ch \notin channels[con.id]
    /\ "console" \notin ghosts.freed =>
           \A c \in Channels : listener[c] # "none" =>
               c[2] \in channels[c[1]] \/ (con.at = "insertClient" /\ c = <<con.id, con.ch>>)

\* ... is in the map of the listeners before it is in its client's, and nowhere else ...
HalfMade(c) == con.id = c[1] /\ con.ch = c[2]
ListensFirst ==
    \A c \in Channels :
        conn[c[1]] = "up" =>
            /\ c[2] \in channels[c[1]] => listener[c] = "open"
            /\ HalfMade(c) /\ con.at = "insertClient" => listener[c] = "open"
            /\ listener[c] = "open" => c[2] \in channels[c[1]] \/ (HalfMade(c) /\ con.at = "insertClient")
            /\ listener[c] # "closed"

\* ... and is closed when the departure of its client comes to it, or was overtaken; only
\* then its key may be taken when it is entered.
ClosedInTurn ==
    /\ \A c \in Channels :
          Departing(c[1]) /\ <<"console", c[1]>> \notin ghosts.overlapped =>
              (listener[c] = "open" => /\ conn[c[1]] = "leaving" /\ biz.at = "channels"
                                       /\ c[2] \in channels[c[1]] /\ c[2] > biz.ch)
    /\ \A c \in lost : Departing(c[1]) /\ <<"console", c[1]>> \in ghosts.overlapped

\* What the accept thread holds was in the epoll set when it accepted.
AcceptedIsListening ==
    acc # Idle /\ ~acc.stray /\ conn[acc.id] = "up" =>
        LET c == <<acc.id, acc.ch>> IN listener[c] = "open" \/ Nascent(c) \/ c \in stray

GhostsOK == ghosts = [freed |-> ghosts.freed, overlapped |-> ghosts.overlapped]

\* A channel belongs to a client that has connected.
NoChannelsYet == \A i \in Ids : conn[i] = "none" => channels[i] = {}

BizInv == /\ BizTypeOK /\ GhostsOK /\ NoChannelsYet /\ Registered /\ Overtaken
          /\ NumberIsNew /\ ListensFirst /\ ClosedInTurn
          /\ AcceptedIsListening /\ FreedOnlyIfOvertaken /\ RequestReachesOwner
          /\ \A m \in asked : m.to \in Ids /\ m.owner \in Ids

\* The sets that the types are made of, folded.
LEMMA BizSets ==
    /\ MaxClients \in Nat /\ MaxChannels \in Nat /\ NFds \in Nat
    /\ Ids = 1..MaxClients /\ Chs = 1..MaxChannels /\ Fds = 1..NFds
    /\ Ids \subseteq Nat \ {0} /\ Chs \subseteq Nat \ {0} /\ Fds \subseteq Nat \ {0}
    /\ Fds \subseteq 0..NFds /\ Chs \subseteq 0..MaxChannels
    /\ \A i \in Ids, ch \in Chs : <<i, ch>> \in Channels
    /\ \A c \in Channels : c[1] \in Ids /\ c[2] \in Chs /\ c = <<c[1], c[2]>>
    /\ Nobody = 0 /\ Nobody \notin Ids /\ 0 \in 0..MaxChannels /\ 0 \in 0..NFds
  BY ConstantsAssumption DEF Ids, Chs, Fds, Channels, Nobody

\* What a busy thread is busy with.
LEMMA BizThreads ==
    ASSUME BizTypeOK
    PROVE  /\ con.at \in Creating \cup {"idle"} /\ (con = Idle <=> con.at = "idle")
           /\ con # Idle => con.id \in Ids /\ con.ch \in Chs
           /\ con = Idle => con.id = Nobody
           /\ biz.at \in {"idle", "channels", "close"} /\ (biz = Idle <=> biz.at = "idle")
           /\ biz # Idle => biz.id \in Ids /\ biz.ch \in 0..MaxChannels
           /\ acc.at \in {"idle", "client", "channel", "send"} /\ (acc = Idle <=> acc.at = "idle")
           /\ acc # Idle => acc.id \in Ids /\ acc.ch \in Chs
           /\ acc = Idle => acc.id = Nobody
           /\ acc.at = "send" => acc.fd \in Fds
  <1>1. /\ con.at \in Creating \cup {"idle"} /\ (con = Idle <=> con.at = "idle")
        /\ con # Idle => con.id \in Ids /\ con.ch \in Chs
        /\ con = Idle => con.id = Nobody
    <2>1. con = Idle \/ con \in [at : Creating, id : Ids, ch : Chs, fd : {0}, stray : {FALSE}]
      BY DEF BizTypeOK, ConType
    <2>2. Idle.at = "idle" /\ Idle.id = Nobody
      BY DEF Idle
    <2>3. QED
      BY <2>1, <2>2 DEF Creating
  <1>2. /\ biz.at \in {"idle", "channels", "close"} /\ (biz = Idle <=> biz.at = "idle")
        /\ biz # Idle => biz.id \in Ids /\ biz.ch \in 0..MaxChannels
    <2>1. \/ biz = Idle
          \/ biz \in [at : {"channels", "close"}, id : Ids, ch : 0..MaxChannels, fd : {0}, stray : {FALSE}]
      BY DEF BizTypeOK, BizType
    <2>2. Idle.at = "idle"
      BY DEF Idle
    <2>3. QED
      BY <2>1, <2>2
  <1>3. /\ acc.at \in {"idle", "client", "channel", "send"} /\ (acc = Idle <=> acc.at = "idle")
        /\ acc # Idle => acc.id \in Ids /\ acc.ch \in Chs
        /\ acc = Idle => acc.id = Nobody
        /\ acc.at = "send" => acc.fd \in Fds
    BY DEF BizTypeOK, AccType, Idle
  <1>4. QED
    BY <1>1, <1>2, <1>3

\* The records that the actions build are of the types of the variables.
LEMMA BizRecords ==
    ASSUME BizTypeOK
    PROVE  /\ con = [at |-> con.at, id |-> con.id, ch |-> con.ch, fd |-> con.fd, stray |-> con.stray]
           /\ biz = [at |-> biz.at, id |-> biz.id, ch |-> biz.ch, fd |-> biz.fd, stray |-> biz.stray]
           /\ acc = [at |-> acc.at, id |-> acc.id, ch |-> acc.ch, fd |-> acc.fd, stray |-> acc.stray]
  <1>1. con = [at |-> con.at, id |-> con.id, ch |-> con.ch, fd |-> con.fd, stray |-> con.stray]
    BY DEF BizTypeOK, ConType, Idle
  <1>2. biz = [at |-> biz.at, id |-> biz.id, ch |-> biz.ch, fd |-> biz.fd, stray |-> biz.stray]
    BY DEF BizTypeOK, BizType, Idle
  <1>3. acc = [at |-> acc.at, id |-> acc.id, ch |-> acc.ch, fd |-> acc.fd, stray |-> acc.stray]
    BY DEF BizTypeOK, AccType, Idle
  <1>4. QED
    BY <1>1, <1>2, <1>3

\* The next channel of a departing client is the least of those that are left.
LEMMA LaterLeast ==
    ASSUME BizTypeOK, DeleteChannel
    PROVE  Least(Later) \in Later /\ Later \subseteq Chs /\ \A ch \in Later : Least(Later) <= ch
  <1>1. biz.id \in Ids /\ Later # {}
    BY BizThreads DEF DeleteChannel
  <1>2. Later \subseteq Chs
    BY <1>1 DEF Later, BizTypeOK
  <1>3. QED
    BY <1>1, <1>2, BizSets, LeastIsLeast

\* Each action keeps the types.
LEMMA BizTypeStep ==
    ASSUME BizInv, Next
    PROVE  BizTypeOK'
  <1> USE BizSets, BizThreads DEF BizTypeOK, net, registry, data
  <1>1. BizTypeOK
    BY DEF BizInv
  <1>2. CASE Connect
    <2> DEFINE Unused == {j \in Ids : conn[j] = "none"}
               Closed == {g \in Fds : file[g] = Nobody}
    <2>1. Least(Unused) \in Unused /\ Least(Closed) \in Closed
      BY <1>2, LeastIsLeast DEF Connect
    <2>2. QED
      BY <1>1, <1>2, <2>1 DEF Connect
  <1>3. ASSUME NEW i \in Ids, Leave(i)
        PROVE  BizTypeOK'
    <2>1. biz' \in BizType
      BY <1>3 DEF Leave, BizType, Idle
    <2>2. QED
      BY <1>1, <1>3, <2>1 DEF Leave
  <1>4. CASE DeleteChannel
    <2>1. Least(Later) \in Chs /\ biz.at = "channels" /\ biz.id \in Ids
      BY <1>1, <1>4, LaterLeast DEF DeleteChannel
    <2>2. biz' \in BizType
      BY <1>1, <1>4, <2>1 DEF DeleteChannel, BizType, Idle
    <2>3. QED
      BY <1>1, <1>4, <2>1, <2>2 DEF DeleteChannel
  <1>5. CASE EraseClient \/ CloseConn
    <2>1. biz' \in BizType
      BY <1>1, <1>5 DEF EraseClient, CloseConn, BizType, Idle
    <2>2. QED
      BY <1>1, <1>5, <2>1 DEF EraseClient, CloseConn
  <1>6. ASSUME NEW i \in Ids, FindClient(i)
        PROVE  BizTypeOK'
    <2>1. Largest(channels[i]) \in 0..MaxChannels
      BY <1>1, <1>6, LargestIsLargest
    <2>2. Largest(channels[i]) + 1 \in Chs
      BY <1>6, <2>1 DEF FindClient
    <2>3. PICK ch \in Chs : con' = [Idle EXCEPT !.at = "bind", !.id = i, !.ch = ch]
      BY <1>6, <2>2, Zenon DEF FindClient
    <2>4. con' \in ConType
      BY <2>3 DEF ConType, Creating, Idle
    <2>5. QED
      BY <1>1, <1>6, <2>4 DEF FindClient
  <1>7. CASE Bind \/ ListenOut \/ ListenIn \/ InsertData \/ InsertClient
    <2>1. con # Idle /\ con.id \in Ids /\ con.ch \in Chs
      BY <1>1, <1>7 DEF Bind, ListenOut, ListenIn, InsertData, InsertClient, Idle
    <2>2. con' \in ConType
      <3>1. con' = Idle \/ \E at \in Creating : con' = [con EXCEPT !.at = at]
        BY <1>7 DEF Bind, ListenOut, ListenIn, InsertData, InsertClient, ToCon, Creating
      <3>2. con \in [at : Creating, id : Ids, ch : Chs, fd : {0}, stray : {FALSE}]
        BY <1>1, <2>1 DEF ConType
      <3>3. QED
        BY <3>1, <3>2 DEF ConType
    <2>3. CASE Bind \/ ListenOut
      BY <1>1, <2>2, <2>3 DEF Bind, ListenOut
    <2>4. CASE ListenIn
      BY <1>1, <2>1, <2>2, <2>4 DEF ListenIn
    <2>5. CASE InsertData
      <3>1. UNCHANGED <<conn, file, fdOf, clients, channels, stray, biz, acc>>
        BY <2>5 DEF InsertData
      <3>2. \/ listener' = [listener EXCEPT ![<<con.id, con.ch>>] = "open"] /\ lost' = lost
            \/ listener' = listener /\ lost' = lost \cup {<<con.id, con.ch>>}
        BY <2>5 DEF InsertData
      <3>3. listener' \in [Channels -> {"none", "open", "closed"}] /\ lost' \subseteq Channels
        <4>1. <<con.id, con.ch>> \in Channels
          BY <2>1
        <4>2. CASE listener' = [listener EXCEPT ![<<con.id, con.ch>>] = "open"] /\ lost' = lost
          BY <1>1, <4>2
        <4>3. CASE listener' = listener /\ lost' = lost \cup {<<con.id, con.ch>>}
          BY <1>1, <4>1, <4>3
        <4>4. QED
          BY <3>2, <4>2, <4>3
      <3>4. QED
        BY <1>1, <2>2, <3>1, <3>3
    <2>6. CASE InsertClient
      BY <1>1, <2>1, <2>2, <2>6 DEF InsertClient
    <2>7. QED
      BY <1>7, <2>3, <2>4, <2>5, <2>6
  <1>8. CASE (\E c \in Channels : AcceptUser(c)) \/ AcceptStray
    <2>1. acc' = Idle \/ \E c \in Channels, dead \in BOOLEAN : Takes(c, dead)
      BY <1>8 DEF AcceptUser, AcceptStray
    <2>2. acc' \in AccType
      BY <2>1 DEF Takes, AccType, Idle
    <2>3. UNCHANGED <<conn, file, fdOf, clients, channels, listener, lost, stray, con, biz>>
      BY <1>8 DEF AcceptUser, AcceptStray
    <2>4. QED
      BY <1>1, <2>2, <2>3
  <1>9. CASE LookupClient \/ Send
    <2>1. acc' \in AccType
      <3>1. CASE LookupClient
        <4>1. acc \in [at : {"client"}, id : Ids, ch : Chs, fd : {0}, stray : BOOLEAN]
          BY <1>1, <3>1 DEF LookupClient, AccType, Idle
        <4>2. acc' = Idle \/ acc' = [acc EXCEPT !.at = "channel"]
          BY <3>1 DEF LookupClient
        <4>3. QED
          BY <4>1, <4>2 DEF AccType
      <3>2. CASE Send
        BY <3>2 DEF Send, AccType
      <3>3. QED
        BY <1>9, <3>1, <3>2
    <2>2. QED
      BY <1>1, <1>9, <2>1 DEF LookupClient, Send
  <1>10. CASE LookupChannel
    <2>1. acc.id \in Ids /\ conn[acc.id] # "none"
      BY <1>1, <1>10 DEF LookupChannel, BizInv, Registered
    <2>2. GoneCh(acc.id, {acc.ch}) \/ fdOf[acc.id] \in Fds
      BY <2>1, <1>1 DEF GoneCh, Gone, BizInv, Registered
    <2>3. acc' \in AccType
      <3>1. acc \in [at : {"channel"}, id : Ids, ch : Chs, fd : {0}, stray : BOOLEAN]
        BY <1>1, <1>10 DEF LookupChannel, AccType, Idle
      <3>2. acc' = Idle \/ \E f \in Fds : acc' = [acc EXCEPT !.at = "send", !.fd = f]
        BY <1>10, <2>2 DEF LookupChannel
      <3>3. QED
        BY <3>1, <3>2 DEF AccType
    <2>4. QED
      BY <1>1, <1>10, <2>3 DEF LookupChannel
  <1>11. QED
    BY <1>2, <1>3, <1>4, <1>5, <1>6, <1>7, <1>8, <1>9, <1>10 DEF BizInv, Next, Business,
       Console, Acceptor

\* The steps of the console, and those of the accept thread, leave these alone.
LEMMA ConsoleKeeps ==
    ASSUME Console
    PROVE  UNCHANGED <<conn, file, fdOf, clients, biz, acc, users, asked>>
  BY DEF Console, FindClient, Bind, ListenOut, ListenIn, InsertData, InsertClient, net,
     registry, data

\* The accept thread leaves the clients, the channels and the other threads alone.
LEMMA AcceptorKeeps ==
    ASSUME Acceptor
    PROVE  UNCHANGED <<conn, file, fdOf, clients, channels, listener, lost, stray, con, biz>>
  BY DEF Acceptor, AcceptUser, AcceptStray, LookupClient, LookupChannel, Send, net, registry, data

\* History only grows.
LEMMA HistoryGrows ==
    ASSUME BizInv, Next
    PROVE  /\ GhostsOK'
           /\ ghosts.overlapped \subseteq ghosts'.overlapped /\ ghosts.freed \subseteq ghosts'.freed
  <1> USE DEF GhostsOK
  <1>1. GhostsOK
    BY DEF BizInv
  <1>2. CASE \/ Connect \/ DeleteChannel \/ EraseClient \/ CloseConn
             \/ Bind \/ ListenOut \/ ListenIn \/ InsertData \/ LookupClient \/ Send
    BY <1>1, <1>2 DEF Connect, DeleteChannel, EraseClient, CloseConn, Bind, ListenOut, ListenIn,
                      InsertData, LookupClient, Send
  <1>3. ASSUME NEW i \in Ids, Leave(i) \/ FindClient(i)
        PROVE  /\ GhostsOK'
               /\ ghosts.overlapped \subseteq ghosts'.overlapped /\ ghosts.freed \subseteq ghosts'.freed
    BY <1>1, <1>3 DEF Leave, FindClient
  <1>4. CASE (\E c \in Channels : AcceptUser(c)) \/ AcceptStray
    BY <1>1, <1>4 DEF AcceptUser, AcceptStray, Takes
  <1>5. CASE InsertClient \/ LookupChannel
    BY <1>1, <1>5 DEF InsertClient, LookupChannel, Blame
  <1>6. QED
    BY <1>2, <1>3, <1>4, <1>5 DEF Next, Business, Console, Acceptor

\* on_connected takes the least client number and the least descriptor that are unused.
LEMMA ConnectEffect ==
    ASSUME BizTypeOK, Connect
    PROVE  \E i \in Ids, f \in Fds :
              /\ conn[i] = "none" /\ \A j \in Ids : conn[j] = "none" => i <= j
              /\ file[f] = Nobody
              /\ conn' = [conn EXCEPT ![i] = "up"] /\ file' = [file EXCEPT ![f] = i]
              /\ fdOf' = [fdOf EXCEPT ![i] = f] /\ clients' = clients \cup {i}
              /\ biz = Idle
              /\ UNCHANGED <<channels, listener, lost, stray, con, biz, acc, users, asked, ghosts>>
  <1> DEFINE Unused == {j \in Ids : conn[j] = "none"}
             Closed == {g \in Fds : file[g] = Nobody}
             i == Least(Unused)
             f == Least(Closed)
  <1>1. i \in Unused /\ \A j \in Unused : i <= j
    BY BizSets, LeastIsLeast DEF Connect
  <1>2. f \in Closed
    BY BizSets, LeastIsLeast DEF Connect
  <1>3. /\ conn' = [conn EXCEPT ![i] = "up"] /\ file' = [file EXCEPT ![f] = i]
        /\ fdOf' = [fdOf EXCEPT ![i] = f] /\ clients' = clients \cup {i}
        /\ biz = Idle
        /\ UNCHANGED <<channels, listener, lost, stray, con, biz, acc, users, asked, ghosts>>
    BY DEF Connect, data
  <1> HIDE DEF i, f
  <1>4. QED
    BY <1>1, <1>2, <1>3

\* A connection comes up, leaves and is gone, once.
LEMMA ConnSteps ==
    ASSUME BizInv, Next, NEW i \in Ids
    PROVE  \/ conn'[i] = conn[i]
           \/ conn[i] = "none" /\ conn'[i] = "up"
           \/ conn[i] = "up" /\ conn'[i] = "leaving" /\ biz = Idle
           \/ conn[i] = "leaving" /\ conn'[i] = "gone" /\ biz.at = "close"
  <1>1. BizTypeOK /\ Registered
    BY DEF BizInv
  <1>2. CASE Connect
    BY <1>1, <1>2, ConnectEffect DEF BizTypeOK
  <1>3. CASE CloseConn
    BY <1>1, <1>3, BizThreads DEF CloseConn, BizTypeOK, Registered
  <1>4. ASSUME NEW j \in Ids, Leave(j)
        PROVE  \/ conn'[i] = conn[i]
               \/ conn[i] = "up" /\ conn'[i] = "leaving" /\ biz = Idle
    BY <1>1, <1>4 DEF Leave, BizTypeOK
  <1>5. CASE DeleteChannel \/ EraseClient
    BY <1>5 DEF DeleteChannel, EraseClient, net
  <1>6. QED
    BY <1>2, <1>3, <1>4, <1>5, ConsoleKeeps, AcceptorKeeps DEF Next, Business

\* Each step keeps the map of connections true to them.
LEMMA RegisteredStep ==
    ASSUME BizInv, Next
    PROVE  Registered'
  <1> USE BizSets, BizThreads
  <1>1. BizTypeOK /\ Registered /\ BizTypeOK'
    BY BizTypeStep DEF BizInv
  <1>2. CASE Connect
    <2>1. PICK i \in Ids, f \in Fds :
              /\ conn[i] = "none" /\ \A j \in Ids : conn[j] = "none" => i <= j
              /\ file[f] = Nobody
              /\ conn' = [conn EXCEPT ![i] = "up"] /\ file' = [file EXCEPT ![f] = i]
              /\ fdOf' = [fdOf EXCEPT ![i] = f] /\ clients' = clients \cup {i}
              /\ biz = Idle
              /\ UNCHANGED <<channels, listener, lost, stray, con, biz, acc>>
      BY <1>1, <1>2, ConnectEffect
    <2>2. \A j \in Ids : conn[j] \in {"up", "leaving", "gone"} => fdOf[j] \in Fds /\ j < i
      <3>1. ASSUME NEW j \in Ids, conn[j] \in {"up", "leaving", "gone"}
            PROVE  fdOf[j] \in Fds
        BY <3>1, <1>1 DEF Registered
      <3>2. ASSUME NEW j \in Ids, conn[j] # "none", ~(j < i)
            PROVE  FALSE
        <4>1. conn[i] = "none" /\ i # j
          BY <2>1, <3>2
        <4>2. i < j
          BY <4>1, <3>2
        <4>3. QED
          BY <4>1, <4>2, <3>2, <1>1 DEF Registered
      <3>3. QED
        BY <3>1, <3>2
    <2>3. /\ \A j \in Ids : /\ conn'[j] = IF j = i THEN "up" ELSE conn[j]
                            /\ fdOf'[j] = IF j = i THEN f ELSE fdOf[j]
          /\ \A g \in Fds : file'[g] = IF g = f THEN i ELSE file[g]
      BY <1>1, <2>1 DEF BizTypeOK
    <2>4. \A j \in Ids : conn[j] = "gone" /\ fdOf[j] = f => i > j
      BY <2>2
    <2>5. /\ \A j \in Ids : conn'[j] = "leaving" <=> biz' # Idle /\ biz'.id = j
          /\ \A j \in Ids :
                 j \in clients' <=> conn'[j] = "up" \/ (conn'[j] = "leaving" /\ biz'.at = "channels")
      BY <1>1, <2>1, <2>3 DEF Registered
    <2>6. /\ \A j \in Ids : conn'[j] \in {"up", "leaving"} => fdOf'[j] \in Fds /\ file'[fdOf'[j]] = j
          /\ \A j \in Ids : conn'[j] = "gone" =>
                 fdOf'[j] \in Fds /\ (file'[fdOf'[j]] = Nobody \/ file'[fdOf'[j]] > j)
      BY <1>1, <2>1, <2>2, <2>3, <2>4 DEF Registered
    <2>7. \A j, k \in Ids : conn'[j] = "none" /\ j < k => conn'[k] = "none"
      BY <1>1, <2>1, <2>3 DEF Registered
    <2>8. /\ \A g \in Fds : file'[g] # Nobody => conn'[file'[g]] # "none"
          /\ con' # Idle => conn'[con'.id] # "none"
          /\ acc' # Idle => conn'[acc'.id] # "none" \/ (acc'.stray /\ acc'.at = "client")
          /\ \A c \in Channels : listener'[c] # "none" => conn'[c[1]] # "none"
      BY <1>1, <2>1, <2>3 DEF Registered, BizTypeOK, ConType, AccType, Channels
    <2>9. QED
      BY <2>5, <2>7, <2>8, <2>6 DEF Registered
  <1>3. ASSUME NEW i \in Ids, Leave(i)
        PROVE  Registered'
    <2>1. /\ conn' = [conn EXCEPT ![i] = "leaving"] /\ conn[i] = "up"
          /\ biz = Idle /\ biz' # Idle /\ biz'.id = i /\ biz'.at = "channels"
          /\ UNCHANGED <<file, fdOf, clients, channels, listener, lost, stray, con, acc>>
      BY <1>3 DEF Leave, registry, data, Idle
    <2>2. \A j \in Ids : conn'[j] = IF j = i THEN "leaving" ELSE conn[j]
      BY <1>1, <2>1 DEF BizTypeOK
    <2>3. /\ con' # Idle => conn'[con'.id] # "none"
          /\ acc' # Idle => conn'[acc'.id] # "none" \/ (acc'.stray /\ acc'.at = "client")
          /\ \A c \in Channels : listener'[c] # "none" => conn'[c[1]] # "none"
      BY <1>1, <2>1, <2>2 DEF Registered
    <2>4. /\ \A f \in Fds : file'[f] # Nobody => conn'[file'[f]] # "none"
          /\ \A j, k \in Ids : conn'[j] = "none" /\ j < k => conn'[k] = "none"
      BY <1>1, <2>1, <2>2 DEF Registered, BizTypeOK
    <2>5. QED
      BY <1>1, <2>1, <2>2, <2>3, <2>4 DEF Registered
  <1>4. CASE DeleteChannel
    BY <1>1, <1>4 DEF DeleteChannel, Registered, BizTypeOK, net, registry, Idle
  <1>5. CASE EraseClient
    BY <1>1, <1>5 DEF EraseClient, Registered, BizTypeOK, net, data, Idle
  <1>6. CASE CloseConn
    <2>1. PICK i \in Ids : i = biz.id
      BY <1>1, <1>6 DEF CloseConn, BizTypeOK, BizType, Idle
    <2>2. /\ biz.at = "close" /\ biz' = Idle /\ conn[i] = "leaving" /\ fdOf[i] \in Fds
          /\ conn' = [conn EXCEPT ![i] = "gone"] /\ file' = [file EXCEPT ![fdOf[i]] = Nobody]
          /\ UNCHANGED <<fdOf, clients, channels, listener, lost, stray, con, acc>>
      BY <1>1, <1>6, <2>1 DEF CloseConn, Registered, registry, data, Idle
    <2>3. /\ \A j \in Ids : conn'[j] = IF j = i THEN "gone" ELSE conn[j]
          /\ \A g \in Fds : file'[g] = IF g = fdOf[i] THEN Nobody ELSE file[g]
      BY <1>1, <2>2 DEF BizTypeOK
    <2>4. QED
      BY <1>1, <2>1, <2>2, <2>3 DEF Registered, Idle
  <1>7. CASE Console
    <2>1. con' # Idle => conn[con'.id] # "none"
      <3>1. ASSUME NEW i \in Ids, FindClient(i)
            PROVE  con'.id = i /\ conn[i] # "none"
        BY <1>1, <3>1 DEF FindClient, Idle, Registered
      <3>2. CASE Bind \/ ListenOut \/ ListenIn \/ InsertData \/ InsertClient
        <4>1. con # Idle
          BY <3>2, <1>1 DEF Bind, ListenOut, ListenIn, InsertData, InsertClient
        <4>2. con' = Idle \/ con'.id = con.id
          BY <3>2, <1>1 DEF Bind, ListenOut, ListenIn, InsertData, InsertClient, ToCon,
             BizTypeOK, ConType, Idle
        <4>3. QED
          BY <4>1, <4>2, <1>1 DEF Registered
      <3>3. QED
        BY <3>1, <3>2, <1>7 DEF Console
    <2>2. \A c \in Channels : listener'[c] # listener[c] => conn[c[1]] # "none"
      <3>1. CASE InsertData
        <4>1. con.id \in Ids /\ conn[con.id] # "none"
          BY <3>1, <1>1 DEF InsertData, Registered
        <4>2. \/ listener' = listener
              \/ listener' = [listener EXCEPT ![<<con.id, con.ch>>] = "open"]
          BY <3>1 DEF InsertData
        <4>3. \A c \in Channels : listener'[c] # listener[c] => c = <<con.id, con.ch>>
          BY <4>2, <1>1 DEF BizTypeOK
        <4>4. QED
          BY <4>1, <4>3
      <3>2. QED
        BY <3>1, <1>7 DEF Console, FindClient, Bind, ListenOut, ListenIn, InsertClient, data
    <2>3. QED
      BY <1>1, <1>7, <2>1, <2>2, ConsoleKeeps DEF Registered
  <1>8. CASE Acceptor
    <2>1. acc' # Idle => conn[acc'.id] # "none" \/ (acc'.stray /\ acc'.at = "client")
      <3>1. ASSUME NEW c \in Channels, AcceptUser(c)
            PROVE  acc'.id = c[1] /\ conn[c[1]] # "none"
        <4>1. acc'.id = c[1] /\ (listener[c] = "open" \/ c \in lost \/ (con # Idle /\ c[1] = con.id))
          BY <3>1, <1>1 DEF AcceptUser, Takes, Nascent, Idle
        <4>2. \A d \in lost : conn[d[1]] # "none"
          BY DEF BizInv, ClosedInTurn, Departing
        <4>3. QED
          BY <4>1, <4>2, <1>1 DEF Registered
      <3>2. CASE AcceptStray
        BY <3>2 DEF AcceptStray, Takes, Idle
      <3>3. CASE LookupClient
        <4>1. acc' = Idle \/ (acc'.id = acc.id /\ acc.id \in clients /\ acc.id \in Ids)
          BY <3>3, <1>1, BizRecords DEF LookupClient, Idle
        <4>2. QED
          BY <4>1, <1>1 DEF Registered
      <3>4. CASE LookupChannel \/ Send
        <4>1. acc # Idle /\ acc.at # "client"
          BY <3>4, <1>1 DEF LookupChannel, Send
        <4>2. acc' = Idle \/ acc'.id = acc.id
          BY <3>4, <1>1, BizRecords DEF LookupChannel, Send
        <4>3. QED
          BY <4>1, <4>2, <1>1 DEF Registered
      <3>5. QED
        BY <3>1, <3>2, <3>3, <3>4, <1>8 DEF Acceptor
    <2>2. QED
      BY <1>1, <1>8, <2>1, AcceptorKeeps DEF Registered
  <1>9. QED
    BY <1>2, <1>3, <1>4, <1>5, <1>6, <1>7, <1>8 DEF Next, Business

\* Each step notes whom a departure overtakes.
LEMMA OvertakenStep ==
    ASSUME BizInv, Next
    PROVE  Overtaken'
  <1> USE BizSets, BizThreads
  <1>1. BizTypeOK /\ GhostsOK /\ Registered /\ Overtaken /\ BizTypeOK'
    BY BizTypeStep DEF BizInv
  <1>2. ghosts.overlapped \subseteq ghosts'.overlapped /\ ghosts.freed \subseteq ghosts'.freed
    BY HistoryGrows
  <1>3. CASE Connect
    <2>1. UNCHANGED <<con, acc, ghosts>>
      BY <1>3 DEF Connect, data
    <2>2. \A i \in Ids : conn[i] # "none" => conn'[i] = conn[i] /\ fdOf'[i] = fdOf[i]
      <3>1. PICK i \in Ids, f \in Fds :
                conn[i] = "none" /\ conn' = [conn EXCEPT ![i] = "up"] /\ fdOf' = [fdOf EXCEPT ![i] = f]
        BY <1>1, <1>3, ConnectEffect
      <3>2. QED
        BY <1>1, <3>1 DEF BizTypeOK
    <2>3. QED
      <3>1. /\ con # Idle => conn'[con.id] = conn[con.id]
            /\ acc.at \in {"channel", "send"} => conn'[acc.id] = conn[acc.id] /\ fdOf'[acc.id] = fdOf[acc.id]
        BY <1>1, <2>2 DEF Registered
      <3>2. acc # Idle /\ conn'[acc.id] = "leaving" => conn[acc.id] = "leaving"
        BY <1>1, <1>3, ConnectEffect DEF BizTypeOK
      <3>3. QED
        BY <1>1, <2>1, <3>1, <3>2 DEF Overtaken, Departing
  <1>4. ASSUME NEW i \in Ids, Leave(i)
        PROVE  Overtaken'
    <2>1. /\ conn' = [conn EXCEPT ![i] = "leaving"] /\ conn[i] = "up"
          /\ UNCHANGED <<fdOf, con, acc>>
      BY <1>4 DEF Leave
    <2>2. /\ con.id = i => <<"console", i>> \in ghosts'.overlapped
          /\ acc.id = i => <<"accept", i>> \in ghosts'.overlapped
      BY <1>4, <1>1 DEF Leave, GhostsOK
    <2>3. \A j \in Ids : conn'[j] = IF j = i THEN "leaving" ELSE conn[j]
      BY <1>1, <2>1 DEF BizTypeOK
    <2>4. (con # Idle => con.id \in Ids) /\ (acc # Idle => acc.id \in Ids)
      BY <1>1 DEF BizTypeOK, ConType, AccType
    <2>5. con # Idle /\ conn'[con.id] \in {"leaving", "gone"}
             => <<"console", con.id>> \in ghosts'.overlapped
      BY <1>1, <1>2, <2>2, <2>3, <2>4 DEF Overtaken, Departing
    <2>6. /\ acc # Idle /\ conn'[acc.id] = "leaving" => <<"accept", acc.id>> \in ghosts'.overlapped
          /\ acc.at \in {"channel", "send"} /\ conn'[acc.id] \in {"leaving", "gone"}
                => <<"accept", acc.id>> \in ghosts'.overlapped
      BY <1>1, <1>2, <2>2, <2>3, <2>4 DEF Overtaken, Departing, Idle
    <2>7. QED
      BY <1>1, <1>2, <2>1, <2>5, <2>6 DEF Overtaken, Departing
  <1>5. CASE DeleteChannel \/ EraseClient
    BY <1>1, <1>5 DEF DeleteChannel, EraseClient, Overtaken, Departing, net
  <1>6. CASE CloseConn
    BY <1>1, <1>6 DEF CloseConn, Overtaken, Departing, Registered, BizTypeOK
  <1>7. CASE Console
    <2>1. con' # Idle /\ Departing(con'.id) => <<"console", con'.id>> \in ghosts'.overlapped
      <3>1. ASSUME NEW i \in Ids, FindClient(i)
            PROVE  con'.id = i /\ (Departing(i) => <<"console", i>> \in ghosts'.overlapped)
        BY <1>1, <3>1 DEF FindClient, Idle, Registered, Departing, GhostsOK, Meets
      <3>2. CASE Bind \/ ListenOut \/ ListenIn \/ InsertData \/ InsertClient
        <4>1. con # Idle
          BY <3>2, <1>1 DEF Bind, ListenOut, ListenIn, InsertData, InsertClient
        <4>2. con' = Idle \/ con'.id = con.id
          BY <3>2, <1>1, BizRecords DEF Bind, ListenOut, ListenIn, InsertData, InsertClient,
             ToCon
        <4>3. QED
          BY <4>1, <4>2, <1>1, <1>2 DEF Overtaken
      <3>3. QED
        BY <3>1, <3>2, <1>7 DEF Console
    <2>2. QED
      BY <1>1, <1>2, <1>7, <2>1, ConsoleKeeps DEF Overtaken, Departing
  <1>8. CASE (\E c \in Channels : AcceptUser(c)) \/ AcceptStray
    <2>1. \/ acc' = Idle
          \/ acc'.at = "client" /\ (conn[acc'.id] = "leaving" => <<"accept", acc'.id>> \in ghosts'.overlapped)
      <3>1. acc' = Idle \/ \E c \in Channels, dead \in BOOLEAN : Takes(c, dead)
        BY <1>8 DEF AcceptUser, AcceptStray
      <3>2. ASSUME NEW c \in Channels, NEW dead \in BOOLEAN, Takes(c, dead)
            PROVE  /\ acc'.at = "client" /\ acc'.id = c[1]
                   /\ conn[c[1]] = "leaving" => <<"accept", c[1]>> \in ghosts'.overlapped
        BY <3>2, <1>1 DEF Takes, Meets, Idle, GhostsOK
      <3>3. QED
        BY <3>1, <3>2
    <2>2. UNCHANGED <<conn, fdOf, con>>
      BY <1>8 DEF AcceptUser, AcceptStray, net
    <2>3. QED
      BY <1>1, <1>2, <2>1, <2>2 DEF Overtaken, Departing, Idle
  <1>9. CASE LookupClient
    <2>1. acc' = Idle \/ (acc'.id = acc.id /\ acc'.at = "channel" /\ acc.id \in clients)
      BY <1>1, <1>9, BizRecords DEF LookupClient
    <2>2. UNCHANGED <<conn, fdOf, con, ghosts>> /\ acc.at = "client"
      BY <1>9 DEF LookupClient, net
    <2>3. acc # Idle /\ Idle.at = "idle"
      BY <2>2 DEF Idle
    <2>4. acc.id \in clients /\ Departing(acc.id) => <<"accept", acc.id>> \in ghosts.overlapped
      <3>1. acc.id \in Ids
        BY <1>1, <2>3 DEF BizTypeOK, AccType
      <3>2. acc.id \in clients /\ Departing(acc.id) => conn[acc.id] = "leaving"
        BY <1>1, <3>1 DEF Registered, Departing
      <3>3. QED
        BY <1>1, <2>3, <3>2 DEF Overtaken
    <2>5. (con # Idle /\ Departing(con.id) => <<"console", con.id>> \in ghosts.overlapped)'
      BY <1>1, <2>2 DEF Overtaken, Departing
    <2>6. (acc.at = "send" => acc.fd = fdOf[acc.id] \/ "accept" \in ghosts.freed)'
      BY <2>1, <2>3
    <2>7. (acc # Idle /\ conn[acc.id] = "leaving" => <<"accept", acc.id>> \in ghosts.overlapped)'
      BY <2>1, <2>2, <2>4 DEF Departing
    <2>8. (acc.at \in {"channel", "send"} /\ Departing(acc.id)
               => <<"accept", acc.id>> \in ghosts.overlapped)'
      BY <2>1, <2>2, <2>3, <2>4 DEF Departing
    <2>9. QED
      BY <2>5, <2>6, <2>7, <2>8 DEF Overtaken
  <1>10. CASE LookupChannel
    <2>1. \/ acc' = Idle
          \/ /\ acc'.id = acc.id /\ acc'.at = "send"
             /\ GoneCh(acc.id, {acc.ch}) \/ acc'.fd = fdOf[acc.id]
      BY <1>1, <1>10, BizRecords DEF LookupChannel
    <2>2. UNCHANGED <<conn, fdOf, con>> /\ acc.at = "channel"
      BY <1>10 DEF LookupChannel, net
    <2>3. GoneCh(acc.id, {acc.ch}) => "accept" \in ghosts'.freed
      BY <1>1, <1>10 DEF LookupChannel, Blame, GhostsOK
    <2>4. QED
      BY <1>1, <1>2, <2>1, <2>2, <2>3 DEF Overtaken, Departing, Idle
  <1>11. CASE Send
    BY <1>1, <1>11 DEF Send, Overtaken, Departing, net, Idle
  <1>12. QED
    BY <1>3, <1>4, <1>5, <1>6, <1>7, <1>8, <1>9, <1>10, <1>11 DEF Next, Business, Acceptor

\* A client that is up is not the one that is being deleted.
LEMMA UpIsThere ==
    ASSUME BizInv, NEW i \in Ids, conn[i] = "up", NEW chs
    PROVE  i \in clients /\ ~GoneCh(i, chs)
  BY BizThreads DEF BizInv, Registered, GoneCh, Gone

\* Each step keeps the number of a channel that is being created new.
LEMMA NumberIsNewStep ==
    ASSUME BizInv, Next
    PROVE  NumberIsNew'
  <1> USE BizSets, BizThreads
  <1>1. BizTypeOK /\ GhostsOK /\ Registered /\ NumberIsNew /\ BizTypeOK'
    BY BizTypeStep DEF BizInv
  <1>2. ghosts.overlapped \subseteq ghosts'.overlapped /\ ghosts.freed \subseteq ghosts'.freed
    BY HistoryGrows
  <1>3. CASE Business
    <2>1. UNCHANGED <<channels, con>>
      BY <1>3 DEF Business, Connect, Leave, DeleteChannel, EraseClient, CloseConn, data,
         registry
    <2>2. con.at \in Creating => (conn'[con.id] = "up" => conn[con.id] = "up")
      BY <1>1, ConnSteps DEF Registered, Creating, Idle
    <2>3. \A c \in Channels : listener'[c] # "none" => listener[c] # "none"
      <3>1. CASE DeleteChannel
        BY <1>1, <3>1 DEF DeleteChannel, BizTypeOK
      <3>2. QED
        BY <1>3, <3>1 DEF Business, Connect, Leave, EraseClient, CloseConn, data
    <2>4. QED
      BY <1>1, <1>2, <2>1, <2>2, <2>3 DEF NumberIsNew
  <1>4. ASSUME NEW i \in Ids, FindClient(i)
        PROVE  NumberIsNew'
    <2>1. UNCHANGED <<conn, channels, listener>> /\ con = Idle
      BY <1>4 DEF FindClient, net, registry, data
    <2>2. con'.at = "bind" /\ con'.id = i
      BY <1>4 DEF FindClient, Idle
    <2>3. ~GoneCh(i, channels[i]) => con'.ch = Largest(channels[i]) + 1
      BY <1>4 DEF FindClient, Idle
    <2>4. GoneCh(i, channels[i]) => "console" \in ghosts'.freed
      BY <1>1, <1>4 DEF FindClient, GhostsOK
    <2>5. conn[i] = "up" => ~GoneCh(i, channels[i])
      BY UpIsThere
    <2>6. Largest(channels[i]) + 1 \notin channels[i]
      <3>1. channels[i] \in SUBSET (1..MaxChannels)
        BY <1>1 DEF BizTypeOK
      <3>2. Largest(channels[i]) \in 0..MaxChannels /\ \A y \in channels[i] : Largest(channels[i]) >= y
        BY <3>1, LargestIsLargest
      <3>3. QED
        BY <3>1, <3>2
    <2>7. QED
      BY <1>1, <1>2, <2>1, <2>2, <2>3, <2>4, <2>5, <2>6 DEF NumberIsNew, Creating, Idle
  <1>5. CASE Bind \/ ListenOut \/ ListenIn
    <2>1. UNCHANGED <<conn, channels, listener, ghosts>> /\ con.at \in Creating \ {"insertClient"}
      BY <1>5 DEF Bind, ListenOut, ListenIn, net, registry, Creating, data
    <2>2. con' = Idle \/ (con'.id = con.id /\ con'.ch = con.ch)
      BY <1>1, <1>5, BizRecords DEF Bind, ListenOut, ListenIn, ToCon
    <2>3. QED
      BY <1>1, <2>1, <2>2 DEF NumberIsNew, Creating, Idle
  <1>6. CASE InsertData
    <2>1. /\ UNCHANGED <<conn, channels, ghosts>>
          /\ \/ listener' = listener
             \/ listener' = [listener EXCEPT ![<<con.id, con.ch>>] = "open"]
      BY <1>6 DEF InsertData, net, registry
    <2>2. con.at = "insertData" /\ con'.at = "insertClient" /\ con'.id = con.id /\ con'.ch = con.ch
      BY <1>1, <1>6, BizRecords DEF InsertData, ToCon
    <2>3. \A c \in Channels : listener'[c] # listener[c] => c = <<con.id, con.ch>>
      BY <1>1, <2>1 DEF BizTypeOK
    <2>4. QED
      BY <1>1, <2>1, <2>2, <2>3 DEF NumberIsNew, Creating
  <1>7. CASE InsertClient
    <2>1. UNCHANGED <<conn, listener>> /\ con' = Idle
          /\ channels' = [channels EXCEPT ![con.id] = @ \cup {con.ch}] /\ con.at = "insertClient"
      BY <1>7 DEF InsertClient, net, data
    <2>2. /\ con.at \in Creating /\ con'.at \notin Creating
          /\ con.id \in Ids /\ con.ch \in channels'[con.id]
          /\ \A i \in Ids : channels[i] \subseteq channels'[i]
      BY <1>1, <2>1, BizRecords DEF Creating, Idle, BizTypeOK
    <2>3. ASSUME "console" \notin ghosts'.freed, NEW c \in Channels, listener'[c] # "none"
          PROVE  c[2] \in channels'[c[1]]
      <3>1. listener[c] # "none" /\ "console" \notin ghosts.freed /\ c[1] \in Ids
        BY <1>1, <1>2, <2>1, <2>3 DEF BizTypeOK, Channels
      <3>2. c[2] \in channels[c[1]] \/ c = <<con.id, con.ch>>
        BY <1>1, <3>1 DEF NumberIsNew
      <3>3. QED
        BY <2>2, <3>1, <3>2
    <2>4. QED
      BY <2>2, <2>3 DEF NumberIsNew
  <1>8. CASE Acceptor
    BY <1>1, <1>2, <1>8, AcceptorKeeps DEF NumberIsNew
  <1>9. QED
    BY <1>3, <1>4, <1>5, <1>6, <1>7, <1>8 DEF Next, Console

\* What the departure of a client does to the listeners, ...
LEMMA BusinessListeners ==
    ASSUME BizInv, Business
    PROVE  /\ UNCHANGED <<channels, lost, stray, con>>
           /\ \A c \in Channels : conn'[c[1]] = "up" => listener'[c] = listener[c]
           /\ \A c \in Channels : listener'[c] = "open" => listener[c] = "open"
  <1>1. BizTypeOK /\ Registered
    BY DEF BizInv
  <1>2. UNCHANGED <<channels, lost, stray, con>>
    BY DEF Business, Connect, Leave, DeleteChannel, EraseClient, CloseConn, registry, data
  <1>3. CASE DeleteChannel
    <2>1. biz.id \in Ids /\ conn[biz.id] = "leaving" /\ conn' = conn
      BY <1>1, <1>3, BizThreads DEF DeleteChannel, Registered, net
    <2>2. \A c \in Channels : listener'[c] # listener[c] => c[1] = biz.id /\ listener'[c] = "closed"
      <3>1. \/ listener' = listener
            \/ listener' = [listener EXCEPT ![<<biz.id, Least(Later)>>] = "closed"]
        BY <1>3 DEF DeleteChannel
      <3>2. QED
        BY <1>1, <3>1 DEF BizTypeOK
    <2>3. QED
      BY <1>2, <2>1, <2>2
  <1>4. CASE Connect \/ EraseClient \/ CloseConn
    BY <1>2, <1>4 DEF Connect, EraseClient, CloseConn, data
  <1>5. ASSUME NEW i \in Ids, Leave(i)
        PROVE  listener' = listener
    BY <1>5 DEF Leave, data
  <1>6. QED
    BY <1>2, <1>3, <1>4, <1>5 DEF Business

\* What the console does to the listeners when it enters a pair.
LEMMA ListenerChanges ==
    ASSUME BizTypeOK, InsertData
    PROVE  \/ listener' = listener /\ lost' = lost \cup {<<con.id, con.ch>>}
              /\ listener[<<con.id, con.ch>>] # "none"
           \/ lost' = lost /\ listener[<<con.id, con.ch>>] = "none"
              /\ \A c \in Channels : listener'[c] = IF HalfMade(c) THEN "open" ELSE listener[c]
  <1>1. \A c \in Channels : HalfMade(c) <=> c = <<con.id, con.ch>>
    BY DEF HalfMade, Channels
  <1>2. QED
    BY <1>1 DEF BizTypeOK, InsertData

\* ... and a step of the console to the one that it is creating.
LEMMA ConsoleListeners ==
    ASSUME BizInv, Console
    PROVE  /\ con # Idle => con.id \in Ids /\ con.ch \in Chs /\ <<con.id, con.ch>> \in Channels
           /\ \A c \in Channels : listener'[c] # listener[c] => HalfMade(c) /\ con # Idle
           /\ \A c \in lost' : c \in lost \/ (c = <<con.id, con.ch>> /\ con # Idle /\ listener[c] # "none")
           /\ con # Idle => con' = Idle \/ (con'.id = con.id /\ con'.ch = con.ch)
  <1>1. BizTypeOK
    BY DEF BizInv
  <1>2. ASSUME NEW i \in Ids, FindClient(i)
        PROVE  UNCHANGED <<listener, lost>> /\ con = Idle
    BY <1>2 DEF FindClient, data
  <1>3. CASE Bind \/ ListenOut \/ ListenIn \/ InsertClient
    <2>1. UNCHANGED <<listener, lost>> /\ (con' = Idle \/ (con'.id = con.id /\ con'.ch = con.ch))
      BY <1>1, <1>3, BizRecords DEF Bind, ListenOut, ListenIn, InsertClient, ToCon, data
    <2>2. QED
      BY <1>1, <2>1, BizSets, BizThreads
  <1>4. CASE InsertData
    <2>1. con # Idle /\ (con' = Idle \/ (con'.id = con.id /\ con'.ch = con.ch))
      BY <1>1, <1>4, BizRecords, BizThreads DEF InsertData, ToCon
    <2>2. \A c \in Channels : listener'[c] # listener[c] => HalfMade(c)
      BY <1>1, <1>4, ListenerChanges
    <2>3. \A c \in lost' : c \in lost \/ (c = <<con.id, con.ch>> /\ listener[c] # "none")
      BY <1>1, <1>4, ListenerChanges
    <2>4. QED
      BY <1>1, <2>1, <2>2, <2>3, BizSets, BizThreads
  <1>5. QED
    BY <1>1, <1>2, <1>3, <1>4, BizThreads, BizSets DEF Console

\* Each step keeps a channel that is being created from being known before it listens.
LEMMA ListensFirstStep ==
    ASSUME BizInv, Next
    PROVE  ListensFirst'
  <1>1. BizTypeOK /\ Registered /\ NumberIsNew /\ ListensFirst /\ Overtaken
    BY DEF BizInv
  <1>2. CASE Business
    <2>1. ASSUME NEW c \in Channels, conn'[c[1]] = "up", conn[c[1]] = "none"
          PROVE  listener[c] = "none" /\ ~HalfMade(c)
      <3>1. listener[c] = "none" /\ c[1] \in Ids
        BY <1>1, <2>1, BizSets DEF Registered
      <3>2. ~HalfMade(c)
        BY <1>1, <3>1, <2>1, BizSets, BizThreads DEF Registered, HalfMade
      <3>3. QED
        BY <3>1, <3>2
    <2>2. \A i \in Ids : conn[i] = "none" => channels[i] = {}
      BY DEF BizInv, NoChannelsYet
    <2>3. QED
      BY <1>1, <1>2, <2>1, <2>2, BusinessListeners, ConnSteps, BizSets DEF ListensFirst,
         HalfMade
  <1>3. ASSUME NEW i \in Ids, FindClient(i)
        PROVE  ListensFirst'
    <2>1. UNCHANGED <<conn, channels, listener>> /\ con = Idle /\ con'.at = "bind"
      BY <1>3 DEF FindClient, net, registry, data, Idle
    <2>2. QED
      BY <1>1, <2>1 DEF ListensFirst, HalfMade, Idle
  <1>4. CASE Bind \/ ListenOut \/ ListenIn
    <2>1. /\ UNCHANGED <<conn, channels, listener>>
          /\ con.at \in {"bind", "listenOut", "listenIn"}
          /\ con'.at \in {"idle", "listenOut", "listenIn", "insertData"}
      BY <1>1, <1>4, BizRecords DEF Bind, ListenOut, ListenIn, ToCon, net, registry, data, Idle
    <2>2. QED
      BY <1>1, <2>1 DEF ListensFirst, HalfMade
  <1>5. CASE InsertData
    <2>1. /\ UNCHANGED <<conn, channels>> /\ con.at = "insertData"
          /\ con'.at = "insertClient" /\ con'.id = con.id /\ con'.ch = con.ch
      BY <1>1, <1>5, BizRecords DEF InsertData, ToCon, net, registry
    <2>2. con.id \in Ids /\ con.ch \in Chs /\ (conn[con.id] = "up" => con.ch \notin channels[con.id])
      BY <1>1, <2>1, BizThreads DEF NumberIsNew, Creating
    <2>3. conn[con.id] = "up" => listener[<<con.id, con.ch>>] = "none"
      <3>1. <<con.id, con.ch>> \in Channels
        BY <2>2, BizSets
      <3>2. QED
        BY <1>1, <2>1, <2>2, <3>1 DEF ListensFirst, BizTypeOK
    <2>4. CASE listener[<<con.id, con.ch>>] # "none"
      <3>1. conn[con.id] # "up" /\ listener' = listener
        BY <1>1, <1>5, <2>3, <2>4, ListenerChanges
      <3>2. QED
        BY <1>1, <2>1, <3>1 DEF ListensFirst, HalfMade
    <2>5. CASE listener[<<con.id, con.ch>>] = "none"
      <3>1. \A c \in Channels : listener'[c] = IF HalfMade(c) THEN "open" ELSE listener[c]
        BY <1>1, <1>5, <2>5, ListenerChanges
      <3>2. QED
        BY <1>1, <2>1, <2>2, <3>1 DEF ListensFirst, HalfMade
    <2>6. QED
      BY <2>4, <2>5
  <1>6. CASE InsertClient
    <2>1. /\ UNCHANGED <<conn, listener>> /\ con.at = "insertClient" /\ con'.at = "idle"
          /\ channels' = [channels EXCEPT ![con.id] = @ \cup {con.ch}]
      BY <1>6 DEF InsertClient, net, data, Idle
    <2>2. con.id \in Ids /\ con.ch \in Chs
      BY <1>1, <2>1, BizThreads
    <2>3. QED
      BY <1>1, <2>1, <2>2, BizSets DEF ListensFirst, HalfMade, BizTypeOK
  <1>7. CASE Acceptor
    BY <1>1, <1>7, AcceptorKeeps DEF ListensFirst, HalfMade
  <1>8. QED
    BY <1>2, <1>3, <1>4, <1>5, <1>6, <1>7 DEF Next, Console

\* Each step leaves a client number that nobody had yet without channels.
LEMMA NoChannelsYetStep ==
    ASSUME BizInv, Next
    PROVE  NoChannelsYet'
  <1>1. BizTypeOK /\ Registered /\ NoChannelsYet
    BY DEF BizInv
  <1>2. \A i \in Ids : conn'[i] = "none" => conn[i] = "none"
    BY ConnSteps
  <1>3. CASE InsertClient
    <2>1. con.id \in Ids /\ conn[con.id] # "none"
      BY <1>1, <1>3, BizThreads DEF InsertClient, Registered
    <2>2. QED
      BY <1>1, <1>2, <1>3, <2>1 DEF InsertClient, NoChannelsYet, BizTypeOK
  <1>4. CASE channels' = channels
    BY <1>1, <1>2, <1>4 DEF NoChannelsYet
  <1>5. QED
    BY <1>3, <1>4, BusinessListeners, AcceptorKeeps
       DEF Next, Console, FindClient, Bind, ListenOut, ListenIn, InsertData, registry

\* Each step keeps the listeners of a departing client open until it is their turn.
LEMMA ClosedInTurnStep ==
    ASSUME BizInv, Next
    PROVE  ClosedInTurn'
  <1> USE BizSets
  <1>1. BizTypeOK /\ Registered /\ Overtaken /\ NumberIsNew /\ ListensFirst /\ ClosedInTurn
    BY DEF BizInv
  <1>2. ghosts.overlapped \subseteq ghosts'.overlapped
    BY HistoryGrows
  <1>3. CASE Connect
    <2>1. UNCHANGED <<channels, listener, lost, biz, ghosts>> /\ biz.at = "idle"
      BY <1>3 DEF Connect, data, Idle
    <2>2. \A c \in Channels : conn'[c[1]] = conn[c[1]] \/ conn'[c[1]] = "up" \/ conn'[c[1]] = "leaving"
      BY <2>1, ConnSteps
    <2>3. \A c \in Channels : conn'[c[1]] = "leaving" => conn[c[1]] = "leaving"
      BY <1>1, <1>3, ConnectEffect DEF BizTypeOK
    <2>4. \A c \in lost : Departing(c[1])'
      BY <1>1, <1>3, ConnSteps DEF ClosedInTurn, Departing, BizTypeOK
    <2>5. QED
      BY <1>1, <2>1, <2>2, <2>3, <2>4 DEF ClosedInTurn, Departing
  <1>4. ASSUME NEW i \in Ids, Leave(i)
        PROVE  ClosedInTurn'
    <2>1. /\ conn' = [conn EXCEPT ![i] = "leaving"] /\ conn[i] = "up" /\ biz = Idle
          /\ biz'.at = "channels" /\ biz'.id = i /\ biz'.ch = 0
          /\ UNCHANGED <<channels, listener, lost>>
      BY <1>4 DEF Leave, registry, data, Idle
    <2>2. con.id = i => <<"console", i>> \in ghosts'.overlapped
      BY <1>4 DEF Leave, BizInv, GhostsOK
    <2>3. \A c \in Channels : c[1] # i /\ conn[c[1]] = "leaving" => FALSE
      BY <1>1, <2>1 DEF Registered
    <2>4. ASSUME NEW c \in Channels, Departing(c[1])', <<"console", c[1]>> \notin ghosts'.overlapped
          PROVE  listener[c] = "open" => /\ conn'[c[1]] = "leaving" /\ c[1] = i
                                         /\ c[2] \in channels[c[1]] /\ c[2] > 0
      <3>1. CASE c[1] = i
        <4>1. ~HalfMade(c)
          BY <2>2, <2>4, <3>1 DEF HalfMade
        <4>2. listener[c] = "open" => c[2] \in channels[c[1]]
          BY <1>1, <2>1, <3>1, <4>1 DEF ListensFirst
        <4>3. conn'[c[1]] = "leaving" /\ c[2] > 0
          BY <1>1, <2>1, <3>1 DEF BizTypeOK
        <4>4. QED
          BY <3>1, <4>2, <4>3
      <3>2. CASE c[1] # i
        <4>1. conn'[c[1]] = conn[c[1]]
          BY <1>1, <2>1, <3>2 DEF BizTypeOK
        <4>2. conn[c[1]] = "gone" /\ <<"console", c[1]>> \notin ghosts.overlapped
          BY <1>2, <2>3, <2>4, <3>2, <4>1 DEF Departing
        <4>3. QED
          BY <1>1, <4>2 DEF ClosedInTurn, Departing
      <3>3. QED
        BY <3>1, <3>2
    <2>5. \A c \in lost : Departing(c[1])'
      BY <1>1, <2>1 DEF ClosedInTurn, Departing, BizTypeOK
    <2>6. QED
      BY <1>1, <1>2, <2>1, <2>4, <2>5 DEF ClosedInTurn
  <1>5. CASE DeleteChannel
    <2> DEFINE d == <<biz.id, Least(Later)>>
    <2>1. /\ UNCHANGED <<conn, channels, lost, ghosts>>
          /\ biz'.at = "channels" /\ biz'.id = biz.id /\ biz'.ch = Least(Later)
          /\ biz.at = "channels" /\ biz.id \in Ids
      BY <1>1, <1>5, BizRecords, BizThreads DEF DeleteChannel, net, registry
    <2>2. /\ Least(Later) \in Later /\ Later \subseteq Chs
          /\ \A ch \in Later : Least(Later) <= ch
      BY <1>1, <1>5, LaterLeast
    <2>3. \A c \in Channels : c = d <=> c[1] = biz.id /\ c[2] = Least(Later)
      BY <2>1, <2>2 DEF Channels
    <2>4. \A c \in Channels : listener'[c] = IF c = d /\ listener[c] # "none" THEN "closed" ELSE listener[c]
      BY <1>1, <1>5, <2>3 DEF DeleteChannel, BizTypeOK
    <2>5. \A c \in Channels : c[1] = biz.id /\ c[2] \in channels[biz.id] /\ c[2] > biz.ch => c[2] \in Later
      BY DEF Later
    <2>6. ASSUME NEW c \in Channels, Departing(c[1]), <<"console", c[1]>> \notin ghosts.overlapped,
                 listener'[c] = "open"
          PROVE  conn[c[1]] = "leaving" /\ c[2] \in channels[c[1]] /\ c[2] > Least(Later)
      <3>1. listener[c] = "open"
        BY <2>4, <2>6
      <3>2. /\ conn[c[1]] = "leaving" /\ biz.at = "channels"
            /\ c[2] \in channels[c[1]] /\ c[2] > biz.ch
        BY <1>1, <3>1, <2>6 DEF ClosedInTurn
      <3>3. c[1] = biz.id
        BY <1>1, <3>2 DEF Registered
      <3>4. c[2] \in Later /\ c # d
        BY <3>2, <3>3, <2>4, <2>5, <2>6
      <3>5. Least(Later) <= c[2] /\ c[2] # Least(Later)
        BY <2>2, <2>3, <3>3, <3>4
      <3>6. QED
        BY <3>2, <3>5, <2>2
    <2>7. QED
      BY <1>1, <2>1, <2>6 DEF ClosedInTurn, Departing
  <1>6. CASE EraseClient
    <2>1. /\ UNCHANGED <<conn, channels, listener, lost, stray, ghosts>>
          /\ biz.at = "channels" /\ Later = {}
      BY <1>6 DEF EraseClient, net, data
    <2>2. \A c \in Channels : conn[c[1]] = "leaving" => c[1] = biz.id
      BY <1>1 DEF Registered
    <2>3. QED
      BY <1>1, <2>1, <2>2 DEF ClosedInTurn, Departing, Later
  <1>7. CASE CloseConn
    <2>1. UNCHANGED <<channels, listener, lost, ghosts>> /\ biz.at = "close"
      BY <1>7 DEF CloseConn, registry, data
    <2>2. \A c \in Channels : Departing(c[1])' <=> Departing(c[1])
      BY <1>1, <1>7, ConnSteps, <2>1 DEF Departing, CloseConn, BizTypeOK, Registered
    <2>3. lost \subseteq Channels
      BY <1>1 DEF BizTypeOK
    <2>4. QED
      BY <1>1, <2>1, <2>2, <2>3 DEF ClosedInTurn
  <1>8. CASE Console
    <2>1. UNCHANGED <<conn, biz>>
      BY <1>8, ConsoleKeeps
    <2>2. \A c \in lost' : Departing(c[1]) /\ <<"console", c[1]>> \in ghosts'.overlapped
      <3>1. ASSUME NEW c \in lost', c \notin lost
            PROVE  Departing(c[1]) /\ <<"console", c[1]>> \in ghosts'.overlapped
        <4>1. InsertData /\ c = <<con.id, con.ch>> /\ listener[c] # "none"
          BY <1>1, <1>8, <3>1, ListenerChanges
             DEF Console, FindClient, Bind, ListenOut, ListenIn, InsertClient, data
        <4>2. /\ con.at = "insertData" /\ con # Idle /\ con.id \in Ids /\ con.ch \in Chs /\ c \in Channels
              /\ c[1] = con.id /\ c[2] = con.ch
          BY <1>1, <4>1, BizThreads DEF InsertData
        <4>3. conn[con.id] # "up"
          BY <1>1, <4>1, <4>2 DEF NumberIsNew, Creating, ListensFirst, BizTypeOK
        <4>4. Departing(con.id)
          BY <1>1, <4>2, <4>3 DEF Registered, Departing, BizTypeOK
        <4>5. QED
          BY <1>1, <1>2, <4>2, <4>4 DEF Overtaken
      <3>2. QED
        BY <1>1, <1>2, <3>1 DEF ClosedInTurn
    <2>3. ASSUME NEW c \in Channels, con = Idle \/ con.id # c[1]
          PROVE  listener'[c] = listener[c] /\ channels'[c[1]] = channels[c[1]]
      <3>1. listener'[c] = listener[c]
        BY <1>8, <2>3, ConsoleListeners DEF HalfMade
      <3>2. CASE InsertClient
        <4>1. con # Idle /\ channels' = [channels EXCEPT ![con.id] = @ \cup {con.ch}]
          BY <3>2 DEF InsertClient, Idle
        <4>2. QED
          BY <1>1, <2>3, <3>1, <4>1 DEF BizTypeOK
      <3>3. QED
        BY <1>8, <3>1, <3>2
           DEF Console, FindClient, Bind, ListenOut, ListenIn, InsertData, InsertClient, registry
    <2>4. ASSUME NEW c \in Channels, Departing(c[1]), <<"console", c[1]>> \notin ghosts.overlapped
          PROVE  con = Idle \/ con.id # c[1]
      BY <1>1, <2>4 DEF Overtaken
    <2>5. QED
      BY <1>1, <1>2, <2>1, <2>2, <2>3, <2>4 DEF ClosedInTurn, Departing
  <1>9. CASE Acceptor
    BY <1>1, <1>2, <1>9, AcceptorKeeps DEF ClosedInTurn, Departing
  <1>10. QED
    BY <1>3, <1>4, <1>5, <1>6, <1>7, <1>8, <1>9 DEF Next, Business

\* Each step keeps what the accept thread holds listening while its client is there.
LEMMA AcceptedIsListeningStep ==
    ASSUME BizInv, Next
    PROVE  AcceptedIsListening'
  <1> USE BizSets
  <1>1. BizTypeOK /\ Registered /\ ListensFirst /\ ClosedInTurn /\ AcceptedIsListening
    BY DEF BizInv
  <1>2. acc # Idle => acc.id \in Ids /\ acc.ch \in Chs /\ <<acc.id, acc.ch>> \in Channels
    BY <1>1, BizThreads
  <1>3. CASE Business
    <2>1. UNCHANGED <<acc, stray, con>>
      BY <1>3 DEF Business, Connect, Leave, DeleteChannel, EraseClient, CloseConn, data
    <2>2. ASSUME acc # Idle, ~acc.stray, conn'[acc.id] = "up"
          PROVE  conn[acc.id] = "up" /\ listener'[<<acc.id, acc.ch>>] = listener[<<acc.id, acc.ch>>]
      <3>1. conn[acc.id] = "up"
        BY <1>1, <1>2, <1>3, <2>2, ConnSteps DEF Registered, Next
      <3>2. QED
        BY <1>2, <1>3, <2>2, <3>1, BusinessListeners
    <2>3. QED
      BY <1>1, <2>1, <2>2 DEF AcceptedIsListening, Nascent
  <1>4. CASE Console
    <2> SUFFICES ASSUME acc # Idle, ~acc.stray, conn[acc.id] = "up"
                 PROVE  LET c == <<acc.id, acc.ch>> IN
                        listener'[c] = "open" \/ Nascent(c)' \/ c \in stray'
      BY <1>4, ConsoleKeeps DEF AcceptedIsListening
    <2> DEFINE c == <<acc.id, acc.ch>>
    <2>1. c \in Channels /\ (listener[c] = "open" \/ Nascent(c) \/ c \in stray)
      BY <1>1, <1>2 DEF AcceptedIsListening
    <2>2. stray \subseteq stray'
      BY <1>4 DEF Console, FindClient, Bind, ListenOut, ListenIn, InsertData, InsertClient, data
    <2>3. CASE InsertData
      <3>1. \/ listener'[c] = "open"
            \/ listener'[c] = listener[c] /\ c # <<con.id, con.ch>>
            \/ listener'[c] = listener[c] /\ listener[c] # "none"
        <4>1. HalfMade(c) <=> c = <<con.id, con.ch>>
          BY DEF HalfMade
        <4>2. QED
          BY <1>1, <2>1, <2>3, <4>1, ListenerChanges
      <3>2. c[1] = acc.id /\ (listener[c] # "none" => listener[c] = "open")
        BY <1>1, <2>1 DEF ListensFirst, BizTypeOK
      <3>3. QED
        BY <2>1, <2>2, <3>1, <3>2 DEF Nascent
    <2>4. CASE ListenIn
      <3>1. /\ listener' = listener
            /\ \/ con'.at = "insertData" /\ con'.id = con.id /\ con'.ch = con.ch
               \/ stray' = stray \cup {<<con.id, con.ch>>}
        BY <1>1, <2>4, BizRecords DEF ListenIn, ToCon
      <3>2. QED
        <4>1. CASE Nascent(c)
          <5>1. Nascent(c)' \/ c \in stray'
            <6>1. acc' = acc
              BY <1>4, ConsoleKeeps
            <6>2. QED
              BY <3>1, <4>1, <6>1 DEF Nascent
          <5>2. QED
            BY <5>1
        <4>2. CASE ~Nascent(c)
          BY <2>1, <2>2, <3>1, <4>2
        <4>3. QED
          BY <4>1, <4>2
    <2>5. CASE (\E i \in Ids : FindClient(i)) \/ Bind \/ ListenOut \/ InsertClient
      <3>1. listener' = listener
        BY <2>5 DEF FindClient, Bind, ListenOut, InsertClient, data
      <3>2. con.at \in {"idle", "bind", "listenOut", "insertClient"}
        <4>1. Idle.at = "idle"
          BY DEF Idle
        <4>2. QED
          BY <2>5, <4>1 DEF FindClient, Bind, ListenOut, InsertClient
      <3>3. QED
        BY <2>1, <2>2, <3>1, <3>2 DEF Nascent
    <2>6. QED
      BY <1>4, <2>3, <2>4, <2>5 DEF Console
  <1>5. ASSUME NEW c \in Channels, AcceptUser(c)
        PROVE  AcceptedIsListening'
    <2>1. /\ acc'.id = c[1] /\ acc'.ch = c[2] /\ c = <<c[1], c[2]>>
          /\ listener[c] = "open" \/ c \in lost \/ Nascent(c)
          /\ UNCHANGED <<conn, listener, con>>
      BY <1>5 DEF AcceptUser, Takes, Idle, data, net
    <2>2. c \in lost => conn[c[1]] # "up"
      BY <1>1 DEF ClosedInTurn, Departing
    <2>3. QED
      BY <2>1, <2>2 DEF AcceptedIsListening, Nascent
  <1>6. CASE AcceptStray
    <2>1. acc' = Idle \/ acc'.stray
      BY <1>6 DEF AcceptStray, Takes, Idle
    <2>2. QED
      BY <2>1 DEF AcceptedIsListening
  <1>7. CASE LookupClient \/ LookupChannel \/ Send
    <2>1. acc.at # "idle"
      BY <1>7 DEF LookupClient, LookupChannel, Send
    <2>2. acc # Idle
      BY <2>1 DEF Idle
    <2>3. UNCHANGED <<conn, listener, stray, con>>
      BY <1>7 DEF LookupClient, LookupChannel, Send, net, data
    <2>4. acc' = Idle \/ (acc'.id = acc.id /\ acc'.ch = acc.ch /\ acc'.stray = acc.stray)
      BY <1>1, <1>7, BizRecords DEF LookupClient, LookupChannel, Send
    <2>5. QED
      BY <1>1, <2>2, <2>4, <2>3 DEF AcceptedIsListening, Nascent
  <1>8. QED
    BY <1>3, <1>4, <1>5, <1>6, <1>7 DEF Next, Acceptor

\* The history of freed memory is only written by a call that a departure overtook, or
\* that met the departing client.
LEMMA FreedStep ==
    ASSUME BizInv, Next
    PROVE  FreedOnlyIfOvertaken'
  <1> USE BizSets
  <1>1. BizTypeOK /\ GhostsOK /\ Registered /\ Overtaken /\ FreedOnlyIfOvertaken
    BY DEF BizInv
  <1>2. ghosts.overlapped \subseteq ghosts'.overlapped
    BY HistoryGrows
  <1>3. CASE ghosts'.freed \subseteq ghosts.freed
    BY <1>1, <1>2, <1>3 DEF FreedOnlyIfOvertaken
  <1>4. CASE \/ Connect \/ DeleteChannel \/ EraseClient \/ CloseConn
             \/ Bind \/ ListenOut \/ ListenIn \/ InsertData \/ LookupClient \/ Send
    BY <1>3, <1>4 DEF Connect, DeleteChannel, EraseClient, CloseConn, Bind, ListenOut, ListenIn,
                      InsertData, LookupClient, Send
  <1>5. ASSUME NEW i \in Ids, Leave(i)
        PROVE  FreedOnlyIfOvertaken'
    BY <1>1, <1>3, <1>5 DEF Leave, GhostsOK
  <1>6. CASE (\E c \in Channels : AcceptUser(c)) \/ AcceptStray
    BY <1>1, <1>3, <1>6 DEF AcceptUser, AcceptStray, Takes, GhostsOK
  <1>7. ASSUME NEW i \in Ids, FindClient(i)
        PROVE  FreedOnlyIfOvertaken'
    <2>1. CASE conn[i] = "leaving"
      <3>1. <<"console", i>> \in ghosts'.overlapped
        BY <1>1, <1>7, <2>1 DEF FindClient, GhostsOK, Meets
      <3>2. ghosts'.freed \subseteq ghosts.freed \cup {"console"}
        BY <1>1, <1>7 DEF FindClient, GhostsOK
      <3>3. QED
        BY <1>1, <1>2, <3>1, <3>2 DEF FreedOnlyIfOvertaken
    <2>2. CASE conn[i] # "leaving"
      <3>1. conn[i] = "up"
        BY <1>1, <1>7, <2>2 DEF FindClient, Registered
      <3>2. ~GoneCh(i, channels[i])
        BY <3>1, UpIsThere
      <3>3. ghosts'.freed = ghosts.freed
        BY <1>1, <1>7, <3>2 DEF FindClient, GhostsOK
      <3>4. QED
        BY <1>3, <3>3
    <2>3. QED
      BY <2>1, <2>2
  <1>8. CASE InsertClient
    <2>1. con.id \in Ids /\ con # Idle /\ conn[con.id] # "none"
      BY <1>1, <1>8, BizThreads DEF InsertClient, Registered, Idle
    <2>2. CASE Gone(con.id)
      <3>1. Departing(con.id)
        BY <1>1, <2>1, <2>2 DEF Gone, Registered, Departing, BizTypeOK
      <3>2. <<"console", con.id>> \in ghosts.overlapped
        BY <1>1, <2>1, <3>1 DEF Overtaken
      <3>3. ghosts'.freed \subseteq ghosts.freed \cup {"console"}
        BY <1>1, <1>8 DEF InsertClient, Blame, GhostsOK
      <3>4. QED
        BY <1>1, <1>2, <2>1, <3>2, <3>3 DEF FreedOnlyIfOvertaken
    <2>3. CASE ~Gone(con.id)
      BY <1>3, <1>8, <2>3 DEF InsertClient, Blame
    <2>4. QED
      BY <2>2, <2>3
  <1>9. CASE LookupChannel
    <2>1. acc.id \in Ids /\ acc # Idle /\ conn[acc.id] # "none" /\ acc.at = "channel"
      BY <1>1, <1>9, BizThreads DEF LookupChannel, Registered, Idle
    <2>2. CASE conn[acc.id] = "up"
      <3>1. ~GoneCh(acc.id, {acc.ch})
        BY <2>1, <2>2, UpIsThere
      <3>2. QED
        BY <1>3, <1>9, <3>1 DEF LookupChannel, Blame
    <2>3. CASE conn[acc.id] # "up"
      <3>1. <<"accept", acc.id>> \in ghosts.overlapped
        BY <1>1, <2>1, <2>3 DEF Overtaken, Departing, BizTypeOK
      <3>2. ghosts'.freed \subseteq ghosts.freed \cup {"accept"}
        BY <1>1, <1>9 DEF LookupChannel, Blame, GhostsOK
      <3>3. QED
        BY <1>1, <1>2, <2>1, <3>1, <3>2 DEF FreedOnlyIfOvertaken
    <2>4. QED
      BY <2>2, <2>3
  <1>10. QED
    BY <1>4, <1>5, <1>6, <1>7, <1>8, <1>9 DEF Next, Business, Console, Acceptor

AskedOK == \A m \in asked : m.to \in Ids /\ m.owner \in Ids

\* A request goes to the client whose descriptor the accept thread read: the owner, or
\* who was given that number since.
LEMMA RequestStep ==
    ASSUME BizInv, Next
    PROVE  RequestReachesOwner' /\ AskedOK'
  <1> USE BizSets
  <1>1. /\ BizTypeOK /\ GhostsOK /\ Registered /\ Overtaken /\ RequestReachesOwner /\ AskedOK
    BY DEF BizInv, AskedOK
  <1>2. /\ ghosts.freed \subseteq ghosts'.freed
        /\ \A i \in Ids : conn[i] = "gone" => conn'[i] = "gone"
    BY HistoryGrows, ConnSteps
  <1>3. CASE asked' = asked
    BY <1>1, <1>2, <1>3 DEF RequestReachesOwner, AskedOK
  <1>4. CASE Send
    <2> DEFINE i == file[acc.fd]
    <2>1. /\ asked' = asked \cup {[to |-> j, owner |-> acc.id] : j \in {i} \ {Nobody}}
          /\ acc.at = "send" /\ ghosts' = ghosts /\ conn' = conn
      BY <1>4 DEF Send, net
    <2>2. acc.id \in Ids /\ acc.fd \in Fds /\ conn[acc.id] # "none" /\ acc # Idle
      BY <1>1, <2>1, BizThreads DEF Registered, Idle
    <2>3. i # Nobody => i \in Ids
      BY <1>1, <2>2 DEF BizTypeOK
    <2>4. i # Nobody => \/ i = acc.id
                        \/ conn[acc.id] = "gone" /\ i > acc.id
                        \/ "accept" \in ghosts.freed
      BY <1>1, <2>1, <2>2 DEF Overtaken, Registered, BizTypeOK
    <2>5. QED
      BY <1>1, <2>1, <2>2, <2>3, <2>4 DEF RequestReachesOwner, AskedOK
  <1>5. QED
    BY <1>3, <1>4, ConsoleKeeps
       DEF Next, Business, Connect, Leave, DeleteChannel, EraseClient, CloseConn,
           Acceptor, AcceptUser, AcceptStray, LookupClient, LookupChannel

\* Each step of the three threads keeps the invariant.
LEMMA BizStep ==
    ASSUME BizInv, [Next]_vars
    PROVE  BizInv'
  <1>1. CASE Next
    BY <1>1, BizTypeStep, HistoryGrows, NoChannelsYetStep, RegisteredStep, OvertakenStep,
       NumberIsNewStep,
       ListensFirstStep, ClosedInTurnStep, AcceptedIsListeningStep, FreedStep, RequestStep
       DEF BizInv, AskedOK
  <1>2. CASE UNCHANGED vars
    <2>1. UNCHANGED <<conn, file, fdOf, clients, channels, listener, lost, stray, con, biz, acc, asked, ghosts>>
      BY <1>2 DEF vars
    <2>2. BizTypeOK' /\ GhostsOK' /\ NoChannelsYet' /\ Registered' /\ Overtaken'
      BY <2>1 DEF BizInv, BizTypeOK, GhostsOK, NoChannelsYet, Registered, Overtaken, Departing
    <2>3. NumberIsNew' /\ ListensFirst' /\ ClosedInTurn' /\ AcceptedIsListening'
      BY <2>1 DEF BizInv, NumberIsNew, ListensFirst, HalfMade, ClosedInTurn, Departing,
         AcceptedIsListening, Nascent
    <2>4. FreedOnlyIfOvertaken' /\ RequestReachesOwner' /\ \A m \in asked' : m.to \in Ids /\ m.owner \in Ids
      BY <2>1 DEF BizInv, FreedOnlyIfOvertaken, RequestReachesOwner
    <2>5. QED
      BY <2>2, <2>3, <2>4 DEF BizInv
  <1>3. QED
    BY <1>1, <1>2

\* Clients, the maps of their channels and the listeners agree, wherever the three threads
\* are, or the history notes which call a departure overtook (business_server.cpp).
THEOREM BizInvariance == Spec => []BizInv
  <1>1. Init => BizInv
    <2> SUFFICES ASSUME Init
                 PROVE  BizInv
      OBVIOUS
    <2>1. BizTypeOK
      BY BizSets DEF Init, BizTypeOK, ConType, BizType, AccType
    <2>2. GhostsOK /\ NoChannelsYet /\ Overtaken /\ NumberIsNew /\ AcceptedIsListening
      BY DEF Init, GhostsOK, NoChannelsYet, Overtaken, NumberIsNew, Creating,
         AcceptedIsListening, Idle
    <2>3. Registered
      BY BizSets DEF Init, Registered, Idle
    <2>4. ListensFirst /\ ClosedInTurn
      BY BizSets DEF Init, ListensFirst, ClosedInTurn, Departing, Idle
    <2>5. FreedOnlyIfOvertaken /\ RequestReachesOwner /\ asked = {}
      BY DEF Init, FreedOnlyIfOvertaken, RequestReachesOwner
    <2>6. QED
      BY <2>1, <2>2, <2>3, <2>4, <2>5 DEF BizInv
  <1>2. QED
    BY <1>1, BizStep, PTL DEF Spec

\* Whatever the console, the accept thread and the departures interleave, a channel that
\* a client owns listens and has a number of its own, and a pair of listeners has an owner
\* that will close it, unless the owner left while the pair was being created.
THEOREM ListenersDieSafety == Spec => []ListenersDieWithClient
  <1>1. BizInv => ListenersDieWithClient
    <2> SUFFICES ASSUME BizInv
                 PROVE  ListenersDieWithClient
      OBVIOUS
    <2>1. OwnedIsListening
      BY BizSets DEF BizInv, ListensFirst, OwnedIsListening
    <2>2. KeyIsFresh
      <3>1. ASSUME con.at \in {"bind", "listenOut", "listenIn", "insertData"}, "console" \notin ghosts.freed,
                   listener[<<con.id, con.ch>>] # "none"
            PROVE  FALSE
        <4>1. BizTypeOK /\ NumberIsNew
          BY DEF BizInv
        <4>2. con # Idle /\ con.at \in Creating /\ con.at # "insertClient"
          BY <3>1 DEF Creating, Idle
        <4>3. <<con.id, con.ch>> \in Channels
          BY <4>1, <4>2, BizThreads, BizSets
        <4>4. con.ch \in channels[con.id]
          BY <3>1, <4>1, <4>2, <4>3 DEF NumberIsNew
        <4>5. QED
          BY <3>1, <4>1, <4>2, <4>4 DEF NumberIsNew
      <3>2. QED
        BY <3>1 DEF KeyIsFresh
    <2>3. UnownedOnlyIfOvertaken
      <3>1. BizTypeOK /\ Registered /\ ListensFirst /\ ClosedInTurn
        BY DEF BizInv
      <3>2. SUFFICES ASSUME NEW c \in Channels, listener[c] = "open" \/ c \in lost,
                            <<"console", c[1]>> \notin ghosts.overlapped
                     PROVE  \/ listener[c] = "open" /\ c[1] \in clients /\ c[2] \in channels[c[1]]
                            \/ con.at = "insertClient" /\ c = <<con.id, con.ch>>
        BY DEF UnownedOnlyIfOvertaken
      <3>3. listener[c] = "open" /\ c[1] \in Ids /\ conn[c[1]] # "none" /\ c = <<c[1], c[2]>>
        BY <3>1, <3>2, BizSets DEF ClosedInTurn, Registered
      <3>4. CASE conn[c[1]] = "up"
        BY <3>1, <3>3, <3>4 DEF ListensFirst, HalfMade, Registered
      <3>5. CASE conn[c[1]] # "up"
        <4>1. Departing(c[1])
          BY <3>1, <3>3, <3>5 DEF Departing, BizTypeOK
        <4>2. conn[c[1]] = "leaving" /\ biz.at = "channels" /\ c[2] \in channels[c[1]]
          BY <3>1, <3>2, <3>3, <4>1 DEF ClosedInTurn
        <4>3. QED
          BY <3>1, <3>3, <4>2 DEF Registered
      <3>6. QED
        BY <3>4, <3>5
    <2>4. QED
      BY <2>1, <2>2, <2>3 DEF ListenersDieWithClient
  <1>2. QED
    BY <1>1, BizInvariance, PTL

\* What the console and the accept thread read of a client is used on another one, or on
\* freed memory, only when its departure overtook that call (send_create_channel_msg).
THEOREM StaleSafety == Spec => []StaleOnlyIfOvertaken
  <1>1. BizInv => StaleOnlyIfOvertaken
    BY DEF BizInv, StaleOnlyIfOvertaken
  <1>2. QED
    BY <1>1, BizInvariance, PTL

\* A user of a client that stays connected is turned away without a request only while
\* the channel is being created, or when its creation failed half way (send_create_channel_msg).
THEOREM UnaskedSafety == Spec => UnaskedOnlyEarly
  <1> DEFINE Early == (acc.at \in {"client", "channel"} /\ acc' = Idle /\ conn[acc.id] = "up")
                         => \/ con.id = acc.id /\ con.ch = acc.ch
                            \/ acc.stray \/ <<acc.id, acc.ch>> \in stray
  <1>1. ASSUME BizInv, Next
        PROVE  Early
    <2> SUFFICES ASSUME acc.at \in {"client", "channel"}, acc' = Idle, conn[acc.id] = "up"
                 PROVE  (con.id = acc.id /\ con.ch = acc.ch) \/ acc.stray \/ <<acc.id, acc.ch>> \in stray
      OBVIOUS
    <2>1. BizTypeOK /\ Registered /\ ListensFirst /\ AcceptedIsListening
      BY <1>1 DEF BizInv
    <2>2. acc # Idle /\ acc.id \in Ids /\ acc.ch \in Chs /\ <<acc.id, acc.ch>> \in Channels
      BY <2>1, BizThreads, BizSets DEF Idle
    <2>3. acc.id \in clients /\ ~GoneCh(acc.id, {acc.ch})
      BY <1>1, <2>2, UpIsThere
    <2>4. LookupChannel
      <3>1. ~Send /\ ~LookupClient
        BY <2>3, <2>1, BizRecords DEF Send, LookupClient, Idle
      <3>2. ~Business /\ ~Console /\ ~AcceptStray /\ \A c \in Channels : ~AcceptUser(c)
        BY <2>2, ConsoleKeeps DEF Business, Connect, Leave, DeleteChannel, EraseClient,
           CloseConn, AcceptUser, AcceptStray
      <3>3. QED
        BY <1>1, <3>1, <3>2 DEF Next, Acceptor
    <2>5. acc.ch \notin channels[acc.id]
      BY <2>1, <2>3, <2>4, BizRecords DEF LookupChannel, Idle
    <2>6. acc.stray \/ \E c \in {<<acc.id, acc.ch>>} : listener[c] = "open" \/ Nascent(c) \/ c \in stray
      BY <2>1, <2>2 DEF AcceptedIsListening
    <2>7. QED
      BY <2>1, <2>2, <2>5, <2>6 DEF ListensFirst, HalfMade, Nascent
  <1>2. BizInv /\ [Next]_vars => [Early]_vars
    BY <1>1
  <1>3. QED
    BY <1>2, BizInvariance, PTL DEF Spec, UnaskedOnlyEarly
-----------------------------------------------------------------------------
(***************************************************************************)
(* SvpnChannel: its rendezvous forgets no user, a tunnel connection which  *)
(* is relayed from has a user in the epoll set, and freed connections are  *)
(* only touched on the paths named in FreedOnlyWhenCrossed.                *)
(*                                                                         *)
(* The invariant has one part per idea; each action has a lemma that says  *)
(* what it does to the accept threads and the tables, and then takes the   *)
(* parts of the invariant it can disturb one by one.                       *)
(***************************************************************************)
OutAt  == accept["out"].at   \* where the accept thread of "out" is
OutMe  == accept["out"].me   \* the user it has in hand
InAt   == accept["in"].at
InMe   == accept["in"].me    \* the tunnel connection it has in hand
InSeen == accept["in"].seen  \* the user it found in the slot

OutBusy == {"ask", "notify", "add", "count"}  \* the user is in the slot, and not counted
InOwes  == {"check", "await", "take"}         \* the user is linked, and not counted off

AcceptShape ==
    /\ accept = [s \in Sides |-> accept[s]]
    /\ \A s \in Sides : accept[s] = [at |-> accept[s].at, me |-> accept[s].me, seen |-> accept[s].seen]

ChTypeOK ==
    /\ AcceptShape
    /\ channel \in {"none", "open", "stopIn", "freeOut", "freeIn", "closed"}
    /\ running \in [Sides -> BOOLEAN] /\ epoll \in [Sides -> {"boot", "run", "exited"}]
    /\ events \in [Sides -> SUBSET [end : Conns, kind : {"in", "out"}]]
    /\ count \in Int /\ slot \in Outs \cup {NoConn}
    /\ info \in [Conns -> {"none", "new", "joined", "ending", "freed"}]
    /\ partner \in [Conns -> Conns \cup {NoConn}] /\ far \in [Conns -> {"open", "fin", "rst"}]

\* Where the accept threads are with the connection in hand, which is in no epoll set yet.
Accepting ==
    /\ OutAt \in {"idle", "set", "exited"} \cup OutBusy
    /\ InAt \in {"idle", "peek", "wait", "reread", "link", "add", "exited"} \cup InOwes
    /\ OutAt \in {"set"} \cup OutBusy => OutMe \in Outs
    /\ OutAt \in {"set", "ask", "notify", "add"} => info[OutMe] = "new"
    /\ InAt \notin {"idle", "exited"} => InMe \in Ins /\ info[InMe] = "new"
    /\ InAt \in {"link"} \cup InOwes => InSeen \in Outs

\* Threads that were joined have nothing left to handle.
JoinedAreDone ==
    /\ \A s \in Sides : epoll[s] # "run" => events[s] = {}
    /\ channel \in {"freeOut", "freeIn", "closed"} => epoll["out"] = "exited" /\ OutAt = "exited"
    /\ channel \in {"freeIn", "closed"} => epoll["in"] = "exited" /\ InAt = "exited"

\* Partners know each other; who is in the slot, or on the way into it or out of it, has
\* none yet.
Mutual ==
    /\ \A o \in Outs : partner[o] \in Ins \cup {NoConn}
    /\ \A i \in Ins : partner[i] \in Outs \cup {NoConn}
    /\ \A e \in Conns : partner[e] # NoConn => partner[partner[e]] = e
    /\ \A e \in Conns : info[e] = "none" => partner[e] = NoConn /\ slot # e
    /\ slot # NoConn => partner[slot] = NoConn
    /\ OutAt = "set" => /\ partner[OutMe] = NoConn /\ slot # OutMe
                        /\ ~(InAt = "link" /\ InSeen = OutMe)
    /\ InAt = "link" => partner[InSeen] = NoConn /\ info[InSeen] # "none"
    /\ InAt \in {"peek", "wait", "reread", "link"} => partner[InMe] = NoConn

\* Every user that was accepted is on its way into the slot, in it, or linked.
Remembered ==
    "crowded" \notin upset =>
        /\ InAt = "link" => slot = InSeen
        /\ \A o \in Outs : info[o] # "none" =>
               (OutAt = "set" /\ OutMe = o) \/ slot = o \/ partner[o] # NoConn

One(P) == IF P THEN 1 ELSE 0
Calm   == \A what \in {"unpaired", "crowded", "overslept", "early"} : what \notin upset

\* The count is that of the users who are in the slot or linked, and counted.
CountIsExact ==
    Calm =>
        /\ count = One(slot # NoConn) + One(InAt \in InOwes) - One(OutAt \in OutBusy)
        /\ OutAt \in OutBusy /\ slot # NoConn => slot = OutMe
        /\ InAt \in InOwes => partner[InMe] = InSeen
        /\ InAt # "take"

\* A connection that is in no epoll set is in the hands of an accept thread.
NewAreInHand ==
    Calm =>
        /\ \A o \in Outs : info[o] = "new" => OutMe = o /\ OutAt \in {"set", "ask", "notify", "add"}
        /\ \A i \in Ins : info[i] = "new" => InMe = i /\ InAt \notin {"idle", "exited"}

\* A tunnel connection in the epoll set, or about to be, has a user who is there too.
PairsAreReady ==
    Calm =>
        /\ \A i \in Ins : info[i] \in {"joined", "ending", "freed"} \/ (InAt = "add" /\ InMe = i)
              => partner[i] \in Outs /\ info[partner[i]] # "new"
        /\ "dropped" \notin upset

\* An event is about a connection that was in the epoll set.
EventsAreOfSet ==
    \A s \in Sides : \A v \in events[s] :
        /\ v.end \in Conns /\ v.end \in Of(s)
        /\ info[v.end] \in {"joined", "ending", "freed"}
        /\ v.kind = "out" => info[v.end] \in {"ending", "freed"}

Undisturbed == \A what \in {"left", "reset", "missed", "crossed"} : what \notin upset

\* The one whose partner was freed is being torn down, and no other one is.
TornDownInPairs ==
    Undisturbed /\ channel \notin {"freeIn", "closed"} =>
        /\ \A e \in Conns : info[e] = "freed" /\ partner[e] # NoConn =>
               info[partner[e]] \in {"ending", "freed"}
        /\ \A e \in Conns : info[e] = "ending" => partner[e] # NoConn /\ info[partner[e]] = "freed"
        /\ slot # NoConn => info[slot] \notin {"ending", "freed"}
        /\ InAt = "link" => info[InSeen] \notin {"ending", "freed"}

\* Nothing else is heard of it.
HeardOfJoined ==
    Undisturbed => \A s \in Sides : \A v \in events[s] : v.kind = "in" => info[v.end] = "joined"

NothingTouched ==
    Undisturbed => (\A e \in Conns : far[e] # "rst") /\ wild \subseteq {"close"}

ChInv == /\ ChTypeOK /\ Accepting /\ JoinedAreDone /\ Mutual /\ Remembered
         /\ CountIsExact /\ NewAreInHand /\ PairsAreReady
         /\ EventsAreOfSet /\ TornDownInPairs /\ HeardOfJoined /\ NothingTouched

\* The two sides share no connection, and none of them is the null pointer.
LEMMA ChSets ==
    /\ \A o \in Outs : o \in Conns /\ o # NoConn /\ o \notin Ins
    /\ \A i \in Ins : i \in Conns /\ i # NoConn /\ i \notin Outs
    /\ \A e \in Conns : (e \in Outs \/ e \in Ins) /\ e # NoConn
    /\ \A e \in Conns : e \in Of("out") <=> e \in Outs
    /\ \A e \in Conns : e \in Of("in") <=> e \in Ins
  BY ChAssumption DEF Conns, Of

\* What the type invariant says of single connections.
LEMMA ChTyped ==
    ChInv => /\ slot \in Outs \cup {NoConn} /\ count \in Int
             /\ channel \in {"none", "open", "stopIn", "freeOut", "freeIn", "closed"}
             /\ \A s \in Sides : epoll[s] \in {"boot", "run", "exited"}
             /\ \A e \in Conns : /\ partner[e] \in Conns \cup {NoConn}
                                 /\ info[e] \in {"none", "new", "joined", "ending", "freed"}
  BY DEF ChInv, ChTypeOK

\* Events go, and the connections they are about stay in the epoll set or are torn down.
LEMMA EventsStay ==
    ASSUME ChInv,
           \A t \in Sides : \A w \in events'[t] : w \in events[t],
           \A e \in Conns : info[e] \in {"joined", "ending", "freed"} =>
               /\ info'[e] \in {"joined", "ending", "freed"}
               /\ info[e] # "joined" => info'[e] # "joined"
    PROVE  EventsAreOfSet'
<1> SUFFICES ASSUME NEW t \in Sides, NEW w \in events'[t]
             PROVE  /\ w.end \in Conns /\ w.end \in Of(t)
                    /\ info'[w.end] \in {"joined", "ending", "freed"}
                    /\ w.kind = "out" => info'[w.end] \in {"ending", "freed"}
  BY DEF EventsAreOfSet
<1> QED  BY DEF ChInv, EventsAreOfSet

\* Events go, and the connections the others are about stay in the epoll set.
LEMMA HeardStay ==
    ASSUME ChInv,
           \A t \in Sides : \A w \in events'[t] : w \in events[t],
           Undisturbed' => Undisturbed,
           Undisturbed' => \A t \in Sides : \A w \in events'[t] :
               (w.kind = "in" /\ info[w.end] = "joined") => info'[w.end] = "joined"
    PROVE  HeardOfJoined'
  BY DEF ChInv, HeardOfJoined

\* Two events about one connection of one kind are one event.
LEMMA EventShape ==
    ChInv => \A t \in Sides : \A w \in events[t] :
                 w = [end |-> w.end, kind |-> w.kind] /\ w.kind \in {"in", "out"}
<1> SUFFICES ASSUME ChInv, NEW t \in Sides, NEW w \in events[t]
             PROVE  w = [end |-> w.end, kind |-> w.kind] /\ w.kind \in {"in", "out"}
  OBVIOUS
<1>1. w \in [end : Conns, kind : {"in", "out"}]
  BY DEF ChInv, ChTypeOK
<1> QED  BY <1>1

\* What the rendezvous depends on.
LEMMA RendezvousFrame ==
    ASSUME ChInv, UNCHANGED <<OutAt, OutMe, InAt, InMe, InSeen>>,
           UNCHANGED <<slot, count, info, partner, upset>>
    PROVE  Accepting' /\ Mutual' /\ Remembered' /\ CountIsExact' /\ NewAreInHand' /\ PairsAreReady'
<1>1. Accepting' /\ Mutual'
  BY DEF ChInv, Accepting, Mutual
<1>2. Remembered' /\ CountIsExact'
  BY DEF ChInv, Remembered, CountIsExact, Calm
<1>3. NewAreInHand' /\ PairsAreReady'
  BY DEF ChInv, NewAreInHand, PairsAreReady, Calm
<1> QED  BY <1>1, <1>2, <1>3

\* init: both servers start.
LEMMA OpenChannelStep ==
    ASSUME ChInv, OpenChannel
    PROVE  ChInv'
<1>1. AcceptShape'
  BY DEF ChInv, ChTypeOK, AcceptShape, OpenChannel, chThreads, chPeers
<1>2. /\ channel = "none" /\ channel' = "open"
      /\ UNCHANGED <<running, epoll, events, slot, count, info, partner, far, unreadAt, upset, wild>>
      /\ UNCHANGED <<OutAt, OutMe, InAt, InMe, InSeen>>
  BY ChSets DEF ChInv, ChTypeOK, Accepting, OutBusy, InOwes, OutAt, OutMe, InAt, InMe, InSeen,
     AcceptShape, EventsAreOfSet, OpenChannel, chThreads, chPeers
<1>3. ChTypeOK'
  BY <1>1, <1>2, ChSets DEF ChInv, ChTypeOK, Accepting, OutBusy, InOwes
<1>4. /\ Accepting' /\ Mutual' /\ Remembered'
      /\ CountIsExact' /\ NewAreInHand' /\ PairsAreReady'
  BY <1>2, RendezvousFrame
<1>5. EventsAreOfSet' /\ HeardOfJoined' /\ NothingTouched'
  BY <1>2 DEF ChInv, EventsAreOfSet, HeardOfJoined, NothingTouched, Undisturbed
<1>6. JoinedAreDone'
  BY <1>2, ChSets, ChTyped DEF ChInv, JoinedAreDone, Accepting, Sides
<1>7. TornDownInPairs'
  BY <1>2, ChSets, ChTyped DEF ChInv, TornDownInPairs, Undisturbed, EventsAreOfSet, Mutual,
     Accepting, OutBusy, InOwes
<1> QED  BY <1>3, <1>4, <1>5, <1>6, <1>7 DEF ChInv

\* A peer sends.
LEMMA FarSendsStep ==
    ASSUME ChInv, NEW e \in Conns, FarSends(e)
    PROVE  ChInv'
<1>1. AcceptShape'
  BY DEF ChInv, ChTypeOK, AcceptShape, FarSends, chThreads, chPeers
<1>2. /\ unreadAt' = unreadAt \cup {e}
      /\ UNCHANGED <<channel, running, epoll, events, slot, count, info, partner, far, upset, wild>>
      /\ UNCHANGED <<OutAt, OutMe, InAt, InMe, InSeen>>
  BY ChSets DEF ChInv, ChTypeOK, Accepting, OutBusy, InOwes, OutAt, OutMe, InAt, InMe, InSeen,
     AcceptShape, EventsAreOfSet, FarSends, chThreads, chPeers
<1>3. ChTypeOK'
  BY <1>1, <1>2, ChSets DEF ChInv, ChTypeOK, Accepting, OutBusy, InOwes
<1>4. /\ Accepting' /\ Mutual' /\ Remembered'
      /\ CountIsExact' /\ NewAreInHand' /\ PairsAreReady'
  BY <1>2, RendezvousFrame
<1>5. /\ JoinedAreDone' /\ EventsAreOfSet'
      /\ TornDownInPairs' /\ HeardOfJoined' /\ NothingTouched'
  BY <1>2 DEF ChInv, JoinedAreDone, EventsAreOfSet, TornDownInPairs, HeardOfJoined,
     NothingTouched, Undisturbed
<1> QED  BY <1>3, <1>4, <1>5 DEF ChInv

\* A peer closes or resets.
LEMMA FarEndsStep ==
    ASSUME ChInv, NEW e \in Conns, NEW how \in {"fin", "rst"}, FarEnds(e, how)
    PROVE  ChInv'
<1>1. AcceptShape'
  BY DEF ChInv, ChTypeOK, AcceptShape, FarEnds, Note, chThreads, chPeers
<1>2. /\ \A x \in Conns : far'[x] = IF x = e THEN how ELSE far[x]
      /\ upset' = IF how = "rst" THEN upset \cup {"reset"} ELSE upset
      /\ UNCHANGED <<channel, running, epoll, events, slot, count, info, partner, unreadAt, wild>>
      /\ UNCHANGED <<OutAt, OutMe, InAt, InMe, InSeen>>
  BY ChSets DEF ChInv, ChTypeOK, Accepting, OutBusy, InOwes, OutAt, OutMe, InAt, InMe, InSeen,
     AcceptShape, EventsAreOfSet, FarEnds, Note, chThreads, chPeers
<1>3. ChTypeOK'
  BY <1>1, <1>2, ChSets DEF ChInv, ChTypeOK, Accepting, OutBusy, InOwes, OutAt, OutMe, InAt,
     InMe, InSeen, EventsAreOfSet, FarEnds, Note, chThreads, chPeers
<1>4. Accepting' /\ JoinedAreDone' /\ Mutual' /\ EventsAreOfSet'
  BY <1>2 DEF ChInv, Accepting, JoinedAreDone, Mutual, EventsAreOfSet
<1>5. Remembered'
  BY <1>2, ChSets, ChTyped DEF ChInv, Remembered, Mutual, Accepting, OutBusy, InOwes
<1>6. CountIsExact'
  BY <1>2, ChSets, ChTyped DEF ChInv, CountIsExact, Calm, One, Remembered, Accepting, Mutual,
     OutBusy, InOwes
<1>7. NewAreInHand'
  BY <1>2, ChSets, ChTyped DEF ChInv, NewAreInHand, CountIsExact, Calm, Accepting, OutBusy,
     InOwes
<1>8. PairsAreReady'
  BY <1>2, ChSets, ChTyped DEF ChInv, PairsAreReady, NewAreInHand, CountIsExact, Calm,
     Accepting, Mutual, OutBusy, InOwes
<1>9. TornDownInPairs'
  BY <1>2, ChSets, ChTyped DEF ChInv, TornDownInPairs, Undisturbed, EventsAreOfSet, Mutual,
     Accepting, OutBusy, InOwes
<1>10. HeardOfJoined'
  BY <1>2, ChSets, ChTyped DEF ChInv, HeardOfJoined, Undisturbed, EventsAreOfSet, Accepting,
     OutBusy, InOwes
<1>11. NothingTouched'
  BY <1>2, ChSets, ChTyped DEF ChInv, NothingTouched, TornDownInPairs, HeardOfJoined,
     Undisturbed, EventsAreOfSet, Mutual, Accepting, OutBusy, InOwes
<1> QED  BY <1>3, <1>4, <1>5, <1>6, <1>7, <1>8, <1>9, <1>10, <1>11 DEF ChInv

\* accept of "out": a connection that had no partner, and that nobody has as partner.
LEMMA TakeUserStep ==
    ASSUME ChInv, NEW o \in Outs, TakeUser(o)
    PROVE  ChInv'
<1>1. AcceptShape'
  BY DEF ChInv, ChTypeOK, AcceptShape, TakeUser, chPeers, Sides
<1>2. /\ channel # "none" /\ OutAt = "idle" /\ info[o] = "none"
      /\ \A x \in Conns : info'[x] = IF x = o THEN "new" ELSE info[x]
      /\ OutAt' = "set" /\ OutMe' = o
      /\ UNCHANGED <<channel, running, epoll, events, slot, count, partner, far, unreadAt, upset, wild>>
      /\ UNCHANGED <<InAt, InMe, InSeen>>
  BY ChSets DEF ChInv, ChTypeOK, Accepting, OutBusy, InOwes, OutAt, OutMe, InAt, InMe, InSeen,
     AcceptShape, EventsAreOfSet, TakeUser, chPeers, Sides
<1>3. ChTypeOK'
  BY <1>1, <1>2, ChSets DEF ChInv, ChTypeOK, Accepting, OutBusy, InOwes, OutAt, OutMe, InAt,
     InMe, InSeen, EventsAreOfSet, TakeUser, chPeers, Sides
<1>4. Accepting'
  BY <1>2, ChSets, ChTyped DEF ChInv, Accepting, OutBusy, InOwes
<1>5. JoinedAreDone'
  BY <1>2, ChSets, ChTyped DEF ChInv, JoinedAreDone, Accepting, Sides
<1>6. Mutual'
  BY <1>2, ChSets, ChTyped DEF ChInv, Mutual, Accepting, InOwes, OutBusy
<1>7. Remembered'
  BY <1>2, ChSets, ChTyped DEF ChInv, Remembered, Mutual, Accepting, OutBusy, InOwes
<1>8. CountIsExact'
  BY <1>2, ChSets, ChTyped DEF ChInv, CountIsExact, Calm, One, Remembered, Accepting, Mutual,
     OutBusy, InOwes
<1>9. NewAreInHand'
  BY <1>2, ChSets, ChTyped DEF ChInv, NewAreInHand, CountIsExact, Calm, Accepting, OutBusy,
     InOwes
<1>10. PairsAreReady'
<2>1. \A e \in Conns : partner[e] # o
  BY <1>2, ChSets DEF ChInv, Mutual
<2>2. \A x \in Conns : x # o => info'[x] = info[x]
  BY <1>2
<2> SUFFICES ASSUME Calm, NEW i \in Ins,
                    info[i] \in {"joined", "ending", "freed"} \/ (InAt = "add" /\ InMe = i)
             PROVE  partner[i] \in Outs /\ info'[partner[i]] # "new"
  BY <1>2, <2>2, ChSets DEF ChInv, PairsAreReady, Calm
<2>3. partner[i] \in Outs /\ info[partner[i]] # "new"
  BY DEF ChInv, PairsAreReady
<2> QED  BY <2>1, <2>2, <2>3, ChSets
<1>11. EventsAreOfSet'
  BY <1>2, EventsStay, ChTyped, ChSets DEF ChInv, Accepting, OutBusy, InOwes
<1>12. TornDownInPairs'
<2> SUFFICES ASSUME Undisturbed', channel' \notin {"freeIn", "closed"}
             PROVE  /\ \A e \in Conns : info'[e] = "freed" /\ partner[e] # NoConn =>
                           info'[partner[e]] \in {"ending", "freed"}
                    /\ \A e \in Conns : info'[e] = "ending" =>
                           partner[e] # NoConn /\ info'[partner[e]] = "freed"
                    /\ slot # NoConn => info'[slot] \notin {"ending", "freed"}
                    /\ InAt = "link" => info'[InSeen] \notin {"ending", "freed"}
  BY <1>2 DEF TornDownInPairs
<2>1. Undisturbed /\ channel \notin {"freeIn", "closed"}
  BY <1>2 DEF Undisturbed
<2>2. \A e \in Conns : partner[e] # o /\ (e # o => info'[e] = info[e])
  BY <1>2, ChSets DEF ChInv, Mutual
<2>3. \A e \in Conns : info'[e] = "freed" /\ partner[e] # NoConn => info'[partner[e]] \in {"ending", "freed"}
  BY <1>2, <2>1, <2>2, ChTyped, ChSets DEF ChInv, TornDownInPairs
<2>4. \A e \in Conns : info'[e] = "ending" => partner[e] # NoConn /\ info'[partner[e]] = "freed"
  <3> SUFFICES ASSUME NEW e \in Conns, info'[e] = "ending"
               PROVE  partner[e] # NoConn /\ info'[partner[e]] = "freed"
    OBVIOUS
  <3>1. info[e] = "ending"
    BY <1>2
  <3>2. partner[e] # NoConn /\ info[partner[e]] = "freed"
    BY <2>1, <3>1 DEF ChInv, TornDownInPairs
  <3> QED  BY <2>2, <3>2, ChTyped
<2>5. slot # NoConn => info'[slot] \notin {"ending", "freed"}
  BY <1>2, <2>1, <2>2, ChTyped, ChSets DEF ChInv, TornDownInPairs
<2>6. InAt' = "link" => info'[InSeen'] \notin {"ending", "freed"}
  BY <1>2, <2>1, <2>2, ChTyped, ChSets DEF ChInv, TornDownInPairs, Accepting
<2> QED  BY <1>2, <2>3, <2>4, <2>5, <2>6
<1>13. HeardOfJoined'
  BY <1>2, ChSets, ChTyped DEF ChInv, HeardOfJoined, Undisturbed, EventsAreOfSet, Accepting,
     OutBusy, InOwes
<1>14. NothingTouched'
  BY <1>2, ChSets, ChTyped DEF ChInv, NothingTouched, TornDownInPairs, HeardOfJoined,
     Undisturbed, EventsAreOfSet, Mutual, Accepting, OutBusy, InOwes
<1> QED  BY <1>3, <1>4, <1>5, <1>6, <1>7, <1>8, <1>9, <1>10, <1>11, <1>12, <1>13, <1>14 DEF
            ChInv

\* accept of "in".
LEMMA TakeTunnelStep ==
    ASSUME ChInv, NEW i \in Ins, TakeTunnel(i)
    PROVE  ChInv'
<1>1. AcceptShape'
  BY DEF ChInv, ChTypeOK, AcceptShape, TakeTunnel, chPeers, Sides
<1>2. /\ channel # "none" /\ InAt = "idle" /\ info[i] = "none"
      /\ \A x \in Conns : info'[x] = IF x = i THEN "new" ELSE info[x]
      /\ InAt' = "peek" /\ InMe' = i
      /\ UNCHANGED <<channel, running, epoll, events, slot, count, partner, far, unreadAt, upset, wild>>
      /\ UNCHANGED <<OutAt, OutMe>>
  BY ChSets DEF ChInv, ChTypeOK, Accepting, OutBusy, InOwes, OutAt, OutMe, InAt, InMe, InSeen,
     AcceptShape, EventsAreOfSet, TakeTunnel, chPeers, Sides
<1>3. ChTypeOK'
  BY <1>1, <1>2, ChSets DEF ChInv, ChTypeOK, Accepting, OutBusy, InOwes, OutAt, OutMe, InAt,
     InMe, InSeen, EventsAreOfSet, TakeTunnel, chPeers, Sides
<1>4. Accepting'
  BY <1>2, ChSets, ChTyped DEF ChInv, Accepting, OutBusy, InOwes
<1>5. JoinedAreDone'
  BY <1>2, ChSets, ChTyped DEF ChInv, JoinedAreDone, Accepting, Sides
<1>6. Mutual'
  BY <1>2, ChSets, ChTyped DEF ChInv, Mutual, Accepting, InOwes, OutBusy
<1>7. Remembered'
  BY <1>2, ChSets, ChTyped DEF ChInv, Remembered, Mutual, Accepting, OutBusy, InOwes
<1>8. CountIsExact'
  BY <1>2, ChSets, ChTyped DEF ChInv, CountIsExact, Calm, One, Remembered, Accepting, Mutual,
     OutBusy, InOwes
<1>9. NewAreInHand'
  BY <1>2, ChSets, ChTyped DEF ChInv, NewAreInHand, CountIsExact, Calm, Accepting, OutBusy,
     InOwes
<1>10. PairsAreReady'
<2>1. \A e \in Conns : partner[e] # i
  BY <1>2, ChSets DEF ChInv, Mutual
<2> QED  BY <1>2, <2>1, ChSets, ChTyped DEF ChInv, PairsAreReady, NewAreInHand, Calm, Accepting
<1>11. EventsAreOfSet'
  BY <1>2, EventsStay, ChTyped, ChSets DEF ChInv, Accepting, OutBusy, InOwes
<1>12. TornDownInPairs'
<2> SUFFICES ASSUME Undisturbed', channel' \notin {"freeIn", "closed"}
             PROVE  /\ \A e \in Conns : info'[e] = "freed" /\ partner[e] # NoConn =>
                           info'[partner[e]] \in {"ending", "freed"}
                    /\ \A e \in Conns : info'[e] = "ending" =>
                           partner[e] # NoConn /\ info'[partner[e]] = "freed"
                    /\ slot # NoConn => info'[slot] \notin {"ending", "freed"}
                    /\ InAt' = "link" => info'[InSeen'] \notin {"ending", "freed"}
  BY <1>2 DEF TornDownInPairs
<2>1. Undisturbed /\ channel \notin {"freeIn", "closed"}
  BY <1>2 DEF Undisturbed
<2>2. \A e \in Conns : partner[e] # i /\ (e # i => info'[e] = info[e])
  BY <1>2, ChSets DEF ChInv, Mutual
<2>3. \A e \in Conns : info'[e] = "freed" /\ partner[e] # NoConn => info'[partner[e]] \in {"ending", "freed"}
  BY <1>2, <2>1, <2>2, ChTyped, ChSets DEF ChInv, TornDownInPairs
<2>4. \A e \in Conns : info'[e] = "ending" => partner[e] # NoConn /\ info'[partner[e]] = "freed"
  <3> SUFFICES ASSUME NEW e \in Conns, info'[e] = "ending"
               PROVE  partner[e] # NoConn /\ info'[partner[e]] = "freed"
    OBVIOUS
  <3>1. info[e] = "ending"
    BY <1>2
  <3>2. partner[e] # NoConn /\ info[partner[e]] = "freed"
    BY <2>1, <3>1 DEF ChInv, TornDownInPairs
  <3> QED  BY <2>2, <3>2, ChTyped
<2>5. slot # NoConn => info'[slot] \notin {"ending", "freed"}
  BY <1>2, <2>1, <2>2, ChTyped, ChSets DEF ChInv, TornDownInPairs
<2>6. InAt' = "link" => info'[InSeen'] \notin {"ending", "freed"}
  BY <1>2, <2>1, <2>2, ChTyped, ChSets DEF ChInv, TornDownInPairs, Accepting
<2> QED  BY <1>2, <2>3, <2>4, <2>5, <2>6
<1>13. HeardOfJoined'
  BY <1>2, ChSets, ChTyped DEF ChInv, HeardOfJoined, Undisturbed, EventsAreOfSet, Accepting,
     OutBusy, InOwes
<1>14. NothingTouched'
  BY <1>2, ChSets, ChTyped DEF ChInv, NothingTouched, TornDownInPairs, HeardOfJoined,
     Undisturbed, EventsAreOfSet, Mutual, Accepting, OutBusy, InOwes
<1> QED  BY <1>3, <1>4, <1>5, <1>6, <1>7, <1>8, <1>9, <1>10, <1>11, <1>12, <1>13, <1>14 DEF
            ChInv

\* run_accept leaves its loop.
LEMMA StopAcceptingOutStep ==
    ASSUME ChInv, StopAccepting("out")
    PROVE  ChInv'
<1>1. AcceptShape'
  BY DEF ChInv, ChTypeOK, AcceptShape, StopAccepting, chPeers, Sides
<1>2. /\ OutAt = "idle" /\ OutAt' = "exited" /\ UNCHANGED OutMe
      /\ UNCHANGED <<channel, running, epoll, events, slot, count, info, partner, far, unreadAt,
                     upset, wild>>
      /\ UNCHANGED <<InAt, InMe, InSeen>>
  BY ChSets DEF ChInv, ChTypeOK, Accepting, OutBusy, InOwes, OutAt, OutMe, InAt, InMe, InSeen,
     AcceptShape, EventsAreOfSet, StopAccepting, chPeers, Sides
<1>3. ChTypeOK'
  BY <1>1, <1>2, ChSets DEF ChInv, ChTypeOK, Accepting, OutBusy, InOwes
<1>4. /\ PairsAreReady' /\ EventsAreOfSet'
      /\ TornDownInPairs' /\ HeardOfJoined' /\ NothingTouched'
  BY <1>2 DEF ChInv, PairsAreReady, EventsAreOfSet, TornDownInPairs, HeardOfJoined,
     NothingTouched, Calm, Undisturbed
<1>5. Accepting'
  BY <1>2, ChSets, ChTyped DEF ChInv, Accepting, OutBusy, InOwes
<1>6. JoinedAreDone'
  BY <1>2, ChSets, ChTyped DEF ChInv, JoinedAreDone, Accepting, Sides
<1>7. Mutual'
  BY <1>2, ChSets, ChTyped DEF ChInv, Mutual, Accepting, InOwes, OutBusy
<1>8. Remembered'
  BY <1>2, ChSets, ChTyped DEF ChInv, Remembered, Mutual, Accepting, OutBusy, InOwes
<1>9. CountIsExact'
  BY <1>2, ChSets, ChTyped DEF ChInv, CountIsExact, Calm, One, Remembered, Accepting, Mutual,
     OutBusy, InOwes
<1>10. NewAreInHand'
  BY <1>2, ChSets, ChTyped DEF ChInv, NewAreInHand, CountIsExact, Calm, Accepting, OutBusy,
     InOwes
<1> QED  BY <1>3, <1>4, <1>5, <1>6, <1>7, <1>8, <1>9, <1>10 DEF ChInv

\* run_accept leaves its loop.
LEMMA StopAcceptingInStep ==
    ASSUME ChInv, StopAccepting("in")
    PROVE  ChInv'
<1>1. AcceptShape'
  BY DEF ChInv, ChTypeOK, AcceptShape, StopAccepting, chPeers, Sides
<1>2. /\ InAt = "idle" /\ InAt' = "exited" /\ UNCHANGED InMe
      /\ UNCHANGED <<channel, running, epoll, events, slot, count, info, partner, far, unreadAt,
                     upset, wild>>
      /\ UNCHANGED <<OutAt, OutMe>>
  BY ChSets DEF ChInv, ChTypeOK, Accepting, OutBusy, InOwes, OutAt, OutMe, InAt, InMe, InSeen,
     AcceptShape, EventsAreOfSet, StopAccepting, chPeers, Sides
<1>3. ChTypeOK'
  BY <1>1, <1>2, ChSets DEF ChInv, ChTypeOK, Accepting, OutBusy, InOwes
<1>4. EventsAreOfSet' /\ HeardOfJoined' /\ NothingTouched'
  BY <1>2 DEF ChInv, EventsAreOfSet, HeardOfJoined, NothingTouched, Undisturbed
<1>5. Accepting'
  BY <1>2, ChSets, ChTyped DEF ChInv, Accepting, OutBusy, InOwes
<1>6. JoinedAreDone'
  BY <1>2, ChSets, ChTyped DEF ChInv, JoinedAreDone, Accepting, Sides
<1>7. Mutual'
  BY <1>2, ChSets, ChTyped DEF ChInv, Mutual, Accepting, InOwes, OutBusy
<1>8. Remembered'
  BY <1>2, ChSets, ChTyped DEF ChInv, Remembered, Mutual, Accepting, OutBusy, InOwes
<1>9. CountIsExact'
  BY <1>2, ChSets, ChTyped DEF ChInv, CountIsExact, Calm, One, Remembered, Accepting, Mutual,
     OutBusy, InOwes
<1>10. NewAreInHand'
  BY <1>2, ChSets, ChTyped DEF ChInv, NewAreInHand, CountIsExact, Calm, Accepting, OutBusy,
     InOwes
<1>11. PairsAreReady'
  BY <1>2, ChSets, ChTyped DEF ChInv, PairsAreReady, NewAreInHand, CountIsExact, Calm,
     Accepting, Mutual, OutBusy, InOwes
<1>12. TornDownInPairs'
  BY <1>2, ChSets, ChTyped DEF ChInv, TornDownInPairs, Undisturbed, EventsAreOfSet, Mutual,
     Accepting, OutBusy, InOwes
<1> QED  BY <1>3, <1>4, <1>5, <1>6, <1>7, <1>8, <1>9, <1>10, <1>11, <1>12 DEF ChInv

\* event_out::on_accept: the slot was empty, unless the user in it is crowded out.
LEMMA SetSlotStep ==
    ASSUME ChInv, SetSlot
    PROVE  ChInv'
<1>1. AcceptShape'
  BY DEF ChInv, ChTypeOK, AcceptShape, SetSlot, Move, Note, chPeers, Sides
<1>2. /\ OutAt = "set" /\ OutAt' = "ask" /\ UNCHANGED OutMe
      /\ slot' = OutMe
      /\ upset' = IF slot # NoConn \/ InAt = "link" THEN upset \cup {"crowded"} ELSE upset
      /\ UNCHANGED <<channel, running, epoll, events, count, info, partner, far, unreadAt, wild>>
      /\ UNCHANGED <<InAt, InMe, InSeen>>
  BY ChSets DEF ChInv, ChTypeOK, Accepting, OutBusy, InOwes, OutAt, OutMe, InAt, InMe, InSeen,
     AcceptShape, EventsAreOfSet, SetSlot, Move, Note, chPeers, Sides
<1>3. ChTypeOK'
  BY <1>1, <1>2, ChSets DEF ChInv, ChTypeOK, Accepting, OutBusy, InOwes
<1>4. Accepting'
  BY <1>2, ChSets, ChTyped DEF ChInv, Accepting, OutBusy, InOwes
<1>5. JoinedAreDone'
  BY <1>2, ChSets, ChTyped DEF ChInv, JoinedAreDone, Accepting, Sides
<1>6. Mutual'
  BY <1>2, ChSets, ChTyped DEF ChInv, Mutual, Accepting, InOwes, OutBusy
<1>7. Remembered'
  BY <1>2, ChSets, ChTyped DEF ChInv, Remembered, Mutual, Accepting, OutBusy, InOwes
<1>8. CountIsExact'
<2> SUFFICES ASSUME Calm'
             PROVE  /\ count' = One(slot' # NoConn) + One(InAt' \in InOwes) - One(OutAt' \in OutBusy)
                    /\ OutAt' \in OutBusy /\ slot' # NoConn => slot' = OutMe'
                    /\ InAt' \in InOwes => partner'[InMe'] = InSeen'
                    /\ InAt' # "take"
  BY DEF CountIsExact, OutBusy, InOwes
<2>1. Calm /\ slot = NoConn /\ InAt # "link"
  BY <1>2 DEF Calm
<2>2. One(slot # NoConn) = 0 /\ One(slot' # NoConn) = 1
  BY <1>2, <2>1, ChTyped, ChSets DEF One, ChInv, Accepting, OutBusy, InOwes, Remembered, Calm
<2>3. One(InAt' \in InOwes) = One(InAt \in InOwes)
  BY <1>2, <2>1 DEF One, InOwes
<2>4. One(OutAt \in OutBusy) = 0 /\ One(OutAt' \in OutBusy) = 1
  BY <1>2, <2>1 DEF One, OutBusy
<2>5. count = One(slot # NoConn) + One(InAt \in InOwes) - One(OutAt \in OutBusy)
  BY <2>1 DEF ChInv, CountIsExact
<2>6. count' = One(slot' # NoConn) + One(InAt' \in InOwes) - One(OutAt' \in OutBusy)
  <3>1. One(slot # NoConn) \in Int /\ One(InAt \in InOwes) \in Int /\ One(OutAt \in OutBusy) \in Int
    BY DEF One
  <3>2. count' = count
    BY <1>2
  <3> QED  BY <2>2, <2>3, <2>4, <2>5, <3>1, <3>2
<2>7. (OutAt' \in OutBusy /\ slot' # NoConn => slot' = OutMe') /\ InAt' # "take"
  BY <1>2, <2>1 DEF ChInv, CountIsExact, OutBusy, InOwes
<2>8. InAt' \in InOwes => partner'[InMe'] = InSeen'
  BY <1>2, <2>1, ChSets DEF ChInv, CountIsExact, Accepting, OutBusy, InOwes
<2> QED  BY <2>6, <2>7, <2>8
<1>9. NewAreInHand'
  BY <1>2, ChSets, ChTyped DEF ChInv, NewAreInHand, CountIsExact, Calm, Accepting, OutBusy,
     InOwes
<1>10. PairsAreReady'
  BY <1>2, ChSets, ChTyped DEF ChInv, PairsAreReady, NewAreInHand, CountIsExact, Calm,
     Accepting, Mutual, OutBusy, InOwes
<1>11. EventsAreOfSet'
  BY <1>2, ChSets, ChTyped DEF ChInv, EventsAreOfSet
<1>12. TornDownInPairs'
  BY <1>2, ChSets, ChTyped DEF ChInv, TornDownInPairs, Undisturbed, EventsAreOfSet, Mutual,
     Accepting, OutBusy, InOwes
<1>13. HeardOfJoined'
  BY <1>2, ChSets, ChTyped DEF ChInv, HeardOfJoined, Undisturbed, EventsAreOfSet, Accepting,
     OutBusy, InOwes
<1>14. NothingTouched'
  BY <1>2, ChSets, ChTyped DEF ChInv, NothingTouched, TornDownInPairs, HeardOfJoined,
     Undisturbed, EventsAreOfSet, Mutual, Accepting, OutBusy, InOwes
<1> QED  BY <1>3, <1>4, <1>5, <1>6, <1>7, <1>8, <1>9, <1>10, <1>11, <1>12, <1>13, <1>14 DEF
            ChInv

\* The request to the tunnel client.
LEMMA AskStep ==
    ASSUME ChInv, Ask
    PROVE  ChInv'
<1>1. AcceptShape'
  BY DEF ChInv, ChTypeOK, AcceptShape, Ask, Move, chPeers, Sides
<1>2. /\ OutAt = "ask" /\ OutAt' = "notify" /\ UNCHANGED OutMe
      /\ UNCHANGED <<channel, running, epoll, events, slot, count, info, partner, far, unreadAt,
                     upset, wild>>
      /\ UNCHANGED <<InAt, InMe, InSeen>>
  BY ChSets DEF ChInv, ChTypeOK, Accepting, OutBusy, InOwes, OutAt, OutMe, InAt, InMe, InSeen,
     AcceptShape, EventsAreOfSet, Ask, Move, chPeers, Sides
<1>3. ChTypeOK'
  BY <1>1, <1>2, ChSets DEF ChInv, ChTypeOK, Accepting, OutBusy, InOwes
<1>4. /\ PairsAreReady' /\ EventsAreOfSet'
      /\ TornDownInPairs' /\ HeardOfJoined' /\ NothingTouched'
  BY <1>2 DEF ChInv, PairsAreReady, EventsAreOfSet, TornDownInPairs, HeardOfJoined,
     NothingTouched, Calm, Undisturbed
<1>5. Accepting'
  BY <1>2, ChSets, ChTyped DEF ChInv, Accepting, OutBusy, InOwes
<1>6. JoinedAreDone'
  BY <1>2, ChSets, ChTyped DEF ChInv, JoinedAreDone, Accepting, Sides
<1>7. Mutual'
  BY <1>2, ChSets, ChTyped DEF ChInv, Mutual, Accepting, InOwes, OutBusy
<1>8. Remembered'
  BY <1>2, ChSets, ChTyped DEF ChInv, Remembered, Mutual, Accepting, OutBusy, InOwes
<1>9. CountIsExact'
  BY <1>2, ChSets, ChTyped DEF ChInv, CountIsExact, Calm, One, Remembered, Accepting, Mutual,
     OutBusy, InOwes
<1>10. NewAreInHand'
  BY <1>2, ChSets, ChTyped DEF ChInv, NewAreInHand, CountIsExact, Calm, Accepting, OutBusy,
     InOwes
<1> QED  BY <1>3, <1>4, <1>5, <1>6, <1>7, <1>8, <1>9, <1>10 DEF ChInv

\* notify_one: the waiter of event_in::on_accept moves.
LEMMA NotifyInStep ==
    ASSUME ChInv, NotifyIn
    PROVE  ChInv'
<1>1. AcceptShape'
  BY DEF ChInv, ChTypeOK, AcceptShape, NotifyIn, WakeUp, Note, chPeers, Sides
<1>2. /\ OutAt = "notify" /\ OutAt' = "add" /\ UNCHANGED OutMe
      /\ InAt' = IF InAt = "wait" THEN "reread" ELSE IF InAt = "await" THEN "take" ELSE InAt
      /\ UNCHANGED <<InMe, InSeen>>
      /\ upset' = IF InAt = "await" THEN upset \cup {"overslept"} ELSE upset
      /\ UNCHANGED <<channel, running, epoll, events, slot, count, info, partner, far, unreadAt, wild>>
  BY ChSets DEF ChInv, ChTypeOK, Accepting, OutBusy, InOwes, OutAt, OutMe, InAt, InMe, InSeen,
     AcceptShape, EventsAreOfSet, NotifyIn, WakeUp, Note, chPeers, Sides
<1>3. ChTypeOK'
  BY <1>1, <1>2, ChSets DEF ChInv, ChTypeOK, Accepting, OutBusy, InOwes
<1>4. Accepting'
  BY <1>2, ChSets, ChTyped DEF ChInv, Accepting, OutBusy, InOwes
<1>5. JoinedAreDone'
  BY <1>2, ChSets, ChTyped DEF ChInv, JoinedAreDone, Accepting, Sides
<1>6. Mutual'
  BY <1>2, ChSets, ChTyped DEF ChInv, Mutual, Accepting, InOwes, OutBusy
<1>7. Remembered'
  BY <1>2, ChSets, ChTyped DEF ChInv, Remembered, Mutual, Accepting, OutBusy, InOwes
<1>8. CountIsExact'
  BY <1>2, ChSets, ChTyped DEF ChInv, CountIsExact, Calm, One, Remembered, Accepting, Mutual,
     OutBusy, InOwes
<1>9. NewAreInHand'
  BY <1>2, ChSets, ChTyped DEF ChInv, NewAreInHand, CountIsExact, Calm, Accepting, OutBusy,
     InOwes
<1>10. PairsAreReady'
  BY <1>2, ChSets, ChTyped DEF ChInv, PairsAreReady, NewAreInHand, CountIsExact, Calm,
     Accepting, Mutual, OutBusy, InOwes
<1>11. EventsAreOfSet'
  BY <1>2, ChSets, ChTyped DEF ChInv, EventsAreOfSet
<1>12. TornDownInPairs'
  BY <1>2, ChSets, ChTyped DEF ChInv, TornDownInPairs, Undisturbed, EventsAreOfSet, Mutual,
     Accepting, OutBusy, InOwes
<1>13. HeardOfJoined'
  BY <1>2, ChSets, ChTyped DEF ChInv, HeardOfJoined, Undisturbed, EventsAreOfSet, Accepting,
     OutBusy, InOwes
<1>14. NothingTouched'
  BY <1>2, ChSets, ChTyped DEF ChInv, NothingTouched, TornDownInPairs, HeardOfJoined,
     Undisturbed, EventsAreOfSet, Mutual, Accepting, OutBusy, InOwes
<1> QED  BY <1>3, <1>4, <1>5, <1>6, <1>7, <1>8, <1>9, <1>10, <1>11, <1>12, <1>13, <1>14 DEF
            ChInv

\* add_eool for the user.
LEMMA AddUserStep ==
    ASSUME ChInv, AddUser
    PROVE  ChInv'
<1>1. AcceptShape'
  BY DEF ChInv, ChTypeOK, AcceptShape, AddUser, AddEpoll, Move, Note, chPeers, Sides
<1>2. /\ OutAt = "add" /\ OutAt' = "count" /\ UNCHANGED OutMe
      /\ \A x \in Conns : info'[x] = IF x = OutMe /\ epoll["out"] = "run" THEN "joined" ELSE info[x]
      /\ upset' = IF epoll["out"] # "run" THEN upset \cup {"early"} ELSE upset
      /\ UNCHANGED <<channel, running, epoll, events, slot, count, partner, far, unreadAt, wild>>
      /\ UNCHANGED <<InAt, InMe, InSeen>>
  BY ChSets DEF ChInv, ChTypeOK, Accepting, OutBusy, InOwes, OutAt, OutMe, InAt, InMe, InSeen,
     AcceptShape, EventsAreOfSet, AddUser, AddEpoll, Move, Note, chPeers, Sides
<1>3. ChTypeOK'
  BY <1>1, <1>2, ChSets DEF ChInv, ChTypeOK, Accepting, OutBusy, InOwes, OutAt, OutMe, InAt,
     InMe, InSeen, EventsAreOfSet, AddUser, AddEpoll, Move, Note, chPeers, Sides
<1>4. Accepting'
  BY <1>2, ChSets, ChTyped DEF ChInv, Accepting, OutBusy, InOwes
<1>5. JoinedAreDone'
  BY <1>2, ChSets, ChTyped DEF ChInv, JoinedAreDone, Accepting, Sides
<1>6. Mutual'
  BY <1>2, ChSets, ChTyped DEF ChInv, Mutual, Accepting, InOwes, OutBusy
<1>7. Remembered'
  BY <1>2, ChSets, ChTyped DEF ChInv, Remembered, Mutual, Accepting, OutBusy, InOwes
<1>8. CountIsExact'
  BY <1>2, ChSets, ChTyped DEF ChInv, CountIsExact, Calm, One, Remembered, Accepting, Mutual,
     OutBusy, InOwes
<1>9. NewAreInHand'
  BY <1>2, ChSets, ChTyped DEF ChInv, NewAreInHand, CountIsExact, Calm, Accepting, OutBusy,
     InOwes
<1>10. PairsAreReady'
  BY <1>2, ChSets, ChTyped DEF ChInv, PairsAreReady, NewAreInHand, CountIsExact, Calm,
     Accepting, Mutual, OutBusy, InOwes
<1>11. EventsAreOfSet'
  BY <1>2, EventsStay, ChTyped, ChSets DEF ChInv, Accepting, OutBusy, InOwes
<1>12. TornDownInPairs'
  BY <1>2, ChSets, ChTyped DEF ChInv, TornDownInPairs, Undisturbed, EventsAreOfSet, Mutual,
     Accepting, OutBusy, InOwes
<1>13. HeardOfJoined'
  BY <1>2, ChSets, ChTyped DEF ChInv, HeardOfJoined, Undisturbed, EventsAreOfSet, Accepting,
     OutBusy, InOwes
<1>14. NothingTouched'
  BY <1>2, ChSets, ChTyped DEF ChInv, NothingTouched, TornDownInPairs, HeardOfJoined,
     Undisturbed, EventsAreOfSet, Mutual, Accepting, OutBusy, InOwes
<1> QED  BY <1>3, <1>4, <1>5, <1>6, <1>7, <1>8, <1>9, <1>10, <1>11, <1>12, <1>13, <1>14 DEF
            ChInv

\* event_out::on_connected: the count goes up as the user stops being on its way.
LEMMA CountUserStep ==
    ASSUME ChInv, CountUser
    PROVE  ChInv'
<1>1. AcceptShape'
  BY DEF ChInv, ChTypeOK, AcceptShape, CountUser, LastStep, IdleAccept, chPeers, Sides
<1>2. /\ OutAt = "count" /\ OutAt' \in {"idle", "exited"}
      /\ count' = count + 1
      /\ UNCHANGED <<channel, running, epoll, events, slot, info, partner, far, unreadAt, upset, wild>>
      /\ UNCHANGED <<InAt, InMe, InSeen>>
  BY ChSets DEF ChInv, ChTypeOK, Accepting, OutBusy, InOwes, OutAt, OutMe, InAt, InMe, InSeen,
     AcceptShape, EventsAreOfSet, CountUser, LastStep, IdleAccept, chPeers, Sides
<1>3. ChTypeOK'
<2>1. count \in Int
  BY ChTyped
<2>2. count' \in Int
  <3>1. count' = count + 1
    BY <1>2
  <3> QED  BY <2>1, <3>1
<2>3. UNCHANGED <<running, epoll, events, slot, info, partner, far>> /\ UNCHANGED channel
  BY <1>2
<2> QED  BY <1>1, <2>2, <2>3 DEF ChInv, ChTypeOK
<1>4. /\ PairsAreReady' /\ EventsAreOfSet'
      /\ TornDownInPairs' /\ HeardOfJoined' /\ NothingTouched'
  BY <1>2 DEF ChInv, PairsAreReady, EventsAreOfSet, TornDownInPairs, HeardOfJoined,
     NothingTouched, Calm, Undisturbed
<1>5. Accepting'
  BY <1>2, ChSets, ChTyped DEF ChInv, Accepting, OutBusy, InOwes
<1>6. JoinedAreDone'
  BY <1>2, ChSets, ChTyped DEF ChInv, JoinedAreDone, Accepting, Sides
<1>7. Mutual'
  BY <1>2, ChSets, ChTyped DEF ChInv, Mutual, Accepting, InOwes, OutBusy
<1>8. Remembered'
  BY <1>2, ChSets, ChTyped DEF ChInv, Remembered, Mutual, Accepting, OutBusy, InOwes
<1>9. CountIsExact'
<2> SUFFICES ASSUME Calm'
             PROVE  /\ count' = One(slot' # NoConn) + One(InAt' \in InOwes) - One(OutAt' \in OutBusy)
                    /\ OutAt' \in OutBusy /\ slot' # NoConn => slot' = OutMe'
                    /\ InAt' \in InOwes => partner'[InMe'] = InSeen'
                    /\ InAt' # "take"
  BY DEF CountIsExact, OutBusy, InOwes
<2>1. Calm
  BY <1>2 DEF Calm
<2>2. One(slot' # NoConn) = One(slot # NoConn)
  BY <1>2, <2>1, ChTyped, ChSets DEF One, ChInv, Accepting, OutBusy, InOwes, Remembered, Calm
<2>3. One(InAt' \in InOwes) = One(InAt \in InOwes)
  BY <1>2, <2>1 DEF One, InOwes
<2>4. One(OutAt \in OutBusy) = 1 /\ One(OutAt' \in OutBusy) = 0
  BY <1>2, <2>1 DEF One, OutBusy
<2>5. count = One(slot # NoConn) + One(InAt \in InOwes) - One(OutAt \in OutBusy)
  BY <2>1 DEF ChInv, CountIsExact
<2>6. count' = One(slot' # NoConn) + One(InAt' \in InOwes) - One(OutAt' \in OutBusy)
  <3>1. One(slot # NoConn) \in Int /\ One(InAt \in InOwes) \in Int /\ One(OutAt \in OutBusy) \in Int
    BY DEF One
  <3>2. count' = count + 1
    BY <1>2
  <3> QED  BY <2>2, <2>3, <2>4, <2>5, <3>1, <3>2
<2>7. (OutAt' \in OutBusy /\ slot' # NoConn => slot' = OutMe') /\ InAt' # "take"
  BY <1>2, <2>1 DEF ChInv, CountIsExact, OutBusy, InOwes
<2>8. InAt' \in InOwes => partner'[InMe'] = InSeen'
  BY <1>2, <2>1, ChSets DEF ChInv, CountIsExact, Accepting, OutBusy, InOwes
<2> QED  BY <2>6, <2>7, <2>8
<1>10. NewAreInHand'
  BY <1>2, ChSets, ChTyped DEF ChInv, NewAreInHand, CountIsExact, Calm, Accepting, OutBusy,
     InOwes
<1> QED  BY <1>3, <1>4, <1>5, <1>6, <1>7, <1>8, <1>9, <1>10 DEF ChInv

\* event_in::on_accept looks into the slot.
LEMMA PeekStep ==
    ASSUME ChInv, Peek
    PROVE  ChInv'
<1>1. AcceptShape'
  BY DEF ChInv, ChTypeOK, AcceptShape, Peek, chPeers, Sides
<1>2. /\ InAt = "peek" /\ InAt' = IF slot = NoConn THEN "wait" ELSE "link"
      /\ InSeen' = slot /\ UNCHANGED InMe
      /\ UNCHANGED <<channel, running, epoll, events, slot, count, info, partner, far, unreadAt,
                     upset, wild>>
      /\ UNCHANGED <<OutAt, OutMe>>
  BY ChSets DEF ChInv, ChTypeOK, Accepting, OutBusy, InOwes, OutAt, OutMe, InAt, InMe, InSeen,
     AcceptShape, EventsAreOfSet, Peek, chPeers, Sides
<1>3. ChTypeOK'
  BY <1>1, <1>2, ChSets DEF ChInv, ChTypeOK, Accepting, OutBusy, InOwes
<1>4. EventsAreOfSet' /\ HeardOfJoined' /\ NothingTouched'
  BY <1>2 DEF ChInv, EventsAreOfSet, HeardOfJoined, NothingTouched, Undisturbed
<1>5. Accepting'
  BY <1>2, ChSets, ChTyped DEF ChInv, Accepting, OutBusy, InOwes
<1>6. JoinedAreDone'
  BY <1>2, ChSets, ChTyped DEF ChInv, JoinedAreDone, Accepting, Sides
<1>7. Mutual'
  BY <1>2, ChSets, ChTyped DEF ChInv, Mutual, Accepting, InOwes, OutBusy
<1>8. Remembered'
  BY <1>2, ChSets, ChTyped DEF ChInv, Remembered, Mutual, Accepting, OutBusy, InOwes
<1>9. CountIsExact'
  BY <1>2, ChSets, ChTyped DEF ChInv, CountIsExact, Calm, One, Remembered, Accepting, Mutual,
     OutBusy, InOwes
<1>10. NewAreInHand'
  BY <1>2, ChSets, ChTyped DEF ChInv, NewAreInHand, CountIsExact, Calm, Accepting, OutBusy,
     InOwes
<1>11. PairsAreReady'
  BY <1>2, ChSets, ChTyped DEF ChInv, PairsAreReady, NewAreInHand, CountIsExact, Calm,
     Accepting, Mutual, OutBusy, InOwes
<1>12. TornDownInPairs'
  BY <1>2, ChSets, ChTyped DEF ChInv, TornDownInPairs, Undisturbed, EventsAreOfSet, Mutual,
     Accepting, OutBusy, InOwes
<1> QED  BY <1>3, <1>4, <1>5, <1>6, <1>7, <1>8, <1>9, <1>10, <1>11, <1>12 DEF ChInv

\* Its wait ends.
LEMMA WaitEndsStep ==
    ASSUME ChInv, WaitEnds
    PROVE  ChInv'
<1>1. AcceptShape'
  BY DEF ChInv, ChTypeOK, AcceptShape, WaitEnds, Move, chPeers, Sides
<1>2. /\ InAt = "wait" /\ InAt' = "reread" /\ UNCHANGED <<InMe, InSeen>>
      /\ UNCHANGED <<channel, running, epoll, events, slot, count, info, partner, far, unreadAt,
                     upset, wild>>
      /\ UNCHANGED <<OutAt, OutMe>>
  BY ChSets DEF ChInv, ChTypeOK, Accepting, OutBusy, InOwes, OutAt, OutMe, InAt, InMe, InSeen,
     AcceptShape, EventsAreOfSet, WaitEnds, Move, chPeers, Sides
<1>3. ChTypeOK'
  BY <1>1, <1>2, ChSets DEF ChInv, ChTypeOK, Accepting, OutBusy, InOwes
<1>4. EventsAreOfSet' /\ HeardOfJoined' /\ NothingTouched'
  BY <1>2 DEF ChInv, EventsAreOfSet, HeardOfJoined, NothingTouched, Undisturbed
<1>5. Accepting'
  BY <1>2, ChSets, ChTyped DEF ChInv, Accepting, OutBusy, InOwes
<1>6. JoinedAreDone'
  BY <1>2, ChSets, ChTyped DEF ChInv, JoinedAreDone, Accepting, Sides
<1>7. Mutual'
  BY <1>2, ChSets, ChTyped DEF ChInv, Mutual, Accepting, InOwes, OutBusy
<1>8. Remembered'
  BY <1>2, ChSets, ChTyped DEF ChInv, Remembered, Mutual, Accepting, OutBusy, InOwes
<1>9. CountIsExact'
  BY <1>2, ChSets, ChTyped DEF ChInv, CountIsExact, Calm, One, Remembered, Accepting, Mutual,
     OutBusy, InOwes
<1>10. NewAreInHand'
  BY <1>2, ChSets, ChTyped DEF ChInv, NewAreInHand, CountIsExact, Calm, Accepting, OutBusy,
     InOwes
<1>11. PairsAreReady'
  BY <1>2, ChSets, ChTyped DEF ChInv, PairsAreReady, NewAreInHand, CountIsExact, Calm,
     Accepting, Mutual, OutBusy, InOwes
<1>12. TornDownInPairs'
  BY <1>2, ChSets, ChTyped DEF ChInv, TornDownInPairs, Undisturbed, EventsAreOfSet, Mutual,
     Accepting, OutBusy, InOwes
<1> QED  BY <1>3, <1>4, <1>5, <1>6, <1>7, <1>8, <1>9, <1>10, <1>11, <1>12 DEF ChInv

\* It looks again.
LEMMA RereadStep ==
    ASSUME ChInv, Reread
    PROVE  ChInv'
<1>1. AcceptShape'
  BY DEF ChInv, ChTypeOK, AcceptShape, Reread, Note, chPeers, Sides
<1>2. /\ InAt = "reread" /\ InAt' = IF slot = NoConn THEN "add" ELSE "link"
      /\ InSeen' = slot /\ UNCHANGED InMe
      /\ upset' = IF slot = NoConn THEN upset \cup {"unpaired"} ELSE upset
      /\ UNCHANGED <<channel, running, epoll, events, slot, count, info, partner, far, unreadAt, wild>>
      /\ UNCHANGED <<OutAt, OutMe>>
  BY ChSets DEF ChInv, ChTypeOK, Accepting, OutBusy, InOwes, OutAt, OutMe, InAt, InMe, InSeen,
     AcceptShape, EventsAreOfSet, Reread, Note, chPeers, Sides
<1>3. ChTypeOK'
  BY <1>1, <1>2, ChSets DEF ChInv, ChTypeOK, Accepting, OutBusy, InOwes
<1>4. Accepting'
  BY <1>2, ChSets, ChTyped DEF ChInv, Accepting, OutBusy, InOwes
<1>5. JoinedAreDone'
  BY <1>2, ChSets, ChTyped DEF ChInv, JoinedAreDone, Accepting, Sides
<1>6. Mutual'
  BY <1>2, ChSets, ChTyped DEF ChInv, Mutual, Accepting, InOwes, OutBusy
<1>7. Remembered'
  BY <1>2, ChSets, ChTyped DEF ChInv, Remembered, Mutual, Accepting, OutBusy, InOwes
<1>8. CountIsExact'
  BY <1>2, ChSets, ChTyped DEF ChInv, CountIsExact, Calm, One, Remembered, Accepting, Mutual,
     OutBusy, InOwes
<1>9. NewAreInHand'
  BY <1>2, ChSets, ChTyped DEF ChInv, NewAreInHand, CountIsExact, Calm, Accepting, OutBusy,
     InOwes
<1>10. PairsAreReady'
  BY <1>2, ChSets, ChTyped DEF ChInv, PairsAreReady, NewAreInHand, CountIsExact, Calm,
     Accepting, Mutual, OutBusy, InOwes
<1>11. EventsAreOfSet'
  BY <1>2, ChSets, ChTyped DEF ChInv, EventsAreOfSet
<1>12. TornDownInPairs'
  BY <1>2, ChSets, ChTyped DEF ChInv, TornDownInPairs, Undisturbed, EventsAreOfSet, Mutual,
     Accepting, OutBusy, InOwes
<1>13. HeardOfJoined'
  BY <1>2, ChSets, ChTyped DEF ChInv, HeardOfJoined, Undisturbed, EventsAreOfSet, Accepting,
     OutBusy, InOwes
<1>14. NothingTouched'
  BY <1>2, ChSets, ChTyped DEF ChInv, NothingTouched, TornDownInPairs, HeardOfJoined,
     Undisturbed, EventsAreOfSet, Mutual, Accepting, OutBusy, InOwes
<1> QED  BY <1>3, <1>4, <1>5, <1>6, <1>7, <1>8, <1>9, <1>10, <1>11, <1>12, <1>13, <1>14 DEF
            ChInv

\* It links both: the user leaves the slot and is owed to the count.
\* Each action of the two dialers, the epoll thread and stop() keeps the invariant.
LEMMA LinkStep ==
    ASSUME ChInv, Link
    PROVE  ChInv'
<1>1. AcceptShape'
  BY DEF ChInv, ChTypeOK, AcceptShape, Link, Move, Touches, chPeers, Sides
<1>2. /\ InAt = "link" /\ InAt' = "check" /\ UNCHANGED <<InMe, InSeen>>
      /\ \A x \in Conns : partner'[x] = IF x = InMe THEN InSeen ELSE IF x = InSeen THEN InMe ELSE partner[x]
      /\ slot' = NoConn
      /\ wild' = IF info[InSeen] = "freed" THEN wild \cup {"link"} ELSE wild
      /\ UNCHANGED <<channel, running, epoll, events, count, info, far, unreadAt, upset>>
      /\ UNCHANGED <<OutAt, OutMe>>
  BY ChSets DEF ChInv, ChTypeOK, Accepting, OutBusy, InOwes, OutAt, OutMe, InAt, InMe, InSeen,
     AcceptShape, EventsAreOfSet, Link, Move, Touches, chPeers, Sides
<1>3. ChTypeOK'
  BY <1>1, <1>2, ChSets DEF ChInv, ChTypeOK, Accepting, OutBusy, InOwes, OutAt, OutMe, InAt,
     InMe, InSeen, EventsAreOfSet, Link, Move, Touches, chPeers, Sides
<1>4. EventsAreOfSet' /\ HeardOfJoined'
  BY <1>2 DEF ChInv, EventsAreOfSet, HeardOfJoined, Undisturbed
<1>5. Accepting'
  BY <1>2, ChSets, ChTyped DEF ChInv, Accepting, OutBusy, InOwes
<1>6. JoinedAreDone'
  BY <1>2, ChSets, ChTyped DEF ChInv, JoinedAreDone, Accepting, Sides
<1>7. Mutual'
<2>1. /\ InMe \in Ins /\ InSeen \in Outs /\ InMe \in Conns /\ InSeen \in Conns /\ InMe # InSeen
      /\ partner[InMe] = NoConn /\ partner[InSeen] = NoConn
  BY <1>2, ChSets DEF ChInv, Accepting, Mutual
<2>2. \A e \in Conns : partner[e] # NoConn => partner[e] # InMe /\ partner[e] # InSeen
  BY <2>1, ChSets DEF ChInv, Mutual
<2>3. /\ \A o \in Outs : partner'[o] \in Ins \cup {NoConn}
      /\ \A i \in Ins : partner'[i] \in Outs \cup {NoConn}
  BY <1>2, <2>1, ChSets DEF ChInv, Mutual
<2>4. \A e \in Conns : partner'[e] # NoConn => partner'[partner'[e]] = e
  <3> SUFFICES ASSUME NEW e \in Conns, partner'[e] # NoConn PROVE partner'[partner'[e]] = e
    OBVIOUS
  <3>1. CASE e \in {InMe, InSeen}
    BY <1>2, <2>1, <3>1
  <3>2. CASE e \notin {InMe, InSeen}
    <4>1. partner'[e] = partner[e] /\ partner[e] \in Conns /\ partner[partner[e]] = e
      BY <1>2, <3>2, ChTyped DEF ChInv, Mutual
    <4> QED  BY <1>2, <2>2, <4>1
  <3> QED  BY <3>1, <3>2
<2>5. \A e \in Conns : info'[e] = "none" => partner'[e] = NoConn /\ slot' # e
  BY <1>2, <2>1, ChSets DEF ChInv, Mutual, Accepting
<2>6. OutAt' = "set" => partner'[OutMe'] = NoConn /\ slot' # OutMe'
  BY <1>2, <2>1, ChSets DEF ChInv, Mutual, Accepting
<2> QED  BY <1>2, <2>3, <2>4, <2>5, <2>6 DEF Mutual
<1>8. Remembered'
  BY <1>2, ChSets, ChTyped DEF ChInv, Remembered, Mutual, Accepting, OutBusy, InOwes
<1>9. CountIsExact'
<2> SUFFICES ASSUME Calm'
             PROVE  /\ count' = One(slot' # NoConn) + One(InAt' \in InOwes) - One(OutAt' \in OutBusy)
                    /\ OutAt' \in OutBusy /\ slot' # NoConn => slot' = OutMe'
                    /\ InAt' \in InOwes => partner'[InMe'] = InSeen'
                    /\ InAt' # "take"
  BY DEF CountIsExact, OutBusy, InOwes
<2>1. Calm
  BY <1>2 DEF Calm
<2>2. One(slot # NoConn) = 1 /\ One(slot' # NoConn) = 0
  BY <1>2, <2>1, ChTyped, ChSets DEF One, ChInv, Accepting, OutBusy, InOwes, Remembered, Calm
<2>3. One(InAt \in InOwes) = 0 /\ One(InAt' \in InOwes) = 1
  BY <1>2, <2>1 DEF One, InOwes
<2>4. One(OutAt' \in OutBusy) = One(OutAt \in OutBusy)
  BY <1>2, <2>1 DEF One, OutBusy
<2>5. count = One(slot # NoConn) + One(InAt \in InOwes) - One(OutAt \in OutBusy)
  BY <2>1 DEF ChInv, CountIsExact
<2>6. count' = One(slot' # NoConn) + One(InAt' \in InOwes) - One(OutAt' \in OutBusy)
  <3>1. One(slot # NoConn) \in Int /\ One(InAt \in InOwes) \in Int /\ One(OutAt \in OutBusy) \in Int
    BY DEF One
  <3>2. count' = count
    BY <1>2
  <3> QED  BY <2>2, <2>3, <2>4, <2>5, <3>1, <3>2
<2>7. (OutAt' \in OutBusy /\ slot' # NoConn => slot' = OutMe') /\ InAt' # "take"
  BY <1>2, <2>1 DEF ChInv, CountIsExact, OutBusy, InOwes
<2>8. InAt' \in InOwes => partner'[InMe'] = InSeen'
  BY <1>2, <2>1, ChSets DEF ChInv, CountIsExact, Accepting, OutBusy, InOwes
<2> QED  BY <2>6, <2>7, <2>8
<1>10. NewAreInHand'
  BY <1>2, ChSets, ChTyped DEF ChInv, NewAreInHand, CountIsExact, Calm, Accepting, OutBusy,
     InOwes
<1>11. PairsAreReady'
  BY <1>2, ChSets, ChTyped DEF ChInv, PairsAreReady, NewAreInHand, CountIsExact, Calm,
     Accepting, Mutual, OutBusy, InOwes
<1>12. TornDownInPairs'
  BY <1>2, ChSets, ChTyped DEF ChInv, TornDownInPairs, Undisturbed, EventsAreOfSet, Mutual,
     Accepting, OutBusy, InOwes
<1>13. NothingTouched'
<2>1. Undisturbed => channel \notin {"freeIn", "closed"} /\ info[InSeen] # "freed"
  BY <1>2 DEF ChInv, TornDownInPairs, JoinedAreDone
<2> QED  BY <1>2, <2>1 DEF ChInv, NothingTouched, Undisturbed
<1> QED  BY <1>3, <1>4, <1>5, <1>6, <1>7, <1>8, <1>9, <1>10, <1>11, <1>12, <1>13 DEF ChInv

\* It counts the user off, who is then counted and in the epoll set, or waits.
LEMMA CheckCountStep ==
    ASSUME ChInv, CheckCount
    PROVE  ChInv'
<1>1. AcceptShape'
<2>1. CASE count > 0
  <3>1. Move("in", "check", "add")
    BY <2>1 DEF CheckCount
  <3> QED  BY <3>1 DEF ChInv, ChTypeOK, AcceptShape, Move
<2>2. CASE ~(count > 0)
  <3>1. Move("in", "check", "await")
    BY <2>2 DEF CheckCount
  <3> QED  BY <3>1 DEF ChInv, ChTypeOK, AcceptShape, Move
<2> QED  BY <2>1, <2>2
<1>2. /\ InAt = "check" /\ UNCHANGED <<InMe, InSeen>>
      /\ \/ count > 0 /\ InAt' = "add" /\ count' = count - 1
         \/ ~(count > 0) /\ InAt' = "await" /\ UNCHANGED count
      /\ UNCHANGED <<channel, running, epoll, events, slot, info, partner, far, unreadAt, upset, wild>>
      /\ UNCHANGED <<OutAt, OutMe>>
<2>1. CASE count > 0
  <3>1. Move("in", "check", "add") /\ count' = count - 1
    BY <2>1 DEF CheckCount
  <3>2. /\ InAt = "check" /\ InAt' = "add" /\ UNCHANGED <<InMe, InSeen, OutAt, OutMe>>
    BY <3>1 DEF ChInv, ChTypeOK, AcceptShape, Move, OutAt, OutMe, InAt, InMe, InSeen, Sides
  <3> QED  BY <2>1, <3>1, <3>2 DEF CheckCount, chPeers
<2>2. CASE ~(count > 0)
  <3>1. Move("in", "check", "await") /\ UNCHANGED count
    BY <2>2 DEF CheckCount
  <3>2. /\ InAt = "check" /\ InAt' = "await" /\ UNCHANGED <<InMe, InSeen, OutAt, OutMe>>
    BY <3>1 DEF ChInv, ChTypeOK, AcceptShape, Move, OutAt, OutMe, InAt, InMe, InSeen, Sides
  <3> QED  BY <2>2, <3>1, <3>2 DEF CheckCount, chPeers
<2> QED  BY <2>1, <2>2
<1>3. ChTypeOK'
<2>1. count \in Int
  BY ChTyped
<2>2. count' \in Int
  <3>1. count' = count - 1 \/ count' = count
    BY <1>2
  <3> QED  BY <2>1, <3>1
<2>3. UNCHANGED <<running, epoll, events, slot, info, partner, far>> /\ UNCHANGED channel
  BY <1>2
<2> QED  BY <1>1, <2>2, <2>3 DEF ChInv, ChTypeOK
<1>4. EventsAreOfSet' /\ HeardOfJoined' /\ NothingTouched'
  BY <1>2 DEF ChInv, EventsAreOfSet, HeardOfJoined, NothingTouched, Undisturbed
<1>5. Accepting'
  BY <1>2, ChSets, ChTyped DEF ChInv, Accepting, OutBusy, InOwes
<1>6. JoinedAreDone'
  BY <1>2, ChSets, ChTyped DEF ChInv, JoinedAreDone, Accepting, Sides
<1>7. Mutual'
  BY <1>2, ChSets, ChTyped DEF ChInv, Mutual, Accepting, InOwes, OutBusy
<1>8. Remembered'
  BY <1>2, ChSets, ChTyped DEF ChInv, Remembered, Mutual, Accepting, OutBusy, InOwes
<1>9. CountIsExact'
<2> SUFFICES ASSUME Calm'
             PROVE  /\ count' = One(slot' # NoConn) + One(InAt' \in InOwes) - One(OutAt' \in OutBusy)
                    /\ OutAt' \in OutBusy /\ slot' # NoConn => slot' = OutMe'
                    /\ InAt' \in InOwes => partner'[InMe'] = InSeen'
                    /\ InAt' # "take"
  BY DEF CountIsExact, OutBusy, InOwes
<2>1. Calm
  BY <1>2 DEF Calm
<2>2. One(slot' # NoConn) = One(slot # NoConn) /\ One(OutAt' \in OutBusy) = One(OutAt \in OutBusy)
  BY <1>2
<2>3. /\ One(InAt \in InOwes) = 1
      /\ \/ One(InAt' \in InOwes) = 0 /\ count' = count - 1
         \/ One(InAt' \in InOwes) = 1 /\ count' = count
  BY <1>2 DEF One, InOwes
<2>4. count = One(slot # NoConn) + One(InAt \in InOwes) - One(OutAt \in OutBusy)
  BY <2>1 DEF ChInv, CountIsExact
<2>5. count' = One(slot' # NoConn) + One(InAt' \in InOwes) - One(OutAt' \in OutBusy)
  <3>1. One(slot # NoConn) \in Int /\ One(OutAt \in OutBusy) \in Int
    BY DEF One
  <3> QED  BY <2>2, <2>3, <2>4, <3>1
<2>6. (OutAt' \in OutBusy /\ slot' # NoConn => slot' = OutMe') /\ InAt' # "take"
  BY <1>2, <2>1 DEF ChInv, CountIsExact, OutBusy, InOwes
<2>7. InAt' \in InOwes => partner'[InMe'] = InSeen'
  BY <1>2, <2>1, ChSets DEF ChInv, CountIsExact, Accepting, OutBusy, InOwes
<2> QED  BY <2>5, <2>6, <2>7
<1>10. NewAreInHand'
  BY <1>2, ChSets, ChTyped DEF ChInv, NewAreInHand, CountIsExact, Calm, Accepting, OutBusy,
     InOwes
<1>11. PairsAreReady'
<2> SUFFICES ASSUME Calm', InAt' = "add"
             PROVE  partner[InMe] \in Outs /\ info[partner[InMe]] # "new"
  BY <1>2 DEF ChInv, PairsAreReady, Calm
<2>1. Calm /\ count > 0 /\ InAt = "check"
  BY <1>2 DEF Calm
<2>2. partner[InMe] = InSeen /\ InSeen \in Outs /\ InMe \in Ins
  BY <2>1 DEF ChInv, CountIsExact, Accepting, InOwes
<2>3. SUFFICES ASSUME info[InSeen] = "new" PROVE FALSE
  BY <2>2
<2>4. OutMe = InSeen /\ OutAt \in OutBusy
  BY <2>1, <2>2, <2>3, ChSets DEF ChInv, NewAreInHand, Mutual, OutBusy
<2>5. slot = NoConn
  BY <2>1, <2>2, <2>4, ChSets DEF ChInv, CountIsExact, Mutual
<2>6. One(slot # NoConn) = 0 /\ One(InAt \in InOwes) = 1 /\ One(OutAt \in OutBusy) = 1
  BY <2>1, <2>4, <2>5 DEF One, InOwes
<2>7. count = One(slot # NoConn) + One(InAt \in InOwes) - One(OutAt \in OutBusy)
  BY <2>1 DEF ChInv, CountIsExact
<2> QED  BY <2>1, <2>6, <2>7
<1>12. TornDownInPairs'
  BY <1>2, ChSets, ChTyped DEF ChInv, TornDownInPairs, Undisturbed, EventsAreOfSet, Mutual,
     Accepting, OutBusy, InOwes
<1> QED  BY <1>3, <1>4, <1>5, <1>6, <1>7, <1>8, <1>9, <1>10, <1>11, <1>12 DEF ChInv

\* The wait for the user ends by itself.
LEMMA AwaitEndsStep ==
    ASSUME ChInv, AwaitEnds
    PROVE  ChInv'
<1>1. AcceptShape'
  BY DEF ChInv, ChTypeOK, AcceptShape, AwaitEnds, Move, chPeers, Sides
<1>2. /\ InAt = "await" /\ InAt' = "take" /\ UNCHANGED <<InMe, InSeen>>
      /\ upset' = upset \cup {"overslept"}
      /\ UNCHANGED <<channel, running, epoll, events, slot, count, info, partner, far, unreadAt, wild>>
      /\ UNCHANGED <<OutAt, OutMe>>
  BY ChSets DEF ChInv, ChTypeOK, Accepting, OutBusy, InOwes, OutAt, OutMe, InAt, InMe, InSeen,
     AcceptShape, EventsAreOfSet, AwaitEnds, Move, chPeers, Sides
<1>3. ChTypeOK'
  BY <1>1, <1>2, ChSets DEF ChInv, ChTypeOK, Accepting, OutBusy, InOwes
<1>4. Accepting'
  BY <1>2, ChSets, ChTyped DEF ChInv, Accepting, OutBusy, InOwes
<1>5. JoinedAreDone'
  BY <1>2, ChSets, ChTyped DEF ChInv, JoinedAreDone, Accepting, Sides
<1>6. Mutual'
  BY <1>2, ChSets, ChTyped DEF ChInv, Mutual, Accepting, InOwes, OutBusy
<1>7. Remembered'
  BY <1>2, ChSets, ChTyped DEF ChInv, Remembered, Mutual, Accepting, OutBusy, InOwes
<1>8. CountIsExact'
  BY <1>2, ChSets, ChTyped DEF ChInv, CountIsExact, Calm, One, Remembered, Accepting, Mutual,
     OutBusy, InOwes
<1>9. NewAreInHand'
  BY <1>2, ChSets, ChTyped DEF ChInv, NewAreInHand, CountIsExact, Calm, Accepting, OutBusy,
     InOwes
<1>10. PairsAreReady'
  BY <1>2, ChSets, ChTyped DEF ChInv, PairsAreReady, NewAreInHand, CountIsExact, Calm,
     Accepting, Mutual, OutBusy, InOwes
<1>11. EventsAreOfSet'
  BY <1>2, ChSets, ChTyped DEF ChInv, EventsAreOfSet
<1>12. TornDownInPairs'
  BY <1>2, ChSets, ChTyped DEF ChInv, TornDownInPairs, Undisturbed, EventsAreOfSet, Mutual,
     Accepting, OutBusy, InOwes
<1>13. HeardOfJoined'
  BY <1>2, ChSets, ChTyped DEF ChInv, HeardOfJoined, Undisturbed, EventsAreOfSet, Accepting,
     OutBusy, InOwes
<1>14. NothingTouched'
  BY <1>2, ChSets, ChTyped DEF ChInv, NothingTouched, TornDownInPairs, HeardOfJoined,
     Undisturbed, EventsAreOfSet, Mutual, Accepting, OutBusy, InOwes
<1> QED  BY <1>3, <1>4, <1>5, <1>6, <1>7, <1>8, <1>9, <1>10, <1>11, <1>12, <1>13, <1>14 DEF
            ChInv

\* It counts the user off, counted or not.
LEMMA TakeCountStep ==
    ASSUME ChInv, TakeCount
    PROVE  ChInv'
<1>1. AcceptShape'
  BY DEF ChInv, ChTypeOK, AcceptShape, TakeCount, Move, chPeers, Sides
<1>2. /\ InAt = "take" /\ InAt' = "add" /\ UNCHANGED <<InMe, InSeen>>
      /\ count' = count - 1
      /\ UNCHANGED <<channel, running, epoll, events, slot, info, partner, far, unreadAt, upset, wild>>
      /\ UNCHANGED <<OutAt, OutMe>>
  BY ChSets DEF ChInv, ChTypeOK, Accepting, OutBusy, InOwes, OutAt, OutMe, InAt, InMe, InSeen,
     AcceptShape, EventsAreOfSet, TakeCount, Move, chPeers, Sides
<1>3. ChTypeOK'
<2>1. count \in Int
  BY ChTyped
<2>2. count' \in Int
  <3>1. count' = count - 1
    BY <1>2
  <3> QED  BY <2>1, <3>1
<2>3. UNCHANGED <<running, epoll, events, slot, info, partner, far>> /\ UNCHANGED channel
  BY <1>2
<2> QED  BY <1>1, <2>2, <2>3 DEF ChInv, ChTypeOK
<1>4. EventsAreOfSet' /\ HeardOfJoined' /\ NothingTouched'
  BY <1>2 DEF ChInv, EventsAreOfSet, HeardOfJoined, NothingTouched, Undisturbed
<1>5. Accepting'
  BY <1>2, ChSets, ChTyped DEF ChInv, Accepting, OutBusy, InOwes
<1>6. JoinedAreDone'
  BY <1>2, ChSets, ChTyped DEF ChInv, JoinedAreDone, Accepting, Sides
<1>7. Mutual'
  BY <1>2, ChSets, ChTyped DEF ChInv, Mutual, Accepting, InOwes, OutBusy
<1>8. Remembered'
  BY <1>2, ChSets, ChTyped DEF ChInv, Remembered, Mutual, Accepting, OutBusy, InOwes
<1>9. CountIsExact'
  BY <1>2, ChSets, ChTyped DEF ChInv, CountIsExact, Calm, One, Remembered, Accepting, Mutual,
     OutBusy, InOwes
<1>10. NewAreInHand'
  BY <1>2, ChSets, ChTyped DEF ChInv, NewAreInHand, CountIsExact, Calm, Accepting, OutBusy,
     InOwes
<1>11. PairsAreReady'
  BY <1>2, ChSets, ChTyped DEF ChInv, PairsAreReady, NewAreInHand, CountIsExact, Calm,
     Accepting, Mutual, OutBusy, InOwes
<1>12. TornDownInPairs'
  BY <1>2, ChSets, ChTyped DEF ChInv, TornDownInPairs, Undisturbed, EventsAreOfSet, Mutual,
     Accepting, OutBusy, InOwes
<1> QED  BY <1>3, <1>4, <1>5, <1>6, <1>7, <1>8, <1>9, <1>10, <1>11, <1>12 DEF ChInv

\* add_eool for the tunnel connection.
LEMMA AddTunnelStep ==
    ASSUME ChInv, AddTunnel
    PROVE  ChInv'
<1>1. AcceptShape'
  BY DEF ChInv, ChTypeOK, AcceptShape, AddTunnel, LastStep, IdleAccept, Note, chPeers, Sides
<1>2. /\ InAt = "add" /\ InAt' \in {"idle", "exited"}
      /\ \A x \in Conns : info'[x] = IF x = InMe /\ epoll["in"] = "run" THEN "joined" ELSE info[x]
      /\ upset' = IF epoll["in"] # "run" THEN upset \cup {"early"} ELSE upset
      /\ UNCHANGED <<channel, running, epoll, events, slot, count, partner, far, unreadAt, wild>>
      /\ UNCHANGED <<OutAt, OutMe>>
  BY ChSets DEF ChInv, ChTypeOK, Accepting, OutBusy, InOwes, OutAt, OutMe, InAt, InMe, InSeen,
     AcceptShape, EventsAreOfSet, AddTunnel, LastStep, IdleAccept, Note, chPeers, Sides
<1>3. ChTypeOK'
  BY <1>1, <1>2, ChSets DEF ChInv, ChTypeOK, Accepting, OutBusy, InOwes, OutAt, OutMe, InAt,
     InMe, InSeen, EventsAreOfSet, AddTunnel, LastStep, IdleAccept, Note, chPeers, Sides
<1>4. Accepting'
  BY <1>2, ChSets, ChTyped DEF ChInv, Accepting, OutBusy, InOwes
<1>5. JoinedAreDone'
  BY <1>2, ChSets, ChTyped DEF ChInv, JoinedAreDone, Accepting, Sides
<1>6. Mutual'
  BY <1>2, ChSets, ChTyped DEF ChInv, Mutual, Accepting, InOwes, OutBusy
<1>7. Remembered'
  BY <1>2, ChSets, ChTyped DEF ChInv, Remembered, Mutual, Accepting, OutBusy, InOwes
<1>8. CountIsExact'
  BY <1>2, ChSets, ChTyped DEF ChInv, CountIsExact, Calm, One, Remembered, Accepting, Mutual,
     OutBusy, InOwes
<1>9. NewAreInHand'
  BY <1>2, ChSets, ChTyped DEF ChInv, NewAreInHand, CountIsExact, Calm, Accepting, OutBusy,
     InOwes
<1>10. PairsAreReady'
  BY <1>2, ChSets, ChTyped DEF ChInv, PairsAreReady, NewAreInHand, CountIsExact, Calm,
     Accepting, Mutual, OutBusy, InOwes
<1>11. EventsAreOfSet'
  BY <1>2, EventsStay, ChTyped, ChSets DEF ChInv, Accepting, OutBusy, InOwes
<1>12. TornDownInPairs'
<2> SUFFICES ASSUME Undisturbed', channel' \notin {"freeIn", "closed"}
             PROVE  /\ \A e \in Conns : info'[e] = "freed" /\ partner[e] # NoConn =>
                           info'[partner[e]] \in {"ending", "freed"}
                    /\ \A e \in Conns : info'[e] = "ending" =>
                           partner[e] # NoConn /\ info'[partner[e]] = "freed"
                    /\ slot # NoConn => info'[slot] \notin {"ending", "freed"}
                    /\ InAt' = "link" => info'[InSeen'] \notin {"ending", "freed"}
  BY <1>2 DEF TornDownInPairs
<2>1. Undisturbed /\ channel \notin {"freeIn", "closed"}
  BY <1>2 DEF Undisturbed
<2>2. /\ InMe \in Conns /\ info[InMe] = "new" /\ info'[InMe] \in {"new", "joined"}
      /\ \A e \in Conns : e # InMe => info'[e] = info[e]
  BY <1>2, ChSets DEF ChInv, Accepting
<2>3. \A e \in Conns : info'[e] = "freed" /\ partner[e] # NoConn => info'[partner[e]] \in {"ending", "freed"}
  <3> SUFFICES ASSUME NEW e \in Conns, info'[e] = "freed", partner[e] # NoConn
               PROVE  info'[partner[e]] \in {"ending", "freed"}
    OBVIOUS
  <3>1. info[partner[e]] \in {"ending", "freed"}
    BY <2>1, <2>2 DEF ChInv, TornDownInPairs
  <3> QED  BY <2>2, <3>1, ChTyped
<2>4. \A e \in Conns : info'[e] = "ending" => partner[e] # NoConn /\ info'[partner[e]] = "freed"
  <3> SUFFICES ASSUME NEW e \in Conns, info'[e] = "ending"
               PROVE  partner[e] # NoConn /\ info'[partner[e]] = "freed"
    OBVIOUS
  <3>1. partner[e] # NoConn /\ info[partner[e]] = "freed"
    BY <2>1, <2>2 DEF ChInv, TornDownInPairs
  <3> QED  BY <2>2, <3>1, ChTyped
<2>5. slot # NoConn => info'[slot] \notin {"ending", "freed"}
  BY <1>2, <2>1, <2>2, ChTyped, ChSets DEF ChInv, TornDownInPairs
<2>6. InAt' # "link"
  BY <1>2
<2> QED  BY <1>2, <2>3, <2>4, <2>5, <2>6
<1>13. HeardOfJoined'
  BY <1>2, ChSets, ChTyped DEF ChInv, HeardOfJoined, Undisturbed, EventsAreOfSet, Accepting,
     OutBusy, InOwes
<1>14. NothingTouched'
  BY <1>2, ChSets, ChTyped DEF ChInv, NothingTouched, TornDownInPairs, HeardOfJoined,
     Undisturbed, EventsAreOfSet, Mutual, Accepting, OutBusy, InOwes
<1> QED  BY <1>3, <1>4, <1>5, <1>6, <1>7, <1>8, <1>9, <1>10, <1>11, <1>12, <1>13, <1>14 DEF
            ChInv

\* epoll_create in run_epoll.
LEMMA MakeSetStep ==
    ASSUME ChInv, NEW s \in Sides, MakeSet(s)
    PROVE  ChInv'
<1>1. AcceptShape'
  BY DEF ChInv, ChTypeOK, AcceptShape, MakeSet, chPeers
<1>2. /\ channel # "none" /\ epoll[s] = "boot"
      /\ \A t \in Sides : epoll'[t] = IF t = s THEN "run" ELSE epoll[t]
      /\ UNCHANGED <<channel, running, events, slot, count, info, partner, far, unreadAt, upset, wild>>
      /\ UNCHANGED <<OutAt, OutMe, InAt, InMe, InSeen>>
  BY ChSets DEF ChInv, ChTypeOK, Accepting, OutBusy, InOwes, OutAt, OutMe, InAt, InMe, InSeen,
     AcceptShape, EventsAreOfSet, MakeSet, chPeers
<1>3. ChTypeOK'
  BY <1>1, <1>2, ChSets DEF ChInv, ChTypeOK, Accepting, OutBusy, InOwes, OutAt, OutMe, InAt,
     InMe, InSeen, EventsAreOfSet, MakeSet, chPeers
<1>4. /\ Accepting' /\ Mutual' /\ Remembered'
      /\ CountIsExact' /\ NewAreInHand' /\ PairsAreReady'
  BY <1>2, RendezvousFrame
<1>5. EventsAreOfSet' /\ TornDownInPairs' /\ HeardOfJoined' /\ NothingTouched'
  BY <1>2 DEF ChInv, EventsAreOfSet, TornDownInPairs, HeardOfJoined, NothingTouched, Undisturbed
<1>6. JoinedAreDone'
<2>1. \A t \in Sides : epoll'[t] # "run" => events'[t] = {}
  BY <1>2 DEF ChInv, JoinedAreDone
<2> QED  BY <1>2, <2>1 DEF ChInv, JoinedAreDone, Sides
<1> QED  BY <1>3, <1>4, <1>5, <1>6 DEF ChInv

\* epoll_wait: what is reported is in the set, or being torn down.
LEMMA WaitEventsStep ==
    ASSUME ChInv, NEW s \in Sides, WaitEvents(s)
    PROVE  ChInv'
<1>1. AcceptShape'
  BY DEF ChInv, ChTypeOK, AcceptShape, WaitEvents, chThreads, chPeers
<1>2. /\ epoll[s] = "run"
      /\ \A t \in Sides : events'[t] = IF t = s THEN ReadyAt(s) ELSE events[t]
      /\ UNCHANGED <<channel, running, epoll, slot, count, info, partner, far, unreadAt, upset, wild>>
      /\ UNCHANGED <<OutAt, OutMe, InAt, InMe, InSeen>>
  BY ChSets DEF ChInv, ChTypeOK, Accepting, OutBusy, InOwes, OutAt, OutMe, InAt, InMe, InSeen,
     AcceptShape, EventsAreOfSet, WaitEvents, chThreads, chPeers
<1>3. ChTypeOK'
<2>1. ReadyAt(s) \in SUBSET [end : Conns, kind : {"in", "out"}]
  BY DEF ReadyAt, Of, Conns
<2> QED  BY <1>1, <2>1 DEF ChInv, ChTypeOK, WaitEvents, chThreads, chPeers
<1>4. /\ Accepting' /\ Mutual' /\ Remembered'
      /\ CountIsExact' /\ NewAreInHand' /\ PairsAreReady'
  BY <1>2, RendezvousFrame
<1>5. TornDownInPairs' /\ NothingTouched'
  BY <1>2 DEF ChInv, TornDownInPairs, NothingTouched, Undisturbed
<1>6. JoinedAreDone'
  BY <1>2, ChSets, ChTyped DEF ChInv, JoinedAreDone, Accepting, Sides
<1>7. EventsAreOfSet'
<2>1. ASSUME NEW w \in ReadyAt(s)
      PROVE  /\ w.end \in Conns /\ w.end \in Of(s) /\ w.kind \in {"in", "out"}
             /\ w.kind = "out" => info[w.end] = "ending"
             /\ w.kind = "in" => info[w.end] = "joined"
  BY <2>1 DEF ReadyAt, Of, Conns
<2> SUFFICES ASSUME NEW t \in Sides, NEW w \in events'[t]
             PROVE  /\ w.end \in Conns /\ w.end \in Of(t)
                    /\ info[w.end] \in {"joined", "ending", "freed"}
                    /\ w.kind = "out" => info[w.end] \in {"ending", "freed"}
  BY <1>2 DEF EventsAreOfSet
<2>2. CASE t = s
  BY <1>2, <2>1, <2>2
<2>3. CASE t # s
  BY <1>2, <2>3 DEF ChInv, EventsAreOfSet
<2> QED  BY <2>2, <2>3
<1>8. HeardOfJoined'
<2>1. ASSUME NEW w \in ReadyAt(s)
      PROVE  /\ w.end \in Conns /\ w.end \in Of(s) /\ w.kind \in {"in", "out"}
             /\ w.kind = "out" => info[w.end] = "ending"
             /\ w.kind = "in" => info[w.end] = "joined"
  BY <2>1 DEF ReadyAt, Of, Conns
<2> SUFFICES ASSUME Undisturbed, NEW t \in Sides, NEW w \in events'[t], w.kind = "in"
             PROVE  info[w.end] = "joined"
  BY <1>2 DEF HeardOfJoined, Undisturbed
<2>2. CASE t = s
  BY <1>2, <2>1, <2>2
<2>3. CASE t # s
  BY <1>2, <2>3 DEF ChInv, HeardOfJoined
<2> QED  BY <2>2, <2>3
<1> QED  BY <1>3, <1>4, <1>5, <1>6, <1>7, <1>8 DEF ChInv

\* run_epoll leaves its loop.
LEMMA StopPollingStep ==
    ASSUME ChInv, NEW s \in Sides, StopPolling(s)
    PROVE  ChInv'
<1>1. AcceptShape'
  BY DEF ChInv, ChTypeOK, AcceptShape, StopPolling, chPeers
<1>2. /\ events[s] = {}
      /\ \A t \in Sides : epoll'[t] = IF t = s THEN "exited" ELSE epoll[t]
      /\ UNCHANGED <<channel, running, events, slot, count, info, partner, far, unreadAt, upset, wild>>
      /\ UNCHANGED <<OutAt, OutMe, InAt, InMe, InSeen>>
  BY ChSets DEF ChInv, ChTypeOK, Accepting, OutBusy, InOwes, OutAt, OutMe, InAt, InMe, InSeen,
     AcceptShape, EventsAreOfSet, StopPolling, chPeers
<1>3. ChTypeOK'
  BY <1>1, <1>2, ChSets DEF ChInv, ChTypeOK, Accepting, OutBusy, InOwes, OutAt, OutMe, InAt,
     InMe, InSeen, EventsAreOfSet, StopPolling, chPeers
<1>4. /\ Accepting' /\ Mutual' /\ Remembered'
      /\ CountIsExact' /\ NewAreInHand' /\ PairsAreReady'
  BY <1>2, RendezvousFrame
<1>5. EventsAreOfSet' /\ TornDownInPairs' /\ HeardOfJoined' /\ NothingTouched'
  BY <1>2 DEF ChInv, EventsAreOfSet, TornDownInPairs, HeardOfJoined, NothingTouched, Undisturbed
<1>6. JoinedAreDone'
<2>1. \A t \in Sides : epoll'[t] # "run" => events'[t] = {}
  BY <1>2 DEF ChInv, JoinedAreDone
<2> QED  BY <1>2, <2>1 DEF ChInv, JoinedAreDone, Sides
<1> QED  BY <1>3, <1>4, <1>5, <1>6 DEF ChInv

\* A connection that is being torn down is freed: its partner was freed before.
LEMMA OnOutStep ==
    ASSUME ChInv, NEW s \in Sides, NEW v \in events[s], OnOut(s, v)
    PROVE  ChInv'
<1>1. AcceptShape'
  BY DEF ChInv, ChTypeOK, AcceptShape, OnOut, Handles, chThreads, chPeers
<1>2. /\ v.kind = "out" /\ info[v.end] # "joined"
      /\ \A x \in Conns : info'[x] = IF x = v.end THEN "freed" ELSE info[x]
      /\ info[v.end] \in {"joined", "ending", "freed"} /\ v.end \in Conns /\ v.end \in Of(s)
      /\ \A t \in Sides : events'[t] = events[t] \ (IF t = s THEN {v} ELSE {})
      /\ \A x \in Conns : (info'[x] = "new" <=> info[x] = "new") /\ (info'[x] = "none" <=> info[x] = "none")
      /\ UNCHANGED <<channel, running, epoll, slot, count, partner, far, unreadAt, upset, wild>>
      /\ UNCHANGED <<OutAt, OutMe, InAt, InMe, InSeen>>
  BY ChSets DEF ChInv, ChTypeOK, Accepting, OutBusy, InOwes, OutAt, OutMe, InAt, InMe, InSeen,
     AcceptShape, EventsAreOfSet, OnOut, Handles, chThreads, chPeers
<1>3. ChTypeOK'
<2>1. info' \in [Conns -> {"none", "new", "joined", "ending", "freed"}]
  BY DEF ChInv, ChTypeOK, OnOut
<2>2. events' \in [Sides -> SUBSET [end : Conns, kind : {"in", "out"}]]
  BY DEF ChInv, ChTypeOK, OnOut, Handles
<2> QED  BY <1>1, <1>2, <2>1, <2>2 DEF ChInv, ChTypeOK
<1>4. CountIsExact' /\ NothingTouched'
  BY <1>2 DEF ChInv, CountIsExact, NothingTouched, Calm, Undisturbed
<1>5. Accepting'
  BY <1>2, ChSets, ChTyped DEF ChInv, Accepting, OutBusy, InOwes
<1>6. JoinedAreDone'
  BY <1>2, ChSets, ChTyped DEF ChInv, JoinedAreDone, Accepting, Sides
<1>7. Mutual'
  BY <1>2, ChSets, ChTyped DEF ChInv, Mutual, Accepting, InOwes, OutBusy
<1>8. Remembered'
  BY <1>2, ChSets, ChTyped DEF ChInv, Remembered, Mutual, Accepting, OutBusy, InOwes
<1>9. NewAreInHand'
  BY <1>2, ChSets, ChTyped DEF ChInv, NewAreInHand, CountIsExact, Calm, Accepting, OutBusy,
     InOwes
<1>10. PairsAreReady'
  BY <1>2, ChSets, ChTyped DEF ChInv, PairsAreReady, NewAreInHand, CountIsExact, Calm,
     Accepting, Mutual, OutBusy, InOwes
<1>11. EventsAreOfSet'
  BY <1>2, EventsStay, ChTyped, ChSets DEF ChInv, Accepting, OutBusy, InOwes
<1>12. TornDownInPairs'
<2> SUFFICES ASSUME Undisturbed', channel' \notin {"freeIn", "closed"}
             PROVE  /\ \A e \in Conns : info'[e] = "freed" /\ partner[e] # NoConn =>
                           info'[partner[e]] \in {"ending", "freed"}
                    /\ \A e \in Conns : info'[e] = "ending" =>
                           partner[e] # NoConn /\ info'[partner[e]] = "freed"
                    /\ slot # NoConn => info'[slot] \notin {"ending", "freed"}
                    /\ InAt = "link" => info'[InSeen] \notin {"ending", "freed"}
  BY <1>2 DEF TornDownInPairs
<2>1. Undisturbed /\ channel \notin {"freeIn", "closed"}
  BY <1>2 DEF Undisturbed
<2>2. \A x \in Conns :
          /\ info'[x] = "ending" => info[x] = "ending"
          /\ info'[x] = "freed" => info[x] \in {"ending", "freed"}
          /\ info[x] = "freed" => info'[x] = "freed"
          /\ info[x] = "ending" => info'[x] \in {"ending", "freed"}
          /\ info'[x] \in {"ending", "freed"} => info[x] \in {"ending", "freed"}
  BY <1>2
<2>3. \A e \in Conns : info'[e] = "freed" /\ partner[e] # NoConn => info'[partner[e]] \in {"ending", "freed"}
  <3> SUFFICES ASSUME NEW e \in Conns, info'[e] = "freed", partner[e] # NoConn
               PROVE  info'[partner[e]] \in {"ending", "freed"}
    OBVIOUS
  <3>1. info[partner[e]] \in {"ending", "freed"}
    BY <2>1, <2>2 DEF ChInv, TornDownInPairs
  <3> QED  BY <2>2, <3>1, ChTyped
<2>4. \A e \in Conns : info'[e] = "ending" => partner[e] # NoConn /\ info'[partner[e]] = "freed"
  <3> SUFFICES ASSUME NEW e \in Conns, info'[e] = "ending"
               PROVE  partner[e] # NoConn /\ info'[partner[e]] = "freed"
    OBVIOUS
  <3>1. partner[e] # NoConn /\ info[partner[e]] = "freed"
    BY <2>1, <2>2 DEF ChInv, TornDownInPairs
  <3> QED  BY <2>2, <3>1, ChTyped
<2>5. slot # NoConn => info'[slot] \notin {"ending", "freed"}
  BY <2>1, <2>2, ChTyped, ChSets DEF ChInv, TornDownInPairs
<2>6. InAt = "link" => info'[InSeen] \notin {"ending", "freed"}
  BY <2>1, <2>2, ChTyped, ChSets DEF ChInv, TornDownInPairs, Accepting
<2> QED  BY <2>3, <2>4, <2>5, <2>6
<1>13. HeardOfJoined'
<2>1. \A t \in Sides : \A w \in events'[t] : w.end \in Conns
  BY <1>2 DEF ChInv, EventsAreOfSet
<2> QED  BY <1>2, <2>1, HeardStay DEF Undisturbed
<1> QED  BY <1>3, <1>4, <1>5, <1>6, <1>7, <1>8, <1>9, <1>10, <1>11, <1>12, <1>13 DEF ChInv

\* Bytes are relayed to the partner, which is not freed.
LEMMA OnDataStep ==
    ASSUME ChInv, NEW s \in Sides, NEW v \in events[s], OnData(s, v)
    PROVE  ChInv'
<1>1. AcceptShape'
  BY DEF ChInv, ChTypeOK, AcceptShape, OnData, Handles, Note, Touches, chThreads, chPeers
<1>2. /\ v.kind = "in"
      /\ info[v.end] \in {"joined", "ending", "freed"} /\ v.end \in Conns /\ v.end \in Of(s)
      /\ \A t \in Sides : events'[t] = events[t] \ (IF t = s THEN {v} ELSE {})
      /\ upset' = IF v.end \in Ins /\ partner[v.end] = NoConn THEN upset \cup {"dropped"} ELSE upset
      /\ wild' = IF partner[v.end] # NoConn /\ info[partner[v.end]] = "freed"
                 THEN wild \cup {"relay"} ELSE wild
      /\ UNCHANGED <<channel, running, epoll, slot, count, info, partner, far>>
      /\ UNCHANGED <<OutAt, OutMe, InAt, InMe, InSeen>>
  BY ChSets DEF ChInv, ChTypeOK, Accepting, OutBusy, InOwes, OutAt, OutMe, InAt, InMe, InSeen,
     AcceptShape, EventsAreOfSet, OnData, Handles, Note, Touches, chThreads, chPeers
<1>3. ChTypeOK'
  BY <1>1, <1>2, ChSets DEF ChInv, ChTypeOK, Accepting, OutBusy, InOwes, OutAt, OutMe, InAt,
     InMe, InSeen, EventsAreOfSet, OnData, Handles, Note, Touches, chThreads, chPeers
<1>4. Accepting' /\ Mutual'
  BY <1>2 DEF ChInv, Accepting, Mutual
<1>5. JoinedAreDone'
  BY <1>2, ChSets, ChTyped DEF ChInv, JoinedAreDone, Accepting, Sides
<1>6. Remembered'
  BY <1>2, ChSets, ChTyped DEF ChInv, Remembered, Mutual, Accepting, OutBusy, InOwes
<1>7. CountIsExact'
  BY <1>2, ChSets, ChTyped DEF ChInv, CountIsExact, Calm, One, Remembered, Accepting, Mutual,
     OutBusy, InOwes
<1>8. NewAreInHand'
  BY <1>2, ChSets, ChTyped DEF ChInv, NewAreInHand, CountIsExact, Calm, Accepting, OutBusy,
     InOwes
<1>9. PairsAreReady'
  BY <1>2, ChSets, ChTyped DEF ChInv, PairsAreReady, NewAreInHand, CountIsExact, Calm,
     Accepting, Mutual, OutBusy, InOwes
<1>10. EventsAreOfSet'
  BY <1>2, EventsStay, ChTyped, ChSets DEF ChInv, Accepting, OutBusy, InOwes
<1>11. TornDownInPairs'
  BY <1>2, ChSets, ChTyped DEF ChInv, TornDownInPairs, Undisturbed, EventsAreOfSet, Mutual,
     Accepting, OutBusy, InOwes
<1>12. HeardOfJoined'
  BY <1>2, HeardStay, ChSets, ChTyped DEF ChInv, Undisturbed, EventsAreOfSet
<1>13. NothingTouched'
<2> SUFFICES ASSUME Undisturbed'
             PROVE  (\A e \in Conns : far'[e] # "rst") /\ wild' \subseteq {"close"}
  BY DEF NothingTouched
<2>1. Undisturbed
  BY <1>2 DEF Undisturbed
<2>2. info[v.end] = "joined"
  BY <1>2, <2>1 DEF ChInv, HeardOfJoined
<2>3. channel \notin {"freeIn", "closed"}
  BY <1>2 DEF ChInv, JoinedAreDone, Sides
<2>4. ASSUME partner[v.end] # NoConn PROVE info[partner[v.end]] # "freed"
  <3>1. partner[v.end] \in Conns /\ partner[partner[v.end]] = v.end /\ v.end # NoConn
    BY <1>2, <2>4, ChTyped, ChSets DEF ChInv, Mutual
  <3> QED  BY <2>1, <2>2, <2>3, <3>1 DEF ChInv, TornDownInPairs
<2> QED  BY <1>2, <2>1, <2>4 DEF ChInv, NothingTouched
<1> QED  BY <1>3, <1>4, <1>5, <1>6, <1>7, <1>8, <1>9, <1>10, <1>11, <1>12, <1>13 DEF ChInv

\* A connection that ended is freed; its partner is told, and has no other event.
LEMMA OnFinishStep ==
    ASSUME ChInv, NEW s \in Sides, NEW v \in events[s], OnFinish(s, v)
    PROVE  ChInv'
<1>1. AcceptShape'
  BY DEF ChInv, ChTypeOK, AcceptShape, OnFinish, Handles, EndPartner, Leaves, Touches,
     chThreads, chPeers
<1>2. /\ v.kind = "in"
      /\ \A x \in Conns : info'[x] = IF x = v.end THEN "freed"
            ELSE IF x = partner[v.end] /\ info[x] = "joined" THEN "ending" ELSE info[x]
      /\ info[v.end] \in {"joined", "ending", "freed"} /\ v.end \in Conns /\ v.end \in Of(s)
      /\ \A t \in Sides : events'[t] = events[t] \ (IF t = s THEN {v} ELSE {})
      /\ \A x \in Conns : (info'[x] = "new" <=> info[x] = "new") /\ (info'[x] = "none" <=> info[x] = "none")
      /\ upset \subseteq upset'
      /\ upset' \subseteq upset \cup {"left", "missed", "crossed"}
      /\ v.end \in {slot, InSeen} /\ partner[v.end] = NoConn => "left" \in upset'
      /\ partner[v.end] # NoConn /\ info[partner[v.end]] = "new" => "missed" \in upset'
      /\ [end |-> partner[v.end], kind |-> "in"] \in events["out"] \cup events["in"] => "crossed" \in upset'
      /\ wild' = IF partner[v.end] # NoConn /\ info[partner[v.end]] = "freed"
                 THEN wild \cup {"tell"} ELSE wild
      /\ UNCHANGED <<channel, running, epoll, slot, count, partner, far, unreadAt>>
      /\ UNCHANGED <<OutAt, OutMe, InAt, InMe, InSeen>>
<2>1. EndPartner(partner[v.end]) \in [Conns -> {"none", "new", "joined", "ending", "freed"}]
  BY DEF ChInv, ChTypeOK, EndPartner
<2>2. \A x \in Conns : EndPartner(partner[v.end])[x] =
           IF x = partner[v.end] /\ info[x] = "joined" THEN "ending" ELSE info[x]
  BY ChSets DEF ChInv, ChTypeOK, EndPartner
<2>3. info[v.end] \in {"joined", "ending", "freed"} /\ v.end \in Conns /\ v.end \in Of(s)
  BY DEF ChInv, EventsAreOfSet
<2>4. \A x \in Conns : info'[x] = IF x = v.end THEN "freed"
            ELSE IF x = partner[v.end] /\ info[x] = "joined" THEN "ending" ELSE info[x]
  BY <2>1, <2>2 DEF OnFinish
<2>5. \A x \in Conns : (info'[x] = "new" <=> info[x] = "new") /\ (info'[x] = "none" <=> info[x] = "none")
  BY <2>3, <2>4
<2>6. v.kind = "in" /\ \A t \in Sides : events'[t] = events[t] \ (IF t = s THEN {v} ELSE {})
  BY DEF ChInv, ChTypeOK, OnFinish, Handles
<2>7. UNCHANGED <<channel, running, epoll, slot, count, partner, far, unreadAt>>
      /\ UNCHANGED <<OutAt, OutMe, InAt, InMe, InSeen>>
  BY DEF OnFinish, chThreads, chPeers, OutAt, OutMe, InAt, InMe, InSeen
<2>8. wild' = IF partner[v.end] # NoConn /\ info[partner[v.end]] = "freed" THEN wild \cup {"tell"} ELSE wild
  BY DEF OnFinish, Touches
<2>9. upset' = upset \cup (IF Leaves(v.end) THEN {"left"} ELSE {})
                    \cup (IF partner[v.end] # NoConn /\ info[partner[v.end]] = "new" THEN {"missed"} ELSE {})
                    \cup (IF [end |-> partner[v.end], kind |-> "in"] \in events["out"] \cup events["in"]
                          THEN {"crossed"} ELSE {})
  BY DEF OnFinish
<2>10. v.end \in {slot, InSeen} /\ partner[v.end] = NoConn => Leaves(v.end)
  BY DEF Leaves, InSeen
<2> QED  BY <2>3, <2>4, <2>5, <2>6, <2>7, <2>8, <2>9, <2>10
<1>3. ChTypeOK'
<2>1. EndPartner(partner[v.end]) \in [Conns -> {"none", "new", "joined", "ending", "freed"}]
  BY DEF ChInv, ChTypeOK, EndPartner
<2>2. info' \in [Conns -> {"none", "new", "joined", "ending", "freed"}]
  BY <2>1 DEF OnFinish
<2>3. events' \in [Sides -> SUBSET [end : Conns, kind : {"in", "out"}]]
  BY DEF ChInv, ChTypeOK, OnFinish, Handles
<2> QED  BY <1>1, <1>2, <2>2, <2>3 DEF ChInv, ChTypeOK
<1>4. Accepting'
  BY <1>2, ChSets, ChTyped DEF ChInv, Accepting, OutBusy, InOwes
<1>5. JoinedAreDone'
<2>1. \A t \in Sides : events[t] = {} => events'[t] = {}
  BY <1>2
<2> QED  BY <1>2, <2>1 DEF ChInv, JoinedAreDone, Sides
<1>6. Mutual'
  BY <1>2, ChSets, ChTyped DEF ChInv, Mutual, Accepting, InOwes, OutBusy
<1>7. Remembered'
  BY <1>2, ChSets, ChTyped DEF ChInv, Remembered, Mutual, Accepting, OutBusy, InOwes
<1>8. CountIsExact'
  BY <1>2, ChSets, ChTyped DEF ChInv, CountIsExact, Calm, One, Remembered, Accepting, Mutual,
     OutBusy, InOwes
<1>9. NewAreInHand'
  BY <1>2, ChSets, ChTyped DEF ChInv, NewAreInHand, CountIsExact, Calm, Accepting, OutBusy,
     InOwes
<1>10. PairsAreReady'
<2>1. Calm' => Calm /\ ("dropped" \in upset' => "dropped" \in upset)
  BY <1>2 DEF Calm
<2>2. \A x \in Conns : info'[x] \in {"joined", "ending", "freed"} => info[x] \in {"joined", "ending", "freed"}
  BY <1>2, ChTyped
<2> QED  BY <1>2, <2>1, <2>2, ChSets DEF ChInv, PairsAreReady
<1>11. EventsAreOfSet'
<2>1. \A e \in Conns : info[e] \in {"joined", "ending", "freed"} =>
          info'[e] \in {"joined", "ending", "freed"} /\ (info[e] # "joined" => info'[e] # "joined")
  BY <1>2
<2> QED  BY <1>2, <2>1, EventsStay
<1>12. TornDownInPairs'
<2> SUFFICES ASSUME Undisturbed', channel' \notin {"freeIn", "closed"}
             PROVE  /\ \A e \in Conns : info'[e] = "freed" /\ partner[e] # NoConn =>
                           info'[partner[e]] \in {"ending", "freed"}
                    /\ \A e \in Conns : info'[e] = "ending" =>
                           partner[e] # NoConn /\ info'[partner[e]] = "freed"
                    /\ slot # NoConn => info'[slot] \notin {"ending", "freed"}
                    /\ InAt = "link" => info'[InSeen] \notin {"ending", "freed"}
  BY <1>2 DEF TornDownInPairs
<2>1. Undisturbed /\ channel \notin {"freeIn", "closed"}
  BY <1>2 DEF Undisturbed
<2>2. info[v.end] = "joined"
  BY <1>2, <2>1 DEF ChInv, HeardOfJoined
<2>3. partner[v.end] = NoConn => v.end # slot /\ (InAt = "link" => v.end # InSeen)
  BY <1>2 DEF Undisturbed
<2>4. partner[v.end] # NoConn =>
          /\ v.end # slot /\ (InAt = "link" => v.end # InSeen)
          /\ partner[v.end] \in Conns /\ partner[partner[v.end]] = v.end
  BY <1>2, ChTyped, ChSets DEF ChInv, Mutual
<2>5. partner[v.end] # NoConn => info[partner[v.end]] \notin {"ending", "freed"}
  BY <1>2, <2>1, <2>2, <2>4, ChSets DEF ChInv, TornDownInPairs
<2>6. partner[v.end] # NoConn => info[partner[v.end]] = "joined"
  <3>1. partner[v.end] # NoConn => info[partner[v.end]] # "none"
    BY <2>4, ChSets DEF ChInv, Mutual, EventsAreOfSet
  <3>2. partner[v.end] # NoConn => info[partner[v.end]] # "new"
    BY <1>2 DEF Undisturbed
  <3> QED  BY <2>4, <2>5, <3>1, <3>2, ChTyped
<2>7. \A e \in Conns : info'[e] = "freed" /\ partner[e] # NoConn => info'[partner[e]] \in {"ending", "freed"}
  <3> SUFFICES ASSUME NEW e \in Conns, info'[e] = "freed", partner[e] # NoConn
               PROVE  info'[partner[e]] \in {"ending", "freed"}
    OBVIOUS
  <3>1. CASE e = v.end
    BY <1>2, <2>4, <2>6, <3>1
  <3>2. CASE e # v.end
    <4>1. info[e] = "freed"
      BY <1>2, <3>2
    <4>2. info[partner[e]] \in {"ending", "freed"}
      BY <2>1, <4>1 DEF ChInv, TornDownInPairs
    <4> QED  BY <1>2, <4>2, ChTyped
  <3> QED  BY <3>1, <3>2
<2>8. \A e \in Conns : info'[e] = "ending" => partner[e] # NoConn /\ info'[partner[e]] = "freed"
  <3> SUFFICES ASSUME NEW e \in Conns, info'[e] = "ending"
               PROVE  partner[e] # NoConn /\ info'[partner[e]] = "freed"
    OBVIOUS
  <3>1. CASE info[e] = "ending"
    <4>1. partner[e] # NoConn /\ info[partner[e]] = "freed"
      BY <2>1, <3>1 DEF ChInv, TornDownInPairs
    <4> QED  BY <1>2, <4>1, ChTyped
  <3>2. CASE info[e] # "ending"
    <4>1. e = partner[v.end]
      BY <1>2, <3>2
    <4> QED  BY <1>2, <2>4, <4>1, ChSets
  <3> QED  BY <3>1, <3>2
<2>9. slot # NoConn => info'[slot] \notin {"ending", "freed"}
  <3> SUFFICES ASSUME slot # NoConn PROVE info'[slot] \notin {"ending", "freed"}
    OBVIOUS
  <3>1. slot \in Conns /\ partner[slot] = NoConn /\ info[slot] \notin {"ending", "freed"}
    BY <2>1, ChTyped, ChSets DEF ChInv, Mutual, TornDownInPairs
  <3>2. slot # v.end /\ slot # partner[v.end]
    BY <1>2, <2>3, <2>4, <3>1, ChSets
  <3> QED  BY <1>2, <3>1, <3>2
<2>10. InAt = "link" => info'[InSeen] \notin {"ending", "freed"}
  <3> SUFFICES ASSUME InAt = "link" PROVE info'[InSeen] \notin {"ending", "freed"}
    OBVIOUS
  <3>1. InSeen \in Conns /\ partner[InSeen] = NoConn /\ info[InSeen] \notin {"ending", "freed"}
    BY <2>1, ChSets DEF ChInv, Accepting, Mutual, TornDownInPairs
  <3>2. InSeen # v.end /\ InSeen # partner[v.end]
    BY <1>2, <2>3, <2>4, <3>1, ChSets
  <3> QED  BY <1>2, <3>1, <3>2
<2> QED  BY <2>7, <2>8, <2>9, <2>10
<1>13. HeardOfJoined'
<2>1. ASSUME Undisturbed', NEW t \in Sides, NEW w \in events'[t], w.kind = "in", info[w.end] = "joined"
      PROVE  info'[w.end] = "joined"
  <3>1. w \in events[t] /\ w.end \in Conns /\ w.end \in Of(t)
    BY <1>2, <2>1 DEF ChInv, EventsAreOfSet
  <3>2. w = [end |-> w.end, kind |-> "in"] /\ v = [end |-> v.end, kind |-> "in"]
    BY <1>2, <2>1, <3>1, EventShape
  <3>3. w.end # v.end
    <4>1. SUFFICES ASSUME w.end = v.end PROVE FALSE
      OBVIOUS
    <4>2. t = s
      BY <1>2, <3>1, <4>1, ChSets DEF Sides
    <4> QED  BY <1>2, <2>1, <3>2, <4>1, <4>2
  <3>4. w.end # partner[v.end]
    <4>1. w \in events["out"] \cup events["in"]
      BY <3>1 DEF Sides
    <4> QED  BY <1>2, <2>1, <3>2, <4>1 DEF Undisturbed
  <3> QED  BY <1>2, <2>1, <3>1, <3>3, <3>4
<2> QED  BY <1>2, <2>1, HeardStay DEF Undisturbed
<1>14. NothingTouched'
<2> SUFFICES ASSUME Undisturbed'
             PROVE  (\A e \in Conns : far'[e] # "rst") /\ wild' \subseteq {"close"}
  BY DEF NothingTouched
<2>1. Undisturbed
  BY <1>2 DEF Undisturbed
<2>2. info[v.end] = "joined"
  BY <1>2, <2>1 DEF ChInv, HeardOfJoined
<2>3. channel \notin {"freeIn", "closed"}
  BY <1>2 DEF ChInv, JoinedAreDone, Sides
<2>4. ASSUME partner[v.end] # NoConn PROVE info[partner[v.end]] # "freed"
  <3>1. partner[v.end] \in Conns /\ partner[partner[v.end]] = v.end /\ v.end # NoConn
    BY <1>2, <2>4, ChTyped, ChSets DEF ChInv, Mutual
  <3> QED  BY <2>1, <2>2, <2>3, <3>1 DEF ChInv, TornDownInPairs
<2> QED  BY <1>2, <2>1, <2>4 DEF ChInv, NothingTouched
<1> QED  BY <1>3, <1>4, <1>5, <1>6, <1>7, <1>8, <1>9, <1>10, <1>11, <1>12, <1>13, <1>14 DEF
            ChInv

\* on_a_disconnected: the partner is not told, which the history notes.
LEMMA OnRstStep ==
    ASSUME ChInv, NEW s \in Sides, NEW v \in events[s], OnRst(s, v)
    PROVE  ChInv'
<1>1. AcceptShape'
  BY DEF ChInv, ChTypeOK, AcceptShape, OnRst, Handles, Note, Leaves, chThreads, chPeers
<1>2. /\ v.kind = "in" /\ far[v.end] = "rst"
      /\ \A x \in Conns : info'[x] = IF x = v.end THEN "freed" ELSE info[x]
      /\ info[v.end] \in {"joined", "ending", "freed"} /\ v.end \in Conns /\ v.end \in Of(s)
      /\ \A t \in Sides : events'[t] = events[t] \ (IF t = s THEN {v} ELSE {})
      /\ \A x \in Conns : (info'[x] = "new" <=> info[x] = "new") /\ (info'[x] = "none" <=> info[x] = "none")
      /\ upset' = IF v.end \in {slot, InSeen} /\ partner[v.end] = NoConn THEN upset \cup {"left"} ELSE upset
      /\ UNCHANGED <<channel, running, epoll, slot, count, partner, far, unreadAt, wild>>
      /\ UNCHANGED <<OutAt, OutMe, InAt, InMe, InSeen>>
  BY ChSets DEF ChInv, ChTypeOK, Accepting, OutBusy, InOwes, OutAt, OutMe, InAt, InMe, InSeen,
     AcceptShape, EventsAreOfSet, OnRst, Handles, Note, Leaves, chThreads, chPeers
<1>3. ChTypeOK'
<2>1. info' \in [Conns -> {"none", "new", "joined", "ending", "freed"}]
  BY DEF ChInv, ChTypeOK, OnRst
<2>2. events' \in [Sides -> SUBSET [end : Conns, kind : {"in", "out"}]]
  BY DEF ChInv, ChTypeOK, OnRst, Handles
<2> QED  BY <1>1, <1>2, <2>1, <2>2 DEF ChInv, ChTypeOK
<1>4. Accepting'
  BY <1>2, ChSets, ChTyped DEF ChInv, Accepting, OutBusy, InOwes
<1>5. JoinedAreDone'
  BY <1>2, ChSets, ChTyped DEF ChInv, JoinedAreDone, Accepting, Sides
<1>6. Mutual'
  BY <1>2, ChSets, ChTyped DEF ChInv, Mutual, Accepting, InOwes, OutBusy
<1>7. Remembered'
  BY <1>2, ChSets, ChTyped DEF ChInv, Remembered, Mutual, Accepting, OutBusy, InOwes
<1>8. CountIsExact'
  BY <1>2, ChSets, ChTyped DEF ChInv, CountIsExact, Calm, One, Remembered, Accepting, Mutual,
     OutBusy, InOwes
<1>9. NewAreInHand'
  BY <1>2, ChSets, ChTyped DEF ChInv, NewAreInHand, CountIsExact, Calm, Accepting, OutBusy,
     InOwes
<1>10. PairsAreReady'
  BY <1>2, ChSets, ChTyped DEF ChInv, PairsAreReady, NewAreInHand, CountIsExact, Calm,
     Accepting, Mutual, OutBusy, InOwes
<1>11. EventsAreOfSet'
  BY <1>2, EventsStay, ChTyped, ChSets DEF ChInv, Accepting, OutBusy, InOwes
<1>12. TornDownInPairs'
<2>1. ~Undisturbed'
  BY <1>2 DEF ChInv, NothingTouched, Undisturbed
<2> QED  BY <2>1 DEF TornDownInPairs
<1>13. HeardOfJoined'
<2>1. ~Undisturbed'
  BY <1>2 DEF ChInv, NothingTouched, Undisturbed
<2> QED  BY <2>1 DEF HeardOfJoined
<1>14. NothingTouched'
  BY <1>2, ChSets, ChTyped DEF ChInv, NothingTouched, TornDownInPairs, HeardOfJoined,
     Undisturbed, EventsAreOfSet, Mutual, Accepting, OutBusy, InOwes
<1> QED  BY <1>3, <1>4, <1>5, <1>6, <1>7, <1>8, <1>9, <1>10, <1>11, <1>12, <1>13, <1>14 DEF
            ChInv

\* close() stops "out".
LEMMA CloseChannelStep ==
    ASSUME ChInv, CloseChannel
    PROVE  ChInv'
<1>1. AcceptShape'
  BY DEF ChInv, ChTypeOK, AcceptShape, CloseChannel, WakeUp, Note, chPeers, Sides
<1>2. /\ channel = "open" /\ channel' = "stopIn"
      /\ InAt' = IF InAt = "wait" THEN "reread" ELSE IF InAt = "await" THEN "take" ELSE InAt
      /\ UNCHANGED <<InMe, InSeen>>
      /\ upset' = IF InAt = "await" THEN upset \cup {"overslept"} ELSE upset
      /\ UNCHANGED <<epoll, events, slot, count, info, partner, far, unreadAt, wild>>
      /\ UNCHANGED <<OutAt, OutMe>>
  BY ChSets DEF ChInv, ChTypeOK, Accepting, OutBusy, InOwes, OutAt, OutMe, InAt, InMe, InSeen,
     AcceptShape, EventsAreOfSet, CloseChannel, WakeUp, Note, chPeers, Sides
<1>3. ChTypeOK'
  BY <1>1, <1>2, ChSets DEF ChInv, ChTypeOK, Accepting, OutBusy, InOwes, OutAt, OutMe, InAt,
     InMe, InSeen, EventsAreOfSet, CloseChannel, WakeUp, Note, chPeers, Sides
<1>4. Accepting'
  BY <1>2, ChSets, ChTyped DEF ChInv, Accepting, OutBusy, InOwes
<1>5. JoinedAreDone'
  BY <1>2, ChSets, ChTyped DEF ChInv, JoinedAreDone, Accepting, Sides
<1>6. Mutual'
  BY <1>2, ChSets, ChTyped DEF ChInv, Mutual, Accepting, InOwes, OutBusy
<1>7. Remembered'
  BY <1>2, ChSets, ChTyped DEF ChInv, Remembered, Mutual, Accepting, OutBusy, InOwes
<1>8. CountIsExact'
  BY <1>2, ChSets, ChTyped DEF ChInv, CountIsExact, Calm, One, Remembered, Accepting, Mutual,
     OutBusy, InOwes
<1>9. NewAreInHand'
  BY <1>2, ChSets, ChTyped DEF ChInv, NewAreInHand, CountIsExact, Calm, Accepting, OutBusy,
     InOwes
<1>10. PairsAreReady'
  BY <1>2, ChSets, ChTyped DEF ChInv, PairsAreReady, NewAreInHand, CountIsExact, Calm,
     Accepting, Mutual, OutBusy, InOwes
<1>11. EventsAreOfSet'
  BY <1>2, ChSets, ChTyped DEF ChInv, EventsAreOfSet
<1>12. TornDownInPairs'
  BY <1>2, ChSets, ChTyped DEF ChInv, TornDownInPairs, Undisturbed, EventsAreOfSet, Mutual,
     Accepting, OutBusy, InOwes
<1>13. HeardOfJoined'
  BY <1>2, ChSets, ChTyped DEF ChInv, HeardOfJoined, Undisturbed, EventsAreOfSet, Accepting,
     OutBusy, InOwes
<1>14. NothingTouched'
  BY <1>2, ChSets, ChTyped DEF ChInv, NothingTouched, TornDownInPairs, HeardOfJoined,
     Undisturbed, EventsAreOfSet, Mutual, Accepting, OutBusy, InOwes
<1> QED  BY <1>3, <1>4, <1>5, <1>6, <1>7, <1>8, <1>9, <1>10, <1>11, <1>12, <1>13, <1>14 DEF
            ChInv

\* It joins the threads of "out" and stops "in".
LEMMA StopInStep ==
    ASSUME ChInv, StopIn
    PROVE  ChInv'
<1>1. AcceptShape'
  BY DEF ChInv, ChTypeOK, AcceptShape, StopIn, Joined, chPeers
<1>2. /\ channel = "stopIn" /\ channel' = "freeOut"
      /\ epoll["out"] = "exited" /\ OutAt = "exited"
      /\ UNCHANGED <<epoll, events, slot, count, info, partner, far, unreadAt, upset, wild>>
      /\ UNCHANGED <<OutAt, OutMe, InAt, InMe, InSeen>>
  BY ChSets DEF ChInv, ChTypeOK, Accepting, OutBusy, InOwes, OutAt, OutMe, InAt, InMe, InSeen,
     AcceptShape, EventsAreOfSet, StopIn, Joined, chPeers
<1>3. ChTypeOK'
  BY <1>1, <1>2, ChSets DEF ChInv, ChTypeOK, Accepting, OutBusy, InOwes, OutAt, OutMe, InAt,
     InMe, InSeen, EventsAreOfSet, StopIn, Joined, chPeers
<1>4. /\ Accepting' /\ Mutual' /\ Remembered'
      /\ CountIsExact' /\ NewAreInHand' /\ PairsAreReady'
  BY <1>2, RendezvousFrame
<1>5. EventsAreOfSet' /\ HeardOfJoined' /\ NothingTouched'
  BY <1>2 DEF ChInv, EventsAreOfSet, HeardOfJoined, NothingTouched, Undisturbed
<1>6. JoinedAreDone'
  BY <1>2, ChSets, ChTyped DEF ChInv, JoinedAreDone, Accepting, Sides
<1>7. TornDownInPairs'
  BY <1>2, ChSets, ChTyped DEF ChInv, TornDownInPairs, Undisturbed, EventsAreOfSet, Mutual,
     Accepting, OutBusy, InOwes
<1> QED  BY <1>3, <1>4, <1>5, <1>6, <1>7 DEF ChInv

\* It joins the threads of "in" and frees the users.
LEMMA FreeOutStep ==
    ASSUME ChInv, FreeOut
    PROVE  ChInv'
<1>1. AcceptShape'
  BY DEF ChInv, ChTypeOK, AcceptShape, FreeOut, FreeAll, Joined, chThreads, chPeers, Sides
<1>2. /\ channel = "freeOut" /\ channel' = "freeIn"
      /\ epoll["in"] = "exited" /\ InAt = "exited"
      /\ \A x \in Conns : info'[x] = IF x \in Of("out") /\ info[x] # "none" THEN "freed" ELSE info[x]
      /\ wild' \in {wild, wild \cup {"close"}}
      /\ UNCHANGED <<running, epoll, events, slot, count, partner, far, unreadAt, upset>>
      /\ UNCHANGED <<OutAt, OutMe, InAt, InMe, InSeen>>
  BY ChSets DEF ChInv, ChTypeOK, Accepting, OutBusy, InOwes, OutAt, OutMe, InAt, InMe, InSeen,
     AcceptShape, EventsAreOfSet, FreeOut, FreeAll, Joined, chThreads, chPeers, Sides
<1>3. ChTypeOK'
  BY <1>1, <1>2, ChSets DEF ChInv, ChTypeOK, Accepting, OutBusy, InOwes, OutAt, OutMe, InAt,
     InMe, InSeen, EventsAreOfSet, FreeOut, FreeAll, Joined, chThreads, chPeers, Sides
<1>4. Accepting'
<2>1. OutAt' = "exited" /\ InAt' = "exited"
  BY <1>2 DEF ChInv, JoinedAreDone
<2> QED  BY <2>1 DEF Accepting, OutBusy, InOwes
<1>5. JoinedAreDone'
  BY <1>2, ChSets, ChTyped DEF ChInv, JoinedAreDone, Accepting, Sides
<1>6. Mutual'
  BY <1>2, ChSets, ChTyped DEF ChInv, Mutual, Accepting, InOwes, OutBusy
<1>7. Remembered'
<2>1. \A x \in Conns : info'[x] = "none" <=> info[x] = "none"
  BY <1>2
<2> QED  BY <1>2, <2>1, ChSets DEF ChInv, JoinedAreDone, Remembered
<1>8. CountIsExact'
  BY <1>2, ChSets, ChTyped DEF ChInv, CountIsExact, Calm, One, Remembered, Accepting, Mutual,
     OutBusy, InOwes
<1>9. NewAreInHand'
  BY <1>2, ChSets, ChTyped DEF ChInv, NewAreInHand, CountIsExact, Calm, Accepting, OutBusy,
     InOwes
<1>10. PairsAreReady'
  BY <1>2, ChSets, ChTyped DEF ChInv, PairsAreReady, NewAreInHand, CountIsExact, Calm,
     Accepting, Mutual, OutBusy, InOwes
<1>11. EventsAreOfSet'
  BY <1>2, EventsStay, ChTyped, ChSets DEF ChInv, Accepting, OutBusy, InOwes
<1>12. TornDownInPairs'
  BY <1>2, ChSets, ChTyped DEF ChInv, TornDownInPairs, Undisturbed, EventsAreOfSet, Mutual,
     Accepting, OutBusy, InOwes
<1>13. HeardOfJoined'
<2>1. \A t \in Sides : events'[t] = {}
  BY <1>2, ChTyped DEF ChInv, JoinedAreDone, Sides
<2> QED  BY <2>1 DEF HeardOfJoined
<1>14. NothingTouched'
  BY <1>2, ChSets, ChTyped DEF ChInv, NothingTouched, TornDownInPairs, HeardOfJoined,
     Undisturbed, EventsAreOfSet, Mutual, Accepting, OutBusy, InOwes
<1> QED  BY <1>3, <1>4, <1>5, <1>6, <1>7, <1>8, <1>9, <1>10, <1>11, <1>12, <1>13, <1>14 DEF
            ChInv

\* It frees the tunnel connections.
LEMMA FreeInStep ==
    ASSUME ChInv, FreeIn
    PROVE  ChInv'
<1>1. AcceptShape'
  BY DEF ChInv, ChTypeOK, AcceptShape, FreeIn, FreeAll, Joined, chThreads, chPeers, Sides
<1>2. /\ channel = "freeIn" /\ channel' = "closed"
      /\ \A x \in Conns : info'[x] = IF x \in Of("in") /\ info[x] # "none" THEN "freed" ELSE info[x]
      /\ wild' \in {wild, wild \cup {"close"}}
      /\ UNCHANGED <<running, epoll, events, slot, count, partner, far, unreadAt, upset>>
      /\ UNCHANGED <<OutAt, OutMe, InAt, InMe, InSeen>>
  BY ChSets DEF ChInv, ChTypeOK, Accepting, OutBusy, InOwes, OutAt, OutMe, InAt, InMe, InSeen,
     AcceptShape, EventsAreOfSet, FreeIn, FreeAll, Joined, chThreads, chPeers, Sides
<1>3. ChTypeOK'
  BY <1>1, <1>2, ChSets DEF ChInv, ChTypeOK, Accepting, OutBusy, InOwes, OutAt, OutMe, InAt,
     InMe, InSeen, EventsAreOfSet, FreeIn, FreeAll, Joined, chThreads, chPeers, Sides
<1>4. Accepting'
<2>1. OutAt' = "exited" /\ InAt' = "exited"
  BY <1>2 DEF ChInv, JoinedAreDone
<2> QED  BY <2>1 DEF Accepting, OutBusy, InOwes
<1>5. JoinedAreDone'
  BY <1>2, ChSets, ChTyped DEF ChInv, JoinedAreDone, Accepting, Sides
<1>6. Mutual'
  BY <1>2, ChSets, ChTyped DEF ChInv, Mutual, Accepting, InOwes, OutBusy
<1>7. Remembered'
  BY <1>2, ChSets, ChTyped DEF ChInv, Remembered, Mutual, Accepting, OutBusy, InOwes
<1>8. CountIsExact'
  BY <1>2, ChSets, ChTyped DEF ChInv, CountIsExact, Calm, One, Remembered, Accepting, Mutual,
     OutBusy, InOwes
<1>9. NewAreInHand'
  BY <1>2, ChSets, ChTyped DEF ChInv, NewAreInHand, CountIsExact, Calm, Accepting, OutBusy,
     InOwes
<1>10. PairsAreReady'
<2>1. InAt = "exited" /\ \A x \in Conns : info'[x] = "new" => info[x] = "new"
  BY <1>2 DEF ChInv, JoinedAreDone
<2>2. Calm => \A i \in Ins : info[i] # "new"
  BY <2>1 DEF ChInv, NewAreInHand
<2> QED  BY <1>2, <2>1, <2>2, ChSets, ChTyped DEF ChInv, PairsAreReady, Calm
<1>11. EventsAreOfSet'
  BY <1>2, EventsStay, ChTyped, ChSets DEF ChInv, Accepting, OutBusy, InOwes
<1>12. TornDownInPairs'
  BY <1>2, ChSets, ChTyped DEF ChInv, TornDownInPairs, Undisturbed, EventsAreOfSet, Mutual,
     Accepting, OutBusy, InOwes
<1>13. HeardOfJoined'
<2>1. \A t \in Sides : events'[t] = {}
  BY <1>2, ChTyped DEF ChInv, JoinedAreDone, Sides
<2> QED  BY <2>1 DEF HeardOfJoined
<1>14. NothingTouched'
  BY <1>2, ChSets, ChTyped DEF ChInv, NothingTouched, TornDownInPairs, HeardOfJoined,
     Undisturbed, EventsAreOfSet, Mutual, Accepting, OutBusy, InOwes
<1> QED  BY <1>3, <1>4, <1>5, <1>6, <1>7, <1>8, <1>9, <1>10, <1>11, <1>12, <1>13, <1>14 DEF
            ChInv

\* Each action keeps the invariant.
LEMMA ChStep == ChInv /\ [ChNext]_chVars => ChInv'
<1> SUFFICES ASSUME ChInv, [ChNext]_chVars PROVE ChInv'
  OBVIOUS
<1>1. CASE UNCHANGED chVars
  <2>1. /\ UNCHANGED <<channel, running, epoll, events, accept, slot, count, info, partner, far,
                       upset, wild>>
        /\ UNCHANGED <<OutAt, OutMe, InAt, InMe, InSeen>>
    BY <1>1 DEF chVars, OutAt, OutMe, InAt, InMe, InSeen
  <2>2. ChTypeOK' /\ JoinedAreDone' /\ EventsAreOfSet'
    BY <2>1 DEF ChInv, ChTypeOK, AcceptShape, JoinedAreDone, EventsAreOfSet
  <2>3. TornDownInPairs' /\ HeardOfJoined' /\ NothingTouched'
    BY <2>1 DEF ChInv, TornDownInPairs, HeardOfJoined, NothingTouched, Undisturbed
  <2> QED  BY <2>1, <2>2, <2>3, RendezvousFrame DEF ChInv
<1>2. CASE OpenChannel \/ CloseChannel \/ Closes
  BY <1>2, OpenChannelStep, CloseChannelStep, StopInStep, FreeOutStep, FreeInStep DEF Closes
<1>3. CASE UserSide
  BY <1>3, SetSlotStep, AskStep, NotifyInStep, AddUserStep, CountUserStep, StopAcceptingOutStep
     DEF UserSide
<1>4. CASE TunnelSide \/ TimesOut
  BY <1>4, PeekStep, RereadStep, LinkStep, CheckCountStep, TakeCountStep, AddTunnelStep,
     StopAcceptingInStep, WaitEndsStep, AwaitEndsStep DEF TunnelSide, TimesOut
<1>5. ASSUME NEW s \in Sides, Polls(s) PROVE ChInv'
  <2>1. CASE MakeSet(s) \/ WaitEvents(s) \/ StopPolling(s)
    BY <2>1, MakeSetStep, WaitEventsStep, StopPollingStep
  <2>2. ASSUME NEW v \in events[s], OnOut(s, v) \/ OnData(s, v) \/ OnFinish(s, v) \/ OnRst(s, v)
        PROVE  ChInv'
    BY <2>2, OnOutStep, OnDataStep, OnFinishStep, OnRstStep
  <2> QED  BY <1>5, <2>1, <2>2 DEF Polls
<1>6. CASE (\E o \in Outs : TakeUser(o)) \/ (\E i \in Ins : TakeTunnel(i))
  BY <1>6, TakeUserStep, TakeTunnelStep
<1>7. CASE Peers
  BY <1>7, FarSendsStep, FarEndsStep DEF Peers
<1> QED  BY <1>1, <1>2, <1>3, <1>4, <1>5, <1>6, <1>7 DEF ChNext

\* init leaves both servers idle and the slot empty.
LEMMA ChInitially == ChInit => ChInv
<1> SUFFICES ASSUME ChInit PROVE ChInv
  OBVIOUS
<1>1. AcceptShape /\ OutAt = "idle" /\ InAt = "idle"
  BY DEF ChInit, AcceptShape, IdleAccept, Sides, OutAt, InAt
<1>2. ChTypeOK /\ JoinedAreDone
  BY <1>1 DEF ChInit, ChTypeOK, JoinedAreDone, Sides
<1>3. /\ \A e \in Conns : info[e] = "none" /\ partner[e] = NoConn /\ far[e] = "open"
      /\ \A s \in Sides : events[s] = {}
      /\ upset = {} /\ wild = {} /\ slot = NoConn /\ count = 0
  BY DEF ChInit
<1>4. Accepting /\ Mutual /\ Remembered
  BY <1>1, <1>3, ChSets DEF Accepting, Mutual, Remembered, OutBusy, InOwes
<1>5. CountIsExact
  BY <1>1, <1>3 DEF CountIsExact, One, OutBusy, InOwes
<1>6. NewAreInHand /\ PairsAreReady
  BY <1>1, <1>3, ChSets DEF NewAreInHand, PairsAreReady
<1>7. EventsAreOfSet /\ TornDownInPairs /\ HeardOfJoined /\ NothingTouched
  BY <1>1, <1>3 DEF EventsAreOfSet, TornDownInPairs, HeardOfJoined, NothingTouched
<1> QED  BY <1>2, <1>4, <1>5, <1>6, <1>7 DEF ChInv

\* The rendezvous over the slot, the count and the two epoll sets, as one invariant of
\* vpn_server_oi's threads.
THEOREM ChInvariance == ChSpec => []ChInv
<1> QED  BY ChInitially, ChStep, PTL DEF ChSpec

\* A connected user is in the slot, in the hands of the tunnel side, or paired both
\* ways, whatever the threads of event_out and event_in do, unless a second user came
\* during the rendezvous.
THEOREM NobodyForgottenSafety == ChSpec => []NobodyForgotten
<1>1. ChInv => NobodyForgotten
  <2> SUFFICES ASSUME ChInv, "crowded" \notin upset,
                      NEW o \in Outs, info[o] = "joined", accept["out"].me # o
               PROVE  o \in {slot, accept["in"].seen} \/ (partner[o] \in Ins /\ partner[partner[o]] = o)
    BY DEF NobodyForgotten
  <2>1. slot = o \/ partner[o] # NoConn
    BY DEF ChInv, Remembered, OutMe
  <2>2. partner[o] # NoConn => partner[o] \in Ins /\ partner[partner[o]] = o
    BY ChSets DEF ChInv, Mutual
  <2> QED  BY <2>1, <2>2
<1> QED  BY <1>1, ChInvariance, PTL

\* The wait for m_connected_count in event_in::on_accept: what is relayed from has a
\* partner that is in the epoll set, as long as the count means what it says.
THEOREM PairIsReadySafety == ChSpec => []PairIsReady
<1>1. ChInv => PairIsReady
  <2> SUFFICES ASSUME ChInv, upset \cap {"unpaired", "crowded", "overslept", "early"} = {}
               PROVE  /\ \A i \in Ins : info[i] = "joined" =>
                             partner[i] \in Outs /\ info[partner[i]] # "new"
                      /\ "dropped" \notin upset
    BY DEF PairIsReady
  <2>1. Calm
    BY DEF Calm
  <2> QED  BY <2>1 DEF ChInv, PairsAreReady
<1> QED  BY <1>1, ChInvariance, PTL

\* Only the paths that tell the partner nothing, or tell it too early or too late, make
\* a thread touch a socket_info that was freed.
THEOREM FreedOnlyWhenCrossedSafety == ChSpec => []FreedOnlyWhenCrossed
<1>1. ChInv => FreedOnlyWhenCrossed
  <2>1. Undisturbed \/ upset \cap {"left", "reset", "missed", "crossed"} # {}
    BY DEF Undisturbed
  <2> QED  BY <2>1 DEF ChInv, NothingTouched, FreedOnlyWhenCrossed
<1> QED  BY <1>1, ChInvariance, PTL
=============================================================================
