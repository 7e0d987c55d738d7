---------------------------- MODULE ClientProofs ----------------------------
(***************************************************************************)
(* Proofs about the tunnel client: its control connection (ControlLink),   *)
(* one relay (ClientRelay), and the frames that it and the server cut out  *)
(* of their streams (FrameLoop).                                           *)
(***************************************************************************)
EXTENDS ControlLink, ClientRelay, FrameLoop, SequenceLemmas

(***************************************************************************)
(* ControlLink: one control connection at a time.                          *)
(***************************************************************************)
AtMain  == at.main
AtAgain == at.again

LinkTypes ==
    /\ link \in [Links -> {"none", "parked", "up", "ending", "ended"}]
    /\ made \in 0..MaxLinks /\ dialled \in [Dialers -> 0..MaxLinks]
    /\ at = [main |-> AtMain, again |-> AtAgain]
    /\ AtMain \in {"new", "connect", "add", "spawn", "idle", "notify", "join", "stopped"}
    /\ AtAgain \in {"none", "connect", "add", "test", "lock", "wait", "ended"}
    /\ run \in BOOLEAN

\* A dialler has its connection in hand until it is in the epoll set, and only one dials.
Dialled ==
    /\ \A c \in Links : c > made => link[c] = "none"
    /\ AtMain \in {"new", "connect", "add", "spawn"} => AtAgain = "none"
    /\ AtMain \in {"notify", "join", "stopped"} => ~run
    /\ \A d \in Dialers : at[d] = "add" => dialled[d] \in Links /\ link[dialled[d]] = "parked"

\* Who is about to dial knows that there is no connection left.
DialsForNone ==
    "spurious" \notin hist /\ run =>
        /\ \A c, e \in Links : Alive(c) /\ Alive(e) => c = e
        /\ AtMain \in {"new", "connect"} \/ AtAgain = "connect" => \A c \in Links : ~Alive(c)

LinkInv == LinkTypes /\ Dialled /\ DialsForNone

(***************************************************************************)
(* ClientRelay: the two threads that take one relay down.                  *)
(***************************************************************************)
RelayTypes ==
    /\ main \in {"idle", "server", "local", "join", "addServer", "addLocal", "closeLone", "done"}
    /\ peer \in [Ends -> {"none", "up", "fin", "rst"}]
    /\ sends \in [Ends -> 0..MaxBytes] /\ unread \in [Ends -> 0..MaxBytes]
    /\ \A e \in Ends : sends[e] + unread[e] <= MaxBytes
    /\ sock \in [Ends -> {"none", "open", "closed"}]
    /\ block \in [Ends -> {"none", "live", "freed"}]
    /\ ptr \in [Ends -> BOOLEAN] /\ watch \in [Ends -> {"none", "in", "out"}]
    /\ thr \in [Ends -> {"wait", "send", "cut", "tell", "close", "free"}]
    /\ alive \in BOOLEAN /\ lost \subseteq Ends
    /\ past \subseteq {"freed", "untold", "reset", "relayed"}

Connecting == main \in {"idle", "server", "local", "join"}

\* Until both connects are over no epoll thread has anything to do.
NotServedYet ==
    /\ Connecting =>
          /\ lost = {} /\ past \subseteq {"reset"}
          /\ \A e \in Ends : watch[e] = "none" /\ thr[e] = "wait" /\ sock[e] # "closed" /\ block[e] # "freed"
          /\ \A e \in Ends : ~ptr[e]
    /\ main \in {"idle", "server"} => peer["server"] = "none"
    /\ main \in {"idle", "server", "local"} => peer["local"] = "none"
    /\ main = "addServer" => watch["server"] = "none" /\ thr["server"] = "wait" /\ sock["server"] = "open"
    /\ main \in {"addServer", "addLocal"} =>
           watch["local"] = "none" /\ thr["local"] = "wait" /\ sock["local"] = "open"

\* The socket, the block and the thread of one end.
EndsAgree ==
    \A e \in Ends :
        /\ peer[e] = "none" <=> sock[e] = "none"
        /\ sock[e] = "none" <=> block[e] = "none"
        /\ sock[e] = "none" => watch[e] = "none"
        /\ thr[e] \in {"send", "cut", "tell", "close"} => sock[e] = "open" /\ watch[e] # "none"
        /\ thr[e] = "free" => sock[e] = "closed"
        /\ sock[e] = "closed" => watch[e] = "none"
        /\ block[e] = "freed" => sock[e] = "closed"

\* A pointer is missing when the other end failed to connect, or ended.
PointersLead ==
    \A e \in Ends : ~Connecting /\ sock[e] # "none" /\ ~ptr[e] => peer[Other(e)] # "up"

Ended(e) == peer[e] \in {"fin", "rst"}
Told(e)  == Ended(e) /\ (thr[e] \in {"close", "free"} \/ sock[e] = "closed")

\* An end is taken down because it ended, or was told by the other one.
TakenDown ==
    \A e \in Ends :
        /\ thr[e] \in {"cut", "tell"} => Ended(e) /\ unread[e] = 0
        /\ watch[e] = "out" => Told(Other(e)) \/ peer[Other(e)] = "none"
        /\ thr[e] \in {"close", "free"} \/ sock[e] = "closed" =>
              Ended(e) \/ Told(Other(e)) \/ peer[Other(e)] = "none"
        /\ thr[e] = "close" =>
              unread[e] = 0 \/ peer[e] = "rst" \/ Told(Other(e)) \/ peer[Other(e)] = "none"

Noted ==
    /\ "reset" \notin past => \A e \in Ends : peer[e] # "rst"
    /\ \A e \in Ends : thr[e] = "send" => "relayed" \in past

LoneIsLone == main = "closeLone" => \E e \in Ends : block[e] = "none"

RelayInv == /\ RelayTypes /\ NotServedYet /\ EndsAgree /\ PointersLead /\ TakenDown
            /\ Noted /\ LoneIsLone /\ QuietCloseIsClean /\ KeepsWhatWasSent

\* Each action of the two dialers, the epoll thread and stop() keeps the invariant.
LEMMA LinkStep ==
    ASSUME LinkInv, [LinkNext]_linkVars
    PROVE  LinkInv'
<1> USE DEF AtMain, AtAgain
<1>1. CASE \/ ServerVanishes \/ ServerReturns \/ (\E c \in Links : ServerEnds(c))
           \/ (\E d \in Dialers : DialFails(d)) \/ UNCHANGED linkVars
  <2>1. UNCHANGED <<link, made, at, dialled, run, hist>>
    BY <1>1 DEF ServerVanishes, ServerReturns, ServerEnds, DialFails, linkVars
  <2> QED  BY <2>1 DEF LinkInv, LinkTypes, Dialled, DialsForNone, Alive
<1>2. ASSUME NEW d \in Dialers, Dial(d) PROVE LinkInv'
  <2>1. /\ at[d] = "connect" /\ made < MaxLinks /\ UNCHANGED <<run, hist>>
        /\ made' = made + 1 /\ made' \in Links /\ made' \in 0..MaxLinks
    <3>1. made \in 0..MaxLinks /\ MaxLinks \in Nat
      BY LinkAssumption DEF LinkInv, LinkTypes
    <3>2. at[d] = "connect" /\ made # MaxLinks /\ made' = made + 1 /\ UNCHANGED <<run, hist>>
      BY <1>2 DEF Dial, Exhausted
    <3> QED  BY <3>1, <3>2 DEF Links
  <2>2. /\ \A c \in Links : link'[c] = IF c = made' THEN "parked" ELSE link[c]
        /\ \A b \in Dialers : dialled'[b] = IF b = d THEN made' ELSE dialled[b]
        /\ \A b \in Dialers : at'[b] = IF b = d THEN "add" ELSE at[b]
    BY <1>2 DEF Dial, Proceed, LinkInv, LinkTypes, Dialers
  <2>3. LinkTypes'
    BY <1>2, <2>1 DEF Dial, Proceed, LinkInv, LinkTypes, Dialers
  <2>4. Dialled'
    <3>1. link[made'] = "none"
      BY <2>1, LinkAssumption DEF LinkInv, LinkTypes, Dialled, Links
    <3>2. \A c \in Links : c > made' => c > made /\ c # made'
      BY <2>1, LinkAssumption DEF LinkInv, LinkTypes, Links
    <3>3. \A c \in Links : c > made' => link'[c] = "none"
      BY <2>2, <3>2 DEF LinkInv, Dialled
    <3>4. /\ AtMain' \in {"new", "connect", "add", "spawn"} => AtAgain' = "none"
          /\ AtMain' \in {"notify", "join", "stopped"} => ~run'
      BY <2>1, <2>2 DEF LinkInv, Dialled, Dialers
    <3>5. \A b \in Dialers : at'[b] = "add" => dialled'[b] \in Links /\ link'[dialled'[b]] = "parked"
      BY <2>1, <2>2, <3>1 DEF LinkInv, Dialled
    <3> QED  BY <3>3, <3>4, <3>5 DEF Dialled
  <2>5. DialsForNone'
    BY <2>1, <2>2 DEF LinkInv, DialsForNone, Dialled, Alive, Dialers
  <2> QED  BY <2>3, <2>4, <2>5 DEF LinkInv
<1>3. ASSUME NEW d \in Dialers, Add(d) PROVE LinkInv'
  <2>1. /\ at[d] = "add" /\ UNCHANGED <<run, hist, made, dialled>>
        /\ dialled[d] \in Links /\ link[dialled[d]] = "parked"
    BY <1>3 DEF Add, LinkInv, Dialled
  <2>2. /\ \A c \in Links : link'[c] = IF c = dialled[d] THEN "up" ELSE link[c]
        /\ \A b \in Dialers : at'[b] = IF b # d THEN at[b] ELSE IF d = "main" THEN "spawn" ELSE "test"
    BY <1>3 DEF Add, Proceed, LinkInv, LinkTypes, Dialers
  <2>3. LinkTypes'
    BY <1>3, <2>1 DEF Add, Proceed, LinkInv, LinkTypes, Dialers
  <2>4. Dialled'
    BY <2>1, <2>2 DEF LinkInv, Dialled, Dialers
  <2>5. DialsForNone'
    BY <2>1, <2>2 DEF LinkInv, DialsForNone, Alive, Dialers
  <2> QED  BY <2>3, <2>4, <2>5 DEF LinkInv
<1>4. CASE Start \/ Spawn \/ TestRun \/ Await \/ WakesSpuriously
  <2>1. UNCHANGED <<link, made, dialled, run>> /\ (hist' = hist \/ "spurious" \in hist')
    BY <1>4 DEF Start, Spawn, TestRun, Await, WakesSpuriously
  <2>2. LinkTypes'
    BY <1>4, <2>1 DEF Start, Spawn, TestRun, Await, WakesSpuriously, Proceed, LinkInv, LinkTypes
  <2>3. Dialled'
    BY <1>4, <2>1 DEF Start, Spawn, TestRun, Await, WakesSpuriously, Proceed, LinkInv,
       LinkTypes, Dialled, Dialers
  <2>4. DialsForNone'
    BY <1>4, <2>1 DEF Start, Spawn, TestRun, Await, WakesSpuriously, Proceed, LinkInv,
       LinkTypes, DialsForNone, Alive
  <2> QED  BY <2>2, <2>3, <2>4 DEF LinkInv
<1>5. ASSUME NEW c \in Links, OnFin(c) \/ CloseLink(c) \/ OnReset(c) PROVE LinkInv'
  <2>1. /\ UNCHANGED <<made, dialled, run>> /\ ("spurious" \in hist' <=> "spurious" \in hist)
        /\ link[c] \in {"up", "ending"}
        /\ \A e \in Links : link'[e] = link[e] \/ (e = c /\ link'[e] \in {"ending", "ended"})
        /\ link' \in [Links -> {"none", "parked", "up", "ending", "ended"}]
    BY <1>5 DEF OnFin, CloseLink, OnReset, Notify, LinkInv, LinkTypes
  <2>2. /\ AtMain' = AtMain /\ at' = [main |-> AtMain', again |-> AtAgain']
        /\ \/ AtAgain' = AtAgain
           \/ AtAgain = "wait" /\ AtAgain' = "connect" /\ link[c] = "up" /\ link'[c] = "ending"
    BY <1>5 DEF OnFin, CloseLink, OnReset, Notify, Proceed, LinkInv, LinkTypes
  <2>3. LinkTypes'
    BY <2>1, <2>2 DEF LinkInv, LinkTypes
  <2>4. Dialled'
    BY <2>1, <2>2 DEF LinkInv, LinkTypes, Dialled, Dialers
  <2>5. DialsForNone'
    BY <2>1, <2>2 DEF LinkInv, DialsForNone, Alive
  <2> QED  BY <2>3, <2>4, <2>5 DEF LinkInv
<1>6. CASE Stop \/ StopNotify \/ StopJoin
  <2>1. UNCHANGED <<link, made, dialled>>
    BY <1>6 DEF Stop, StopNotify, StopJoin
  <2>2. /\ AtMain \in {"idle", "notify", "join"} /\ at' = [main |-> AtMain', again |-> AtAgain']
        /\ AtMain' \in {"notify", "join", "stopped"} /\ run' = FALSE
        /\ AtAgain' = AtAgain \/ (AtAgain = "wait" /\ AtAgain' = "connect")
    BY <1>6 DEF Stop, StopNotify, StopJoin, Proceed, LinkInv, LinkTypes, Dialled
  <2>3. LinkTypes'
    BY <2>1, <2>2 DEF LinkInv, LinkTypes
  <2>4. Dialled'
    BY <2>1, <2>2 DEF LinkInv, LinkTypes, Dialled, Dialers
  <2>5. DialsForNone'
    BY <2>2 DEF DialsForNone
  <2> QED  BY <2>3, <2>4, <2>5 DEF LinkInv
<1> QED
  BY <1>1, <1>2, <1>3, <1>4, <1>5, <1>6 DEF LinkNext, Dialing, LinkThreads, EndLink, Network

\* start(), the reconnect thread, the epoll thread and stop() keep the links and the
\* dialers in step (vnp_client.cpp).
THEOREM LinkInvariance == LinkSpec => []LinkInv
<1>1. LinkInit => LinkInv
  <2> SUFFICES ASSUME LinkInit PROVE LinkInv
    OBVIOUS
  <2>1. LinkTypes
    BY LinkAssumption DEF LinkInit, LinkTypes, Dialers, AtMain, AtAgain
  <2>2. Dialled /\ DialsForNone
    BY LinkAssumption DEF LinkInit, Dialled, DialsForNone, Alive, Dialers, AtMain, AtAgain
  <2> QED  BY <2>1, <2>2 DEF LinkInv
<1> QED  BY <1>1, LinkStep, PTL DEF LinkSpec

\* start() and the reconnect thread never have two control connections between them,
\* unless the wait ended without a notification, or stop() was called.
THEOREM OneControlLinkSafety == LinkSpec => []OneControlLink
<1>1. LinkInv => OneControlLink
  <2> SUFFICES ASSUME LinkInv, "spurious" \notin hist, run
               PROVE  Cardinality({c \in Links : Alive(c)}) <= 1
    BY DEF OneControlLink, LinkInv, LinkTypes
  <2>1. \A c, e \in {x \in Links : Alive(x)} : c = e
    BY DEF LinkInv, DialsForNone
  <2>2. CASE {c \in Links : Alive(c)} = {}
    BY <2>2, FS_EmptySet
  <2>3. CASE {c \in Links : Alive(c)} # {}
    <3>1. PICK c \in Links : Alive(c)
      BY <2>3
    <3>2. {x \in Links : Alive(x)} = {c}
      BY <2>1, <3>1
    <3> QED  BY <3>2, FS_Singleton
  <2> QED  BY <2>2, <2>3
<1> QED  BY <1>1, LinkInvariance, PTL

\* There are two ends, each the other of the other.
LEMMA TwoEnds == /\ \A e \in Ends : Other(e) \in Ends /\ Other(e) # e /\ Other(Other(e)) = e
                 /\ \A e, x \in Ends : x = e \/ x = Other(e)
                 /\ "server" \in Ends /\ "local" \in Ends
                 /\ Other("server") = "local" /\ Other("local") = "server"
  BY DEF Ends, Other

\* What the type invariant says of one end.
LEMMA RelayTyped ==
    RelayInv => \A e \in Ends : /\ peer[e] \in {"none", "up", "fin", "rst"} /\ unread[e] \in Nat
                                /\ sock[e] \in {"none", "open", "closed"}
                                /\ block[e] \in {"none", "live", "freed"}
                                /\ watch[e] \in {"none", "in", "out"}
                                /\ thr[e] \in {"wait", "send", "cut", "tell", "close", "free"}
  BY RelayAssumption DEF RelayInv, RelayTypes

\* Only ends are in the history of lost bytes.
LEMMA LostEnds == RelayInv => \A e \in lost : e \in Ends
  BY DEF RelayInv, RelayTypes

\* A peer that is up sends.
LEMMA PeerSendsStep ==
    ASSUME RelayInv, NEW e \in Ends, PeerSends(e)
    PROVE  RelayInv'
<1>1. RelayTypes'
<2>1. sends[e] > 0 /\ \A x \in Ends : /\ sends'[x] = IF x = e THEN sends[e] - 1 ELSE sends[x]
                                  /\ unread'[x] = IF x = e THEN unread[e] + 1 ELSE unread[x]
  BY DEF RelayInv, RelayTypes, PeerSends, Set
<2>2. \A x \in Ends : /\ sends'[x] \in 0..MaxBytes /\ unread'[x] \in 0..MaxBytes
                      /\ sends'[x] + unread'[x] <= MaxBytes
  <3>1. \A x \in Ends : /\ sends[x] \in 0..MaxBytes /\ unread[x] \in 0..MaxBytes
                        /\ sends[x] + unread[x] <= MaxBytes
    BY DEF RelayInv, RelayTypes
  <3> QED  BY <2>1, <3>1, RelayAssumption
<2>3. sends' \in [Ends -> 0..MaxBytes] /\ unread' \in [Ends -> 0..MaxBytes]
  <3>1. sends' = [x \in Ends |-> sends'[x]] /\ unread' = [x \in Ends |-> unread'[x]]
    BY DEF RelayInv, RelayTypes, PeerSends, Set
  <3> QED  BY <2>2, <3>1
<2> QED  BY <2>2, <2>3 DEF RelayInv, RelayTypes, PeerSends, Set
<1>2. /\ peer[e] = "up" /\ sends[e] > 0
      /\ \A x \in Ends : sends'[x] = IF x = e THEN sends[e] - 1 ELSE sends[x]
      /\ \A x \in Ends : unread'[x] = IF x = e THEN unread[e] + 1 ELSE unread[x]
      /\ UNCHANGED <<main, peer, sock, block, ptr, watch, thr, alive, lost, past>>
  BY DEF RelayInv, RelayTypes, PeerSends, Set, Ends, Other
<1>3. /\ NotServedYet' /\ EndsAgree' /\ PointersLead'
      /\ Noted' /\ LoneIsLone' /\ QuietCloseIsClean' /\ KeepsWhatWasSent'
  BY <1>2 DEF RelayInv, NotServedYet, EndsAgree, PointersLead, Noted, LoneIsLone,
     QuietCloseIsClean, KeepsWhatWasSent, Connecting, Ended, Told
<1>4. TakenDown'
  BY <1>2, TwoEnds, RelayTyped DEF RelayInv, TakenDown, EndsAgree, NotServedYet, Connecting,
     Ended, Told
<1> QED  BY <1>1, <1>3, <1>4 DEF RelayInv

\* A peer ends in order, or resets, which is noted.
LEMMA PeerEndsStep ==
    ASSUME RelayInv, NEW e \in Ends, PeerEnds(e)
    PROVE  RelayInv'
<1>1. RelayTypes'
  BY DEF RelayInv, RelayTypes, PeerEnds, Set, Ends, Other
<1>2. /\ peer[e] = "up" /\ peer'[e] \in {"fin", "rst"}
      /\ \A x \in Ends : x # e => peer'[x] = peer[x]
      /\ past' = IF peer'[e] = "rst" THEN past \cup {"reset"} ELSE past
      /\ UNCHANGED <<main, sends, unread, sock, block, ptr, watch, thr, alive, lost>>
  BY DEF RelayInv, RelayTypes, PeerEnds, Set, Ends, Other
<1>3. NotServedYet'
  BY <1>2, TwoEnds, RelayTyped DEF RelayInv, NotServedYet, EndsAgree, Connecting
<1>4. EndsAgree'
  BY <1>2, TwoEnds, RelayTyped DEF RelayInv, EndsAgree, NotServedYet, Connecting
<1>5. PointersLead'
  BY <1>2, TwoEnds, RelayTyped DEF RelayInv, PointersLead, EndsAgree, NotServedYet, TakenDown,
     Connecting, Ended
<1>6. TakenDown'
  BY <1>2, TwoEnds, RelayTyped DEF RelayInv, TakenDown, EndsAgree, NotServedYet, Connecting,
     Ended, Told
<1>7. Noted'
  BY <1>2, TwoEnds, RelayTyped DEF RelayInv, Noted
<1>8. LoneIsLone'
  BY <1>2, TwoEnds, RelayTyped DEF RelayInv, LoneIsLone, EndsAgree, NotServedYet, Connecting
<1>9. QuietCloseIsClean'
  BY <1>2, TwoEnds, RelayTyped DEF RelayInv, QuietCloseIsClean, TakenDown, EndsAgree, Noted,
     NotServedYet, LoneIsLone, Connecting, Ended, Told
<1>10. KeepsWhatWasSent'
  BY <1>2, TwoEnds, RelayTyped, LostEnds DEF RelayInv, KeepsWhatWasSent, TakenDown,
     PointersLead, EndsAgree, NotServedYet, Connecting, Ended, Told
<1> QED  BY <1>1, <1>3, <1>4, <1>5, <1>6, <1>7, <1>8, <1>9, <1>10 DEF RelayInv

\* connect() to the server, ...
LEMMA ConnectServerStep ==
    ASSUME RelayInv, Connect("server", "server", "local")
    PROVE  RelayInv'
<1>1. RelayTypes'
  BY DEF RelayInv, RelayTypes, Connect, Set, Ends, Other
<1>2. /\ main = "server" /\ main' = "local"
      /\ \/ UNCHANGED <<peer, sock, block>>
         \/ \A x \in Ends : /\ peer'[x] = IF x = "server" THEN "up" ELSE peer[x]
                            /\ sock'[x] = IF x = "server" THEN "open" ELSE sock[x]
                            /\ block'[x] = IF x = "server" THEN "live" ELSE block[x]
      /\ UNCHANGED <<sends, unread, ptr, watch, thr, alive, lost, past>>
<2>1. CASE UNCHANGED <<peer, sock, block>>
  BY <2>1 DEF Connect
<2>2. CASE /\ peer' = Set(peer, "server", "up") /\ sock' = Set(sock, "server", "open")
           /\ block' = Set(block, "server", "live")
  BY <2>2 DEF Connect, RelayInv, RelayTypes, Set
<2> QED  BY <2>1, <2>2 DEF Connect
<1>3. NotServedYet'
  BY <1>2, TwoEnds, RelayTyped DEF RelayInv, NotServedYet, EndsAgree, Connecting
<1>4. EndsAgree'
  BY <1>2, TwoEnds, RelayTyped DEF RelayInv, EndsAgree, NotServedYet, Connecting
<1>5. PointersLead'
  BY <1>2, TwoEnds, RelayTyped DEF RelayInv, PointersLead, EndsAgree, NotServedYet, TakenDown,
     Connecting, Ended
<1>6. TakenDown'
  BY <1>2, TwoEnds, RelayTyped DEF RelayInv, TakenDown, EndsAgree, NotServedYet, Connecting,
     Ended, Told
<1>7. Noted'
  BY <1>2, TwoEnds, RelayTyped DEF RelayInv, Noted
<1>8. LoneIsLone'
  BY <1>2, TwoEnds, RelayTyped DEF RelayInv, LoneIsLone, EndsAgree, NotServedYet, Connecting
<1>9. QuietCloseIsClean'
  BY <1>2, TwoEnds, RelayTyped DEF RelayInv, QuietCloseIsClean, TakenDown, EndsAgree, Noted,
     NotServedYet, LoneIsLone, Connecting, Ended, Told
<1>10. KeepsWhatWasSent'
  BY <1>2, TwoEnds, RelayTyped, LostEnds DEF RelayInv, KeepsWhatWasSent, TakenDown,
     PointersLead, EndsAgree, NotServedYet, Connecting, Ended, Told
<1> QED  BY <1>1, <1>3, <1>4, <1>5, <1>6, <1>7, <1>8, <1>9, <1>10 DEF RelayInv

\* ... and to the local service.
LEMMA ConnectLocalStep ==
    ASSUME RelayInv, Connect("local", "local", "join")
    PROVE  RelayInv'
<1>1. RelayTypes'
  BY DEF RelayInv, RelayTypes, Connect, Set, Ends, Other
<1>2. /\ main = "local" /\ main' = "join"
      /\ \/ UNCHANGED <<peer, sock, block>>
         \/ \A x \in Ends : /\ peer'[x] = IF x = "local" THEN "up" ELSE peer[x]
                            /\ sock'[x] = IF x = "local" THEN "open" ELSE sock[x]
                            /\ block'[x] = IF x = "local" THEN "live" ELSE block[x]
      /\ UNCHANGED <<sends, unread, ptr, watch, thr, alive, lost, past>>
<2>1. CASE UNCHANGED <<peer, sock, block>>
  BY <2>1 DEF Connect
<2>2. CASE /\ peer' = Set(peer, "local", "up") /\ sock' = Set(sock, "local", "open")
           /\ block' = Set(block, "local", "live")
  BY <2>2 DEF Connect, RelayInv, RelayTypes, Set
<2> QED  BY <2>1, <2>2 DEF Connect
<1>3. NotServedYet'
  BY <1>2, TwoEnds, RelayTyped DEF RelayInv, NotServedYet, EndsAgree, Connecting
<1>4. EndsAgree'
  BY <1>2, TwoEnds, RelayTyped DEF RelayInv, EndsAgree, NotServedYet, Connecting
<1>5. PointersLead'
  BY <1>2, TwoEnds, RelayTyped DEF RelayInv, PointersLead, EndsAgree, NotServedYet, TakenDown,
     Connecting, Ended
<1>6. TakenDown'
  BY <1>2, TwoEnds, RelayTyped DEF RelayInv, TakenDown, EndsAgree, NotServedYet, Connecting,
     Ended, Told
<1>7. Noted'
  BY <1>2, TwoEnds, RelayTyped DEF RelayInv, Noted
<1>8. LoneIsLone'
  BY <1>2, TwoEnds, RelayTyped DEF RelayInv, LoneIsLone, EndsAgree, NotServedYet, Connecting
<1>9. QuietCloseIsClean'
  BY <1>2, TwoEnds, RelayTyped DEF RelayInv, QuietCloseIsClean, TakenDown, EndsAgree, Noted,
     NotServedYet, LoneIsLone, Connecting, Ended, Told
<1>10. KeepsWhatWasSent'
  BY <1>2, TwoEnds, RelayTyped, LostEnds DEF RelayInv, KeepsWhatWasSent, TakenDown,
     PointersLead, EndsAgree, NotServedYet, Connecting, Ended, Told
<1> QED  BY <1>1, <1>3, <1>4, <1>5, <1>6, <1>7, <1>8, <1>9, <1>10 DEF RelayInv

\* The request of the server.
LEMMA RequestStep ==
    ASSUME RelayInv, Request
    PROVE  RelayInv'
<1>1. RelayTypes'
  BY DEF RelayInv, RelayTypes, Request, Ends, Other
<1>2. /\ main = "idle" /\ main' = "server"
      /\ UNCHANGED <<peer, sends, unread, sock, block, ptr, watch, thr, alive, lost, past>>
  BY DEF RelayInv, RelayTypes, Request, Ends, Other
<1>3. EndsAgree' /\ TakenDown' /\ Noted' /\ QuietCloseIsClean' /\ KeepsWhatWasSent'
  BY <1>2 DEF RelayInv, EndsAgree, TakenDown, Noted, QuietCloseIsClean, KeepsWhatWasSent,
     Connecting, Ended, Told
<1>4. NotServedYet'
  BY <1>2, TwoEnds, RelayTyped DEF RelayInv, NotServedYet, EndsAgree, Connecting
<1>5. PointersLead'
  BY <1>2, TwoEnds, RelayTyped DEF RelayInv, PointersLead, EndsAgree, NotServedYet, TakenDown,
     Connecting, Ended
<1>6. LoneIsLone'
  BY <1>2, TwoEnds, RelayTyped DEF RelayInv, LoneIsLone, EndsAgree, NotServedYet, Connecting
<1> QED  BY <1>1, <1>3, <1>4, <1>5, <1>6 DEF RelayInv

\* The two blocks are pointed at each other.
LEMMA JoinStep ==
    ASSUME RelayInv, Join
    PROVE  RelayInv'
<1>1. RelayTypes'
  BY DEF RelayInv, RelayTypes, Join, Connected, Ends, Other
<1>2. /\ main = "join" /\ main' = "addServer"
      /\ \A x \in Ends : block[x] = "live"
      /\ \A x \in Ends : ptr'[x]
      /\ UNCHANGED <<peer, sends, unread, sock, block, watch, thr, alive, lost, past>>
  BY DEF RelayInv, RelayTypes, Join, Connected, Ends, Other
<1>3. EndsAgree' /\ TakenDown' /\ Noted' /\ QuietCloseIsClean' /\ KeepsWhatWasSent'
  BY <1>2 DEF RelayInv, EndsAgree, TakenDown, Noted, QuietCloseIsClean, KeepsWhatWasSent,
     Connecting, Ended, Told
<1>4. NotServedYet'
  BY <1>2, TwoEnds, RelayTyped DEF RelayInv, NotServedYet, EndsAgree, Connecting
<1>5. PointersLead'
  BY <1>2, TwoEnds, RelayTyped DEF RelayInv, PointersLead, EndsAgree, NotServedYet, TakenDown,
     Connecting, Ended
<1>6. LoneIsLone'
  BY <1>2, TwoEnds, RelayTyped DEF RelayInv, LoneIsLone, EndsAgree, NotServedYet, Connecting
<1> QED  BY <1>1, <1>3, <1>4, <1>5, <1>6 DEF RelayInv

\* Into the epoll set of the server's thread, ...
LEMMA AddServerStep ==
    ASSUME RelayInv, AddEnd("server", "addServer", "addLocal")
    PROVE  RelayInv'
<1>1. RelayTypes'
  BY DEF RelayInv, RelayTypes, AddEnd, Set, Ends, Other
<1>2. /\ main = "addServer" /\ main' = "addLocal"
      /\ \A x \in Ends : watch'[x] = IF x = "server" THEN "in" ELSE watch[x]
      /\ UNCHANGED <<peer, sends, unread, sock, block, ptr, thr, alive, lost, past>>
  BY DEF RelayInv, RelayTypes, AddEnd, Set, Ends, Other
<1>3. Noted' /\ QuietCloseIsClean' /\ KeepsWhatWasSent'
  BY <1>2 DEF RelayInv, Noted, QuietCloseIsClean, KeepsWhatWasSent, Connecting, Ended, Told
<1>4. NotServedYet'
  BY <1>2, TwoEnds, RelayTyped DEF RelayInv, NotServedYet, EndsAgree, Connecting
<1>5. EndsAgree'
  BY <1>2, TwoEnds, RelayTyped DEF RelayInv, EndsAgree, NotServedYet, Connecting
<1>6. PointersLead'
  BY <1>2, TwoEnds, RelayTyped DEF RelayInv, PointersLead, EndsAgree, NotServedYet, TakenDown,
     Connecting, Ended
<1>7. TakenDown'
  BY <1>2, TwoEnds, RelayTyped DEF RelayInv, TakenDown, EndsAgree, NotServedYet, Connecting,
     Ended, Told
<1>8. LoneIsLone'
  BY <1>2, TwoEnds, RelayTyped DEF RelayInv, LoneIsLone, EndsAgree, NotServedYet, Connecting
<1> QED  BY <1>1, <1>3, <1>4, <1>5, <1>6, <1>7, <1>8 DEF RelayInv

\* ... and of the local one's.
LEMMA AddLocalStep ==
    ASSUME RelayInv, AddEnd("local", "addLocal", "done")
    PROVE  RelayInv'
<1>1. RelayTypes'
  BY DEF RelayInv, RelayTypes, AddEnd, Set, Ends, Other
<1>2. /\ main = "addLocal" /\ main' = "done"
      /\ \A x \in Ends : watch'[x] = IF x = "local" THEN "in" ELSE watch[x]
      /\ UNCHANGED <<peer, sends, unread, sock, block, ptr, thr, alive, lost, past>>
  BY DEF RelayInv, RelayTypes, AddEnd, Set, Ends, Other
<1>3. Noted' /\ QuietCloseIsClean' /\ KeepsWhatWasSent'
  BY <1>2 DEF RelayInv, Noted, QuietCloseIsClean, KeepsWhatWasSent, Connecting, Ended, Told
<1>4. NotServedYet'
  BY <1>2, TwoEnds, RelayTyped DEF RelayInv, NotServedYet, EndsAgree, Connecting
<1>5. EndsAgree'
  BY <1>2, TwoEnds, RelayTyped DEF RelayInv, EndsAgree, NotServedYet, Connecting
<1>6. PointersLead'
  BY <1>2, TwoEnds, RelayTyped DEF RelayInv, PointersLead, EndsAgree, NotServedYet, TakenDown,
     Connecting, Ended
<1>7. TakenDown'
  BY <1>2, TwoEnds, RelayTyped DEF RelayInv, TakenDown, EndsAgree, NotServedYet, Connecting,
     Ended, Told
<1>8. LoneIsLone'
  BY <1>2, TwoEnds, RelayTyped DEF RelayInv, LoneIsLone, EndsAgree, NotServedYet, Connecting
<1> QED  BY <1>1, <1>3, <1>4, <1>5, <1>6, <1>7, <1>8 DEF RelayInv

\* Only one end was connected, or none.
LEMMA AddLoneStep ==
    ASSUME RelayInv, AddLone
    PROVE  RelayInv'
<1>1. RelayTypes'
  BY DEF RelayInv, RelayTypes, AddLone, Connected, Ends, Other
<1>2. /\ main = "join" /\ main' \in {"done", "closeLone"}
      /\ \E x \in Ends : block[x] # "live"
      /\ \A x \in Ends : watch'[x] = watch[x] \/ (block[x] = "live" /\ watch'[x] = "in") \/ watch'[x] = "none"
      /\ UNCHANGED <<peer, sends, unread, sock, block, ptr, thr, alive, lost, past>>
  BY DEF RelayInv, RelayTypes, AddLone, Connected, Ends, Other
<1>3. Noted' /\ QuietCloseIsClean' /\ KeepsWhatWasSent'
  BY <1>2 DEF RelayInv, Noted, QuietCloseIsClean, KeepsWhatWasSent, Connecting, Ended, Told
<1>4. NotServedYet'
  BY <1>2, TwoEnds, RelayTyped DEF RelayInv, NotServedYet, EndsAgree, Connecting
<1>5. EndsAgree'
  BY <1>2, TwoEnds, RelayTyped DEF RelayInv, EndsAgree, NotServedYet, Connecting
<1>6. PointersLead'
  BY <1>2, TwoEnds, RelayTyped DEF RelayInv, PointersLead, EndsAgree, NotServedYet, TakenDown,
     Connecting, Ended
<1>7. TakenDown'
  BY <1>2, TwoEnds, RelayTyped DEF RelayInv, TakenDown, EndsAgree, NotServedYet, Connecting,
     Ended, Told
<1>8. LoneIsLone'
  BY <1>2, TwoEnds, RelayTyped DEF RelayInv, LoneIsLone, EndsAgree, NotServedYet, Connecting
<1> QED  BY <1>1, <1>3, <1>4, <1>5, <1>6, <1>7, <1>8 DEF RelayInv

\* The lone end is closed, whose thread may have freed it.
LEMMA CloseLoneStep ==
    ASSUME RelayInv, NEW e \in Ends, CloseLone(e)
    PROVE  RelayInv'
<1>1. RelayTypes'
  BY DEF RelayInv, RelayTypes, CloseLone, Set, Touch, Ends, Other
<1>2. /\ main = "closeLone" /\ main' = "done" /\ block[e] # "none"
      /\ \A x \in Ends : watch'[x] = IF x = e /\ watch[x] = "in" THEN "out" ELSE watch[x]
      /\ past' = past \/ past' = past \cup {"freed"}
      /\ UNCHANGED <<peer, sends, unread, sock, block, ptr, thr, alive, lost>>
  BY DEF RelayInv, RelayTypes, CloseLone, Set, Touch, Ends, Other
<1>3. NotServedYet'
  BY <1>2, TwoEnds, RelayTyped DEF RelayInv, NotServedYet, EndsAgree, Connecting
<1>4. EndsAgree'
  BY <1>2, TwoEnds, RelayTyped DEF RelayInv, EndsAgree, NotServedYet, Connecting
<1>5. PointersLead'
  BY <1>2, TwoEnds, RelayTyped DEF RelayInv, PointersLead, EndsAgree, NotServedYet, TakenDown,
     Connecting, Ended
<1>6. TakenDown'
<2>1. peer[Other(e)] = "none"
  BY <1>2, TwoEnds DEF RelayInv, LoneIsLone, EndsAgree
<2> QED  BY <1>2, <2>1, TwoEnds DEF RelayInv, TakenDown, Ended, Told
<1>7. Noted'
  BY <1>2, TwoEnds, RelayTyped DEF RelayInv, Noted
<1>8. LoneIsLone'
  BY <1>2, TwoEnds, RelayTyped DEF RelayInv, LoneIsLone, EndsAgree, NotServedYet, Connecting
<1>9. QuietCloseIsClean'
  BY <1>2, TwoEnds, RelayTyped DEF RelayInv, QuietCloseIsClean, TakenDown, EndsAgree, Noted,
     NotServedYet, LoneIsLone, Connecting, Ended, Told
<1>10. KeepsWhatWasSent'
  BY <1>2, TwoEnds, RelayTyped, LostEnds DEF RelayInv, KeepsWhatWasSent, TakenDown,
     PointersLead, EndsAgree, NotServedYet, Connecting, Ended, Told
<1> QED  BY <1>1, <1>3, <1>4, <1>5, <1>6, <1>7, <1>8, <1>9, <1>10 DEF RelayInv

\* The end is ready to be closed.
LEMMA WritableStep ==
    ASSUME RelayInv, NEW e \in Ends, Writable(e)
    PROVE  RelayInv'
<1>1. RelayTypes'
  BY DEF RelayInv, RelayTypes, Writable, To, Set, Ends, Other
<1>2. /\ thr[e] = "wait" /\ watch[e] = "out"
      /\ \A x \in Ends : thr'[x] = IF x = e THEN "close" ELSE thr[x]
      /\ UNCHANGED <<main, peer, sends, unread, sock, block, ptr, watch, alive, lost, past>>
  BY DEF RelayInv, RelayTypes, Writable, To, Set, Ends, Other
<1>3. PointersLead' /\ LoneIsLone' /\ QuietCloseIsClean' /\ KeepsWhatWasSent'
  BY <1>2 DEF RelayInv, PointersLead, LoneIsLone, QuietCloseIsClean, KeepsWhatWasSent,
     Connecting, Ended, Told
<1>4. NotServedYet'
  BY <1>2, TwoEnds, RelayTyped DEF RelayInv, NotServedYet, EndsAgree, Connecting
<1>5. EndsAgree'
  BY <1>2, TwoEnds, RelayTyped DEF RelayInv, EndsAgree, NotServedYet, Connecting
<1>6. TakenDown'
  BY <1>2, TwoEnds, RelayTyped DEF RelayInv, TakenDown, EndsAgree, NotServedYet, Connecting,
     Ended, Told
<1>7. Noted'
  BY <1>2, TwoEnds, RelayTyped DEF RelayInv, Noted
<1> QED  BY <1>1, <1>3, <1>4, <1>5, <1>6, <1>7 DEF RelayInv

\* on_a_disconnected.
LEMMA ResetStep ==
    ASSUME RelayInv, NEW e \in Ends, Reset(e)
    PROVE  RelayInv'
<1>1. RelayTypes'
  BY DEF RelayInv, RelayTypes, Reset, To, Set, Ends, Other
<1>2. /\ thr[e] = "wait" /\ watch[e] = "in" /\ peer[e] = "rst"
      /\ \A x \in Ends : thr'[x] = IF x = e THEN "close" ELSE thr[x]
      /\ UNCHANGED <<main, peer, sends, unread, sock, block, ptr, watch, alive, lost, past>>
  BY DEF RelayInv, RelayTypes, Reset, To, Set, Ends, Other
<1>3. PointersLead' /\ LoneIsLone' /\ QuietCloseIsClean' /\ KeepsWhatWasSent'
  BY <1>2 DEF RelayInv, PointersLead, LoneIsLone, QuietCloseIsClean, KeepsWhatWasSent,
     Connecting, Ended, Told
<1>4. NotServedYet'
  BY <1>2, TwoEnds, RelayTyped DEF RelayInv, NotServedYet, EndsAgree, Connecting
<1>5. EndsAgree'
  BY <1>2, TwoEnds, RelayTyped DEF RelayInv, EndsAgree, NotServedYet, Connecting
<1>6. TakenDown'
  BY <1>2, TwoEnds, RelayTyped DEF RelayInv, TakenDown, EndsAgree, NotServedYet, Connecting,
     Ended, Told
<1>7. Noted'
  BY <1>2, TwoEnds, RelayTyped DEF RelayInv, Noted
<1> QED  BY <1>1, <1>3, <1>4, <1>5, <1>6, <1>7 DEF RelayInv

\* on_recv_data: bytes without a partner are thrown away.
LEMMA ReceiveStep ==
    ASSUME RelayInv, NEW e \in Ends, Receive(e)
    PROVE  RelayInv'
<1>1. RelayTypes'
<2>1. \A x \in Ends : sends'[x] = sends[x] /\ unread'[x] = IF x = e THEN 0 ELSE unread[x]
  BY DEF RelayInv, RelayTypes, Receive, To, Set
<2>2. \A x \in Ends : /\ sends'[x] \in 0..MaxBytes /\ unread'[x] \in 0..MaxBytes
                      /\ sends'[x] + unread'[x] <= MaxBytes
  <3>1. \A x \in Ends : /\ sends[x] \in 0..MaxBytes /\ unread[x] \in 0..MaxBytes
                        /\ sends[x] + unread[x] <= MaxBytes
    BY DEF RelayInv, RelayTypes
  <3> QED  BY <2>1, <3>1, RelayAssumption
<2>3. sends' \in [Ends -> 0..MaxBytes] /\ unread' \in [Ends -> 0..MaxBytes]
  <3>1. sends' = [x \in Ends |-> sends'[x]] /\ unread' = [x \in Ends |-> unread'[x]]
    BY DEF RelayInv, RelayTypes, Receive, To, Set
  <3> QED  BY <2>2, <3>1
<2> QED  BY <2>2, <2>3 DEF RelayInv, RelayTypes, Receive, To, Set
<1>2. /\ thr[e] = "wait" /\ watch[e] = "in" /\ peer[e] # "rst"
      /\ \A x \in Ends : unread'[x] = IF x = e THEN 0 ELSE unread[x]
      /\ \A x \in Ends : thr'[x] = IF x = e THEN IF ptr[e] THEN "send" ELSE "wait" ELSE thr[x]
      /\ lost' = IF ptr[e] THEN lost ELSE lost \cup {e}
      /\ past' = past \cup {"relayed"}
      /\ UNCHANGED <<main, peer, sends, sock, block, ptr, watch, alive>>
  BY DEF RelayInv, RelayTypes, Receive, To, Set, Ends, Other
<1>3. PointersLead' /\ LoneIsLone'
  BY <1>2 DEF RelayInv, PointersLead, LoneIsLone, Connecting, Ended
<1>4. NotServedYet'
  BY <1>2, TwoEnds, RelayTyped DEF RelayInv, NotServedYet, EndsAgree, Connecting
<1>5. EndsAgree'
  BY <1>2, TwoEnds, RelayTyped DEF RelayInv, EndsAgree, NotServedYet, Connecting
<1>6. TakenDown'
  BY <1>2, TwoEnds, RelayTyped DEF RelayInv, TakenDown, EndsAgree, NotServedYet, Connecting,
     Ended, Told
<1>7. Noted'
  BY <1>2, TwoEnds, RelayTyped DEF RelayInv, Noted
<1>8. QuietCloseIsClean'
  BY <1>2, TwoEnds, RelayTyped DEF RelayInv, QuietCloseIsClean, TakenDown, EndsAgree, Noted,
     NotServedYet, LoneIsLone, Connecting, Ended, Told
<1>9. KeepsWhatWasSent'
  BY <1>2, TwoEnds, RelayTyped, LostEnds DEF RelayInv, KeepsWhatWasSent, TakenDown,
     PointersLead, EndsAgree, NotServedYet, Connecting, Ended, Told
<1> QED  BY <1>1, <1>3, <1>4, <1>5, <1>6, <1>7, <1>8, <1>9 DEF RelayInv

\* The bytes go to the other peer, if that is still there.
LEMMA SendStep ==
    ASSUME RelayInv, NEW e \in Ends, Send(e)
    PROVE  RelayInv'
<1>1. RelayTypes'
<2>1. UNCHANGED <<main, sends, unread, sock, block, ptr, watch>>
  BY DEF Send
<2>2. peer' \in [Ends -> {"none", "up", "fin", "rst"}] /\ alive' \in BOOLEAN
  <3>1. peer \in [Ends -> {"none", "up", "fin", "rst"}] /\ alive \in BOOLEAN
    BY DEF RelayInv, RelayTypes
  <3>2. CASE UNCHANGED <<peer, alive>>
    BY <3>1, <3>2
  <3>3. CASE peer' = Set(peer, Other(e), "rst") /\ UNCHANGED alive
    BY <3>1, <3>3 DEF Set
  <3>4. CASE alive' = FALSE /\ UNCHANGED peer
    BY <3>1, <3>4
  <3> QED  BY <3>2, <3>3, <3>4 DEF Send
<2>3. thr' \in [Ends -> {"wait", "send", "cut", "tell", "close", "free"}]
  BY DEF RelayInv, RelayTypes, Send, To, Set
<2>4. lost' \subseteq Ends /\ past' \subseteq {"freed", "untold", "reset", "relayed"}
  BY DEF RelayInv, RelayTypes, Send
<2> QED  BY <2>1, <2>2, <2>3, <2>4 DEF RelayInv, RelayTypes
<1>2. /\ thr[e] = "send"
      /\ \A x \in Ends : thr'[x] = IF x = e THEN "wait" ELSE thr[x]
      /\ \A x \in Ends : \/ peer'[x] = peer[x]
                         \/ x = Other(e) /\ peer[x] = "fin" /\ peer'[x] = "rst" /\ "reset" \in past'
      /\ lost' = IF sock[Other(e)] = "open" /\ peer[Other(e)] = "up" THEN lost ELSE lost \cup {e}
      /\ past \subseteq past' /\ past' \subseteq past \cup {"freed", "reset"}
      /\ alive' \in BOOLEAN
      /\ UNCHANGED <<main, sends, unread, sock, block, ptr, watch>>
  BY DEF RelayInv, RelayTypes, Send, To, Set, Ends, Other
<1>3. NotServedYet'
  BY <1>2, TwoEnds, RelayTyped DEF RelayInv, NotServedYet, EndsAgree, Connecting
<1>4. EndsAgree'
  BY <1>2, TwoEnds, RelayTyped DEF RelayInv, EndsAgree, NotServedYet, Connecting
<1>5. PointersLead'
  BY <1>2, TwoEnds, RelayTyped DEF RelayInv, PointersLead, EndsAgree, NotServedYet, TakenDown,
     Connecting, Ended
<1>6. TakenDown'
  BY <1>2, TwoEnds, RelayTyped DEF RelayInv, TakenDown, EndsAgree, NotServedYet, Connecting,
     Ended, Told
<1>7. Noted'
  BY <1>2, TwoEnds, RelayTyped DEF RelayInv, Noted
<1>8. LoneIsLone'
  BY <1>2, TwoEnds, RelayTyped DEF RelayInv, LoneIsLone, EndsAgree, NotServedYet, Connecting
<1>9. QuietCloseIsClean'
<2>1. "relayed" \in past'
  BY <1>2 DEF RelayInv, Noted
<2> QED  BY <2>1 DEF QuietCloseIsClean
<1>10. KeepsWhatWasSent'
<2>1. sock[e] = "open" /\ peer[e] # "none"
  BY <1>2 DEF RelayInv, EndsAgree
<2>2. sock[Other(e)] = "open" \/ peer[Other(e)] # "up"
  BY <1>2, <2>1, TwoEnds, RelayTyped DEF RelayInv, TakenDown, EndsAgree, Ended, Told
<2> QED  BY <1>2, <2>2, TwoEnds, LostEnds DEF RelayInv, KeepsWhatWasSent
<1> QED  BY <1>1, <1>3, <1>4, <1>5, <1>6, <1>7, <1>8, <1>9, <1>10 DEF RelayInv

\* on_disconnected, when everything was received.
LEMMA FinStep ==
    ASSUME RelayInv, NEW e \in Ends, Fin(e)
    PROVE  RelayInv'
<1>1. RelayTypes'
  BY DEF RelayInv, RelayTypes, Fin, To, Set, Ends, Other
<1>2. /\ thr[e] = "wait" /\ watch[e] = "in" /\ peer[e] = "fin" /\ unread[e] = 0
      /\ \A x \in Ends : thr'[x] = IF x = e THEN IF ptr[e] THEN "cut" ELSE "close" ELSE thr[x]
      /\ UNCHANGED <<main, peer, sends, unread, sock, block, ptr, watch, alive, lost, past>>
  BY DEF RelayInv, RelayTypes, Fin, To, Set, Ends, Other
<1>3. PointersLead' /\ LoneIsLone' /\ QuietCloseIsClean' /\ KeepsWhatWasSent'
  BY <1>2 DEF RelayInv, PointersLead, LoneIsLone, QuietCloseIsClean, KeepsWhatWasSent,
     Connecting, Ended, Told
<1>4. NotServedYet'
  BY <1>2, TwoEnds, RelayTyped DEF RelayInv, NotServedYet, EndsAgree, Connecting
<1>5. EndsAgree'
  BY <1>2, TwoEnds, RelayTyped DEF RelayInv, EndsAgree, NotServedYet, Connecting
<1>6. TakenDown'
  BY <1>2, TwoEnds, RelayTyped DEF RelayInv, TakenDown, EndsAgree, NotServedYet, Connecting,
     Ended, Told
<1>7. Noted'
  BY <1>2, TwoEnds, RelayTyped DEF RelayInv, Noted
<1> QED  BY <1>1, <1>3, <1>4, <1>5, <1>6, <1>7 DEF RelayInv

\* The pointer that leads back is cleared.
LEMMA CutStep ==
    ASSUME RelayInv, NEW e \in Ends, Cut(e)
    PROVE  RelayInv'
<1>1. RelayTypes'
  BY DEF RelayInv, RelayTypes, Cut, To, Set, Touch, Ends, Other
<1>2. /\ thr[e] = "cut"
      /\ \A x \in Ends : thr'[x] = IF x = e THEN "tell" ELSE thr[x]
      /\ \A x \in Ends : ptr'[x] = IF x = Other(e) THEN FALSE ELSE ptr[x]
      /\ past' = IF block[Other(e)] = "freed" THEN past \cup {"freed"} ELSE past
      /\ UNCHANGED <<main, peer, sends, unread, sock, block, watch, alive, lost>>
  BY DEF RelayInv, RelayTypes, Cut, To, Set, Touch, Ends, Other
<1>3. LoneIsLone' /\ KeepsWhatWasSent'
  BY <1>2 DEF RelayInv, LoneIsLone, KeepsWhatWasSent, Connecting, Ended, Told
<1>4. NotServedYet'
  BY <1>2, TwoEnds, RelayTyped DEF RelayInv, NotServedYet, EndsAgree, Connecting
<1>5. EndsAgree'
  BY <1>2, TwoEnds, RelayTyped DEF RelayInv, EndsAgree, NotServedYet, Connecting
<1>6. PointersLead'
<2>1. Ended(e) /\ ~Connecting
  BY <1>2 DEF RelayInv, TakenDown, NotServedYet
<2>2. \A x \in Ends : sock[x] # "none" /\ ~ptr'[x] => peer[Other(x)] # "up"
  BY <1>2, <2>1, TwoEnds DEF RelayInv, PointersLead, Ended
<2> QED  BY <1>2, <2>2 DEF PointersLead, Connecting
<1>7. TakenDown'
  BY <1>2, TwoEnds, RelayTyped DEF RelayInv, TakenDown, EndsAgree, NotServedYet, Connecting,
     Ended, Told
<1>8. Noted'
  BY <1>2, TwoEnds, RelayTyped DEF RelayInv, Noted
<1>9. QuietCloseIsClean'
  BY <1>2, TwoEnds, RelayTyped DEF RelayInv, QuietCloseIsClean, TakenDown, EndsAgree, Noted,
     NotServedYet, LoneIsLone, Connecting, Ended, Told
<1> QED  BY <1>1, <1>3, <1>4, <1>5, <1>6, <1>7, <1>8, <1>9 DEF RelayInv

\* The other end is told, if it is in its epoll set.
LEMMA TellStep ==
    ASSUME RelayInv, NEW e \in Ends, Tell(e)
    PROVE  RelayInv'
<1>1. RelayTypes'
  BY DEF RelayInv, RelayTypes, Tell, To, Set, Ends, Other
<1>2. /\ thr[e] = "tell"
      /\ \A x \in Ends : thr'[x] = IF x = e THEN "close" ELSE thr[x]
      /\ \A x \in Ends : watch'[x] = IF x = Other(e) /\ watch[x] # "none" THEN "out" ELSE watch[x]
      /\ past' \subseteq past \cup {"freed", "untold"} /\ past \subseteq past'
      /\ "freed" \in past' => "freed" \in past \/ block[Other(e)] = "freed"
      /\ UNCHANGED <<main, peer, sends, unread, sock, block, ptr, alive, lost>>
  BY DEF RelayInv, RelayTypes, Tell, To, Set, Ends, Other
<1>3. PointersLead' /\ LoneIsLone' /\ KeepsWhatWasSent'
  BY <1>2 DEF RelayInv, PointersLead, LoneIsLone, KeepsWhatWasSent, Connecting, Ended, Told
<1>4. NotServedYet'
  BY <1>2, TwoEnds, RelayTyped DEF RelayInv, NotServedYet, EndsAgree, Connecting
<1>5. EndsAgree'
  BY <1>2, TwoEnds, RelayTyped DEF RelayInv, EndsAgree, NotServedYet, Connecting
<1>6. TakenDown'
  BY <1>2, TwoEnds, RelayTyped DEF RelayInv, TakenDown, EndsAgree, NotServedYet, Connecting,
     Ended, Told
<1>7. Noted'
  BY <1>2, TwoEnds, RelayTyped DEF RelayInv, Noted
<1>8. QuietCloseIsClean'
  BY <1>2, TwoEnds, RelayTyped DEF RelayInv, QuietCloseIsClean, TakenDown, EndsAgree, Noted,
     NotServedYet, LoneIsLone, Connecting, Ended, Told
<1> QED  BY <1>1, <1>3, <1>4, <1>5, <1>6, <1>7, <1>8 DEF RelayInv

\* The socket is closed; what nobody received is lost.
LEMMA CloseStep ==
    ASSUME RelayInv, NEW e \in Ends, Close(e)
    PROVE  RelayInv'
<1>1. RelayTypes'
  BY DEF RelayInv, RelayTypes, Close, To, Set, Ends, Other
<1>2. /\ thr[e] = "close"
      /\ \A x \in Ends : thr'[x] = IF x = e THEN "free" ELSE thr[x]
      /\ \A x \in Ends : sock'[x] = IF x = e THEN "closed" ELSE sock[x]
      /\ \A x \in Ends : watch'[x] = IF x = e THEN "none" ELSE watch[x]
      /\ lost' = IF unread[e] > 0 THEN lost \cup {e} ELSE lost
      /\ UNCHANGED <<main, peer, sends, unread, block, ptr, alive, past>>
  BY DEF RelayInv, RelayTypes, Close, To, Set, Ends, Other
<1>3. LoneIsLone' /\ QuietCloseIsClean'
  BY <1>2 DEF RelayInv, LoneIsLone, QuietCloseIsClean, Connecting, Ended, Told
<1>4. NotServedYet'
  BY <1>2, TwoEnds, RelayTyped DEF RelayInv, NotServedYet, EndsAgree, Connecting
<1>5. EndsAgree'
  BY <1>2, TwoEnds, RelayTyped DEF RelayInv, EndsAgree, NotServedYet, Connecting
<1>6. PointersLead'
  BY <1>2, TwoEnds, RelayTyped DEF RelayInv, PointersLead, EndsAgree, NotServedYet, TakenDown,
     Connecting, Ended
<1>7. TakenDown'
  BY <1>2, TwoEnds, RelayTyped DEF RelayInv, TakenDown, EndsAgree, NotServedYet, Connecting,
     Ended, Told
<1>8. Noted'
  BY <1>2, TwoEnds, RelayTyped DEF RelayInv, Noted
<1>9. KeepsWhatWasSent'
  BY <1>2, TwoEnds, RelayTyped, LostEnds DEF RelayInv, KeepsWhatWasSent, TakenDown,
     PointersLead, EndsAgree, NotServedYet, Connecting, Ended, Told
<1> QED  BY <1>1, <1>3, <1>4, <1>5, <1>6, <1>7, <1>8, <1>9 DEF RelayInv

\* The block is freed.
LEMMA FreeBlockStep ==
    ASSUME RelayInv, NEW e \in Ends, FreeBlock(e)
    PROVE  RelayInv'
<1>1. RelayTypes'
  BY DEF RelayInv, RelayTypes, FreeBlock, To, Set, Ends, Other
<1>2. /\ thr[e] = "free"
      /\ \A x \in Ends : thr'[x] = IF x = e THEN "wait" ELSE thr[x]
      /\ \A x \in Ends : block'[x] = IF x = e THEN "freed" ELSE block[x]
      /\ UNCHANGED <<main, peer, sends, unread, sock, ptr, watch, alive, lost, past>>
  BY DEF RelayInv, RelayTypes, FreeBlock, To, Set, Ends, Other
<1>3. PointersLead' /\ KeepsWhatWasSent'
  BY <1>2 DEF RelayInv, PointersLead, KeepsWhatWasSent, Connecting, Ended, Told
<1>4. NotServedYet'
  BY <1>2, TwoEnds, RelayTyped DEF RelayInv, NotServedYet, EndsAgree, Connecting
<1>5. EndsAgree'
  BY <1>2, TwoEnds, RelayTyped DEF RelayInv, EndsAgree, NotServedYet, Connecting
<1>6. TakenDown'
  BY <1>2, TwoEnds, RelayTyped DEF RelayInv, TakenDown, EndsAgree, NotServedYet, Connecting,
     Ended, Told
<1>7. Noted'
  BY <1>2, TwoEnds, RelayTyped DEF RelayInv, Noted
<1>8. LoneIsLone'
  BY <1>2, TwoEnds, RelayTyped DEF RelayInv, LoneIsLone, EndsAgree, NotServedYet, Connecting
<1>9. QuietCloseIsClean'
  BY <1>2, TwoEnds, RelayTyped DEF RelayInv, QuietCloseIsClean, TakenDown, EndsAgree, Noted,
     NotServedYet, LoneIsLone, Connecting, Ended, Told
<1> QED  BY <1>1, <1>3, <1>4, <1>5, <1>6, <1>7, <1>8, <1>9 DEF RelayInv

\* Each action keeps the invariant.
LEMMA RelayStep == RelayInv /\ [RelayNext]_relayVars => RelayInv'
<1> SUFFICES ASSUME RelayInv, [RelayNext]_relayVars PROVE RelayInv'
  OBVIOUS
<1>1. CASE UNCHANGED relayVars
  <2>1. RelayTypes' /\ NotServedYet' /\ EndsAgree' /\ PointersLead'
    BY <1>1 DEF relayVars, RelayInv, RelayTypes, NotServedYet, Connecting, EndsAgree,
       PointersLead
  <2>2. TakenDown' /\ Noted' /\ LoneIsLone' /\ QuietCloseIsClean' /\ KeepsWhatWasSent'
    BY <1>1 DEF relayVars, RelayInv, TakenDown, Ended, Told, Noted, LoneIsLone,
       QuietCloseIsClean, KeepsWhatWasSent
  <2> QED  BY <2>1, <2>2 DEF RelayInv
<1>2. CASE Request \/ Creation
  BY <1>2, RequestStep, ConnectServerStep, ConnectLocalStep, JoinStep, AddServerStep,
     AddLocalStep,
     AddLoneStep, CloseLoneStep DEF Creation
<1>3. ASSUME NEW e \in Ends, Serve(e) \/ PeerSends(e) \/ PeerEnds(e) PROVE RelayInv'
  BY <1>3, WritableStep, ResetStep, ReceiveStep, SendStep, FinStep, CutStep, TellStep,
     CloseStep,
     FreeBlockStep, PeerSendsStep, PeerEndsStep DEF Serve
<1> QED  BY <1>1, <1>2, <1>3 DEF RelayNext

\* wait_create_tcp_channel and the two epoll threads keep sockets, blocks and pointers
\* in step, and take an end down only when it ended or was told to (vnp_client.cpp).
THEOREM RelayInvariance == RelaySpec => []RelayInv
<1>1. RelayInit => RelayInv
  <2> SUFFICES ASSUME RelayInit PROVE RelayInv
    OBVIOUS
  <2>1. RelayTypes
    BY RelayAssumption DEF RelayInit, RelayTypes
  <2>2. NotServedYet /\ EndsAgree /\ PointersLead /\ TakenDown
    BY DEF RelayInit, NotServedYet, EndsAgree, PointersLead, TakenDown, Connecting, Ends
  <2>3. Noted /\ LoneIsLone /\ QuietCloseIsClean /\ KeepsWhatWasSent
    BY DEF RelayInit, Noted, LoneIsLone, QuietCloseIsClean, KeepsWhatWasSent
  <2> QED  BY <2>1, <2>2, <2>3 DEF RelayInv
<1> QED  BY <1>1, RelayStep, PTL DEF RelaySpec

\* The two epoll threads of a relay touch no freed memory when one peer closes and
\* nothing else happens, and pass on what a peer sent before it closed.
THEOREM RelayIsCleanSafety == RelaySpec => []RelayIsClean
<1>1. RelayInv => RelayIsClean
  BY DEF RelayInv, RelayIsClean
<1> QED  BY <1>1, RelayInvariance, PTL
-----------------------------------------------------------------------------
(***************************************************************************)
(* FrameLoop: any number of clients, however their streams are cut.        *)
(*                                                                         *)
(* A receiver is described by the place in its stream where the buffer     *)
(* begins; that is where a frame begins, plus what was dealt with.  This   *)
(* needs where each frame ends (EndAt), as a function of the frames sent.    *)
(***************************************************************************)
\* The frames that are written.
Frames == [type : {"register", "create"}, id : Nat, flag : BOOLEAN]

\* What a selection among the first n frames is, step by step.
Selects(a, q) ==
    /\ a[0] = <<>>
    /\ \A n \in 1 .. Len(q) : a[n] = IF q[n].type = "create" THEN Append(a[n - 1], q[n]) ELSE a[n - 1]

\* The recursive function in Creates exists.
LEMMA SelectionExists ==
    ASSUME NEW q \in Seq(Frames)
    PROVE  \E a : a = [n \in 0 .. Len(q) |-> IF n = 0 THEN <<>>
                                             ELSE IF q[n].type = "create" THEN Append(a[n - 1], q[n])
                                             ELSE a[n - 1]]
<1> DEFINE Upto(m) == \E a : a = [n \in 0 .. m |-> IF n = 0 THEN <<>>
                                                   ELSE IF q[n].type = "create" THEN Append(a[n - 1], q[n])
                                                   ELSE a[n - 1]]
           S == {m \in 0 .. Len(q) : Upto(m)}
<1>1. Upto(0)
  <2>1. PICK a : a = [n \in 0 .. 0 |-> <<>>]  OBVIOUS
  <2>2. a = [n \in 0 .. 0 |-> IF n = 0 THEN <<>>
                              ELSE IF q[n].type = "create" THEN Append(a[n - 1], q[n])
                              ELSE a[n - 1]]
    BY <2>1
  <2> QED  BY <2>2
<1>2. ASSUME NEW m \in S, m < Len(q) PROVE m + 1 \in S
  <2>1. PICK a : a = [n \in 0 .. m |-> IF n = 0 THEN <<>>
                                       ELSE IF q[n].type = "create" THEN Append(a[n - 1], q[n])
                                       ELSE a[n - 1]]
    BY <1>2
  <2>2. PICK x : x = IF q[m + 1].type = "create" THEN Append(a[m], q[m + 1]) ELSE a[m]  OBVIOUS
  <2>3. PICK b : b = [n \in 0 .. m + 1 |-> IF n <= m THEN a[n] ELSE x]  OBVIOUS
  <2>4. \A n \in 0 .. m + 1 : b[n] = IF n = 0 THEN <<>>
                                     ELSE IF q[n].type = "create" THEN Append(b[n - 1], q[n])
                                     ELSE b[n - 1]
    <3> TAKE n \in 0 .. m + 1
    <3>1. CASE n = 0  BY <2>1, <2>3, <3>1
    <3>2. CASE n # 0 /\ n <= m
      <4>1. n \in 0 .. m /\ n - 1 \in 0 .. m + 1 /\ n - 1 <= m  BY <3>2
      <4>2. b[n] = a[n] /\ b[n - 1] = a[n - 1]  BY <2>3, <3>2, <4>1
      <4> QED  BY <2>1, <3>2, <4>1, <4>2
    <3>3. CASE n = m + 1
      <4>1. n # 0 /\ n - 1 = m /\ ~(n <= m) /\ m \in 0 .. m + 1 /\ m <= m  BY <3>3
      <4>2. b[n] = x /\ b[n - 1] = a[m]  BY <2>3, <3>3, <4>1
      <4> QED  BY <2>2, <3>3, <4>1, <4>2
    <3> QED  BY <3>1, <3>2, <3>3
  <2>5. b = [n \in 0 .. m + 1 |-> IF n = 0 THEN <<>>
                                  ELSE IF q[n].type = "create" THEN Append(b[n - 1], q[n])
                                  ELSE b[n - 1]]
    BY <2>3, <2>4
  <2>6. m + 1 \in 0 .. Len(q)  BY <1>2
  <2> QED  BY <2>5, <2>6
<1>3. S = 0 .. Len(q)
  <2>1. S \subseteq 0 .. Len(q) /\ 0 \in S /\ Len(q) \in Nat  BY <1>1
  <2> HIDE DEF S
  <2> QED  BY <1>2, <2>1, UpTo
<1>4. Len(q) \in S
  <2>1. Len(q) \in 0 .. Len(q)  OBVIOUS
  <2> HIDE DEF S
  <2> QED  BY <1>3, <2>1
<1> QED  BY <1>4

\* Creates is the end of such a selection.
LEMMA CreatesSelects ==
    ASSUME NEW q \in Seq(Frames)
    PROVE  \E a \in [0 .. Len(q) -> Seq(Frames)] : Selects(a, q) /\ Creates(q) = a[Len(q)]
<1> DEFINE Step(a) == a = [n \in 0 .. Len(q) |-> IF n = 0 THEN <<>>
                                                 ELSE IF q[n].type = "create" THEN Append(a[n - 1], q[n])
                                                 ELSE a[n - 1]]
           among == CHOOSE a : Step(a)
<1>1. Creates(q) = among[Len(q)]
  BY DEF Creates
<1>2. Step(among)
  <2>1. \E a : Step(a)  BY SelectionExists
  <2> QED  BY <2>1
<1> HIDE DEF among
<1>3. DOMAIN among = 0 .. Len(q) /\ Len(q) \in Nat
  BY <1>2
<1>4. Selects(among, q)
  <2>1. among[0] = <<>>  BY <1>2
  <2>2. ASSUME NEW n \in 1 .. Len(q)
        PROVE  among[n] = IF q[n].type = "create" THEN Append(among[n - 1], q[n]) ELSE among[n - 1]
    <3>1. n \in 0 .. Len(q) /\ n # 0  OBVIOUS
    <3> QED  BY <1>2, <3>1
  <2> QED  BY <2>1, <2>2 DEF Selects
<1>5. \A n \in 0 .. Len(q) : among[n] \in Seq(Frames)
  <2> DEFINE S == {n \in 0 .. Len(q) : among[n] \in Seq(Frames)}
  <2>1. 0 \in S /\ S \subseteq 0 .. Len(q)
    <3>1. <<>> \in Seq(Frames)  OBVIOUS
    <3>2. among[0] = <<>>  BY <1>4 DEF Selects
    <3>3. 0 \in 0 .. Len(q)  BY <1>3
    <3> QED  BY <3>1, <3>2, <3>3
  <2>2. ASSUME NEW n \in S, n < Len(q) PROVE n + 1 \in S
    <3>1. n + 1 \in 1 .. Len(q) /\ n + 1 \in 0 .. Len(q) /\ (n + 1) - 1 = n  BY <1>3, <2>2
    <3>2. q[n + 1] \in Frames /\ among[n] \in Seq(Frames)  BY <2>2, <3>1
    <3>3. Append(among[n], q[n + 1]) \in Seq(Frames)  BY <3>2
    <3>4. among[n + 1] = IF q[n + 1].type = "create" THEN Append(among[n], q[n + 1]) ELSE among[n]
      BY <1>4, <3>1 DEF Selects
    <3> QED  BY <3>1, <3>2, <3>3, <3>4
  <2>3. S = 0 .. Len(q)
    <3> HIDE DEF S
    <3> QED  BY <1>3, <2>1, <2>2, UpTo
  <2> QED  BY <2>3
<1>6. among \in [0 .. Len(q) -> Seq(Frames)]
  BY <1>2, <1>5
<1> QED  BY <1>1, <1>4, <1>6

\* Creates of a sequence that grew by a frame.
LEMMA CreatesAppend ==
    ASSUME NEW q \in Seq(Frames), NEW f \in Frames
    PROVE  /\ Creates(q) \in Seq(Frames)
           /\ Creates(Append(q, f)) = IF f.type = "create" THEN Append(Creates(q), f) ELSE Creates(q)
<1>1. PICK a \in [0 .. Len(q) -> Seq(Frames)] : Selects(a, q) /\ Creates(q) = a[Len(q)]
  BY CreatesSelects
<1>2. PICK r : r = Append(q, f) /\ r \in Seq(Frames)
  <2>1. Append(q, f) \in Seq(Frames)  OBVIOUS
  <2> QED  BY <2>1
<1>3. Len(q) \in Nat /\ Len(r) = Len(q) + 1 /\ r[Len(q) + 1] = f /\ \A n \in 1 .. Len(q) : r[n] = q[n]
  BY <1>2
<1>4. PICK b \in [0 .. Len(r) -> Seq(Frames)] : Selects(b, r) /\ Creates(r) = b[Len(r)]
  BY CreatesSelects
<1>5. \A n \in 0 .. Len(q) : a[n] = b[n]
  <2> DEFINE S == {n \in 0 .. Len(q) : a[n] = b[n]}
  <2>1. 0 \in S /\ S \subseteq 0 .. Len(q)  BY <1>1, <1>3, <1>4 DEF Selects
  <2>2. ASSUME NEW n \in S, n < Len(q) PROVE n + 1 \in S
    <3>1. /\ n + 1 \in 1 .. Len(q) /\ n + 1 \in 0 .. Len(q) /\ (n + 1) - 1 = n
          /\ n + 1 \in 1 .. Len(r)
      BY <1>3, <2>2
    <3>2. a[n] = b[n] /\ q[n + 1] = r[n + 1]  BY <1>3, <2>2, <3>1
    <3>3. a[n + 1] = IF q[n + 1].type = "create" THEN Append(a[n], q[n + 1]) ELSE a[n]
      BY <1>1, <3>1 DEF Selects
    <3>4. b[n + 1] = IF r[n + 1].type = "create" THEN Append(b[n], r[n + 1]) ELSE b[n]
      BY <1>4, <3>1 DEF Selects
    <3>5. a[n + 1] = b[n + 1]  BY <3>2, <3>3, <3>4
    <3> QED  BY <3>1, <3>5
  <2>3. S = 0 .. Len(q)
    <3> HIDE DEF S
    <3> QED  BY <1>3, <2>1, <2>2, UpTo
  <2> QED  BY <2>3
<1>6. Len(r) \in 1 .. Len(r) /\ Len(r) - 1 = Len(q) /\ Len(q) \in 0 .. Len(q)
  BY <1>3
<1>7. b[Len(r)] = IF f.type = "create" THEN Append(b[Len(q)], f) ELSE b[Len(q)]
  BY <1>3, <1>4, <1>6 DEF Selects
<1> QED  BY <1>1, <1>2, <1>4, <1>5, <1>6, <1>7

\* The bytes of the frames of s, and the stream of them.
Places       == Nat \X Nat
BytesOf(s)   == [k \in 1 .. Len(s) |-> [j \in 1 .. Size(s[k]) |-> <<k, j>>]]
StreamOf(s)  == FlattenSeq(BytesOf(s))

\* Every frame is longer than its head.
LEMMA SizeIsNumber ==
    \A f : Size(f) \in Nat /\ Size(f) > HeadLen
BY DEF Size, HeadLen

\* The bytes of one frame.
LEMMA BytesTyped ==
    ASSUME NEW k \in Nat, NEW n \in Nat
    PROVE  /\ [j \in 1 .. n |-> <<k, j>>] \in Seq(Places)
           /\ Len([j \in 1 .. n |-> <<k, j>>]) = n
<1>1. \A j \in 1 .. n : <<k, j>> \in Places
  BY DEF Places
<1> QED  BY <1>1

\* A frame that is written adds its bytes.
LEMMA BytesAppend ==
    ASSUME NEW s \in Seq(Frames), NEW f \in Frames
    PROVE  /\ BytesOf(s) \in Seq(Seq(Places))
           /\ BytesOf(Append(s, f)) = Append(BytesOf(s), [j \in 1 .. Size(f) |-> <<Len(s) + 1, j>>])
<1>1. Len(s) \in Nat
  OBVIOUS
<1>2. BytesOf(s) \in Seq(Seq(Places)) /\ Len(BytesOf(s)) = Len(s)
  <2>1. \A k \in 1 .. Len(s) : [j \in 1 .. Size(s[k]) |-> <<k, j>>] \in Seq(Places)
    <3> TAKE k \in 1 .. Len(s)
    <3>1. PICK n \in Nat : n = Size(s[k])  BY SizeIsNumber
    <3>2. k \in Nat  BY <1>1
    <3>3. [j \in 1 .. n |-> <<k, j>>] \in Seq(Places)  BY <3>2, BytesTyped
    <3> QED  BY <3>1, <3>3
  <2> QED  BY <1>1, <2>1 DEF BytesOf
<1>3. PICK r : r = Append(s, f)
  OBVIOUS
<1>4. Len(r) = Len(s) + 1 /\ r[Len(s) + 1] = f /\ \A k \in 1 .. Len(s) : r[k] = s[k]
  BY <1>1, <1>3
<1>5. PICK x : x = [j \in 1 .. Size(f) |-> <<Len(s) + 1, j>>]
  OBVIOUS
<1>6. PICK b : b = Append(BytesOf(s), x)
  OBVIOUS
<1>7. /\ b = [k \in 1 .. Len(s) + 1 |-> b[k]]
      /\ b[Len(s) + 1] = x /\ \A k \in 1 .. Len(s) : b[k] = BytesOf(s)[k]
  <2>1. PICK q \in Seq(Seq(Places)) : q = BytesOf(s) /\ Len(q) = Len(s)  BY <1>2
  <2>2. x \in Seq(Places)
    <3>1. PICK n \in Nat, k \in Nat : n = Size(f) /\ k = Len(s) + 1  BY <1>1, SizeIsNumber
    <3>2. [j \in 1 .. n |-> <<k, j>>] \in Seq(Places)  BY BytesTyped
    <3> QED  BY <1>5, <3>1, <3>2
  <2>3. b = Append(q, x)  BY <1>6, <2>1
  <2>4. b \in Seq(Seq(Places)) /\ Len(b) = Len(s) + 1  BY <2>1, <2>2, <2>3
  <2>5. b[Len(s) + 1] = x  BY <2>1, <2>2, <2>3
  <2>6. \A k \in 1 .. Len(s) : b[k] = q[k]  BY <2>1, <2>2, <2>3
  <2> QED  BY <2>1, <2>4, <2>5, <2>6
<1>8. \A k \in 1 .. Len(s) + 1 : b[k] = [j \in 1 .. Size(r[k]) |-> <<k, j>>]
  <2> TAKE k \in 1 .. Len(s) + 1
  <2>1. CASE k = Len(s) + 1  BY <1>4, <1>5, <1>7, <2>1
  <2>2. CASE k # Len(s) + 1
    <3>1. k \in 1 .. Len(s)  BY <1>1, <2>2
    <3>2. b[k] = BytesOf(s)[k] /\ r[k] = s[k]  BY <1>4, <1>7, <3>1
    <3>3. BytesOf(s)[k] = [j \in 1 .. Size(s[k]) |-> <<k, j>>]  BY <3>1 DEF BytesOf
    <3> QED  BY <3>2, <3>3
  <2> QED  BY <2>1, <2>2
<1>9. BytesOf(r) = b
  BY <1>4, <1>7, <1>8 DEF BytesOf
<1> QED  BY <1>2, <1>3, <1>5, <1>6, <1>9

\* A sequence behind another.
LEMMA Joined ==
    ASSUME NEW b \in Seq(Places), NEW x \in Seq(Places)
    PROVE  /\ b \o x \in Seq(Places) /\ Len(b \o x) = Len(b) + Len(x)
           /\ \A i \in 1 .. Len(b) : (b \o x)[i] = b[i]
           /\ \A i \in 1 .. Len(x) : (b \o x)[Len(b) + i] = x[i]
<1>1. b \o x \in Seq(Places)
  OBVIOUS
<1>2. Len(b \o x) = Len(b) + Len(x)
  OBVIOUS
<1>3. \A i \in 1 .. Len(b) : (b \o x)[i] = b[i]
  OBVIOUS
<1>4. \A i \in 1 .. Len(x) : (b \o x)[Len(b) + i] = x[i]
  OBVIOUS
<1> QED  BY <1>1, <1>2, <1>3, <1>4

\* The stream of frames grows by the bytes of what is written.
LEMMA StreamAppend ==
    ASSUME NEW s \in Seq(Frames), NEW f \in Frames
    PROVE  /\ StreamOf(s) \in Seq(Places) /\ (s = <<>> => StreamOf(s) = <<>>)
           /\ StreamOf(Append(s, f)) \in Seq(Places)
           /\ Len(StreamOf(Append(s, f))) = Len(StreamOf(s)) + Size(f)
           /\ \A i \in 1 .. Len(StreamOf(s)) : StreamOf(Append(s, f))[i] = StreamOf(s)[i]
           /\ \A j \in 1 .. Size(f) : StreamOf(Append(s, f))[Len(StreamOf(s)) + j] = <<Len(s) + 1, j>>
<1>1. PICK x : x = [j \in 1 .. Size(f) |-> <<Len(s) + 1, j>>]
  OBVIOUS
<1>2. PICK q \in Seq(Seq(Places)) : q = BytesOf(s)
  BY BytesAppend
<1>3. /\ x \in Seq(Places) /\ Len(x) = Size(f) /\ Size(f) \in Nat
      /\ \A j \in 1 .. Size(f) : x[j] = <<Len(s) + 1, j>>
  <2>1. Len(s) + 1 \in Nat /\ Size(f) \in Nat  BY SizeIsNumber
  <2> QED  BY <1>1, <2>1, BytesTyped
<1>4. BytesOf(Append(s, f)) = Append(q, x)
  BY <1>1, <1>2, BytesAppend
<1>5. /\ FlattenSeq(q) \in Seq(Places) /\ (q = <<>> => FlattenSeq(q) = <<>>)
      /\ FlattenSeq(Append(q, x)) = FlattenSeq(q) \o x
  BY <1>3, FlattenAppend
<1>6. PICK y \in Seq(Places) : y = FlattenSeq(q)
  BY <1>5
<1>7. /\ y \o x \in Seq(Places) /\ Len(y \o x) = Len(y) + Len(x)
      /\ \A i \in 1 .. Len(y) : (y \o x)[i] = y[i]
      /\ \A j \in 1 .. Len(x) : (y \o x)[Len(y) + j] = x[j]
  <2>1. x \in Seq(Places)  BY <1>3
  <2> QED  BY <2>1, Joined
<1>8. s = <<>> => q = <<>>
  BY <1>2 DEF BytesOf
<1> QED  BY <1>2, <1>3, <1>4, <1>5, <1>6, <1>7, <1>8 DEF StreamOf

\* e says where the frames of s end in their stream.
EndAt(e, s) ==
    /\ e \in [0 .. Len(s) -> Nat] /\ e[0] = 0
    /\ \A k \in 1 .. Len(s) : e[k] = e[k - 1] + Size(s[k])
    /\ \A j, k \in 0 .. Len(s) : j < k => e[j] < e[k]
    /\ Len(StreamOf(s)) = e[Len(s)]
    /\ \A k \in 1 .. Len(s) : \A j \in 1 .. Size(s[k]) : StreamOf(s)[e[k - 1] + j] = <<k, j>>

\* An empty stream is cut.
LEMMA EndAtEmpty ==
    \E e : EndAt(e, <<>>)
<1>1. PICK s : s = <<>> /\ s \in Seq(Frames)
  <2>1. <<>> \in Seq(Frames)  OBVIOUS
  <2> QED  BY <2>1
<1>2. PICK z \in Nat : z = 0
  OBVIOUS
<1>3. PICK e : e = [k \in 0 .. 0 |-> z]
  OBVIOUS
<1>4. StreamOf(s) = <<>> /\ Len(StreamOf(s)) = 0 /\ Len(s) = 0
  <2>1. BytesOf(s) = <<>>  BY <1>1 DEF BytesOf
  <2>2. StreamOf(s) = <<>>  BY <2>1 DEF StreamOf, FlattenSeq
  <2> QED  BY <1>1, <2>2
<1>5. EndAt(e, s)
  BY <1>2, <1>3, <1>4 DEF EndAt
<1> QED  BY <1>1, <1>5

\* A frame that is written is cut behind the others.
LEMMA EndAtAppend ==
    ASSUME NEW s \in Seq(Frames), NEW f \in Frames, NEW e, EndAt(e, s)
    PROVE  \E d : EndAt(d, Append(s, f)) /\ \A k \in 0 .. Len(s) : d[k] = e[k]
<1>1. PICK r : r = Append(s, f)
  OBVIOUS
<1>2. PICK n \in Nat : n = Len(s)
  OBVIOUS
<1>3. PICK z \in Nat : z = Size(f)
  BY SizeIsNumber
<1>4. /\ Len(r) = n + 1 /\ r[n + 1] = f /\ \A k \in 1 .. n : r[k] = s[k]
      /\ z > 0
  BY <1>1, <1>2, <1>3, SizeIsNumber DEF HeadLen
<1>5. PICK u \in Seq(Places) : u = StreamOf(s)
  BY StreamAppend
<1>6. PICK v \in Seq(Places) : v = StreamOf(r)
  BY <1>1, StreamAppend
<1>7. /\ e \in [0 .. n -> Nat] /\ e[0] = 0
      /\ \A k \in 1 .. n : e[k] = e[k - 1] + Size(s[k])
      /\ \A j, k \in 0 .. n : j < k => e[j] < e[k]
      /\ Len(u) = e[n]
      /\ \A k \in 1 .. n : \A j \in 1 .. Size(s[k]) : u[e[k - 1] + j] = <<k, j>>
  BY <1>2, <1>5 DEF EndAt
<1>8. /\ Len(v) = Len(u) + z
      /\ \A i \in 1 .. Len(u) : v[i] = u[i]
      /\ \A j \in 1 .. z : v[Len(u) + j] = <<n + 1, j>>
  BY <1>1, <1>2, <1>3, <1>5, <1>6, StreamAppend
<1>9. PICK d : d = [k \in 0 .. n + 1 |-> IF k <= n THEN e[k] ELSE e[n] + z]
  OBVIOUS
<1>10. /\ \A k \in 0 .. n : d[k] = e[k] /\ e[k] \in Nat
       /\ d[n + 1] = e[n] + z /\ e[n] \in Nat
       /\ \A k \in 0 .. n : e[k] <= e[n]
  BY <1>7, <1>9
<1>11. d \in [0 .. n + 1 -> Nat] /\ d[0] = 0
  <2>1. \A k \in 0 .. n + 1 : k \in 0 .. n \/ k = n + 1  OBVIOUS
  <2>2. e[n] + z \in Nat  BY <1>10
  <2>3. \A k \in 0 .. n + 1 : d[k] \in Nat  BY <1>10, <2>1, <2>2
  <2> QED  BY <1>7, <1>9, <1>10, <2>3
<1>12. \A k \in 1 .. n + 1 : d[k] = d[k - 1] + Size(r[k])
  <2> TAKE k \in 1 .. n + 1
  <2>1. CASE k = n + 1
    <3>1. d[k - 1] = e[n] /\ d[k] = e[n] + z /\ r[k] = f  BY <1>4, <1>10, <2>1
    <3> QED  BY <1>3, <3>1
  <2>2. CASE k # n + 1
    <3>1. k \in 1 .. n /\ k \in 0 .. n /\ k - 1 \in 0 .. n  BY <2>2
    <3>2. d[k] = e[k] /\ d[k - 1] = e[k - 1] /\ r[k] = s[k]  BY <1>4, <1>10, <3>1
    <3> QED  BY <1>7, <3>1, <3>2
  <2> QED  BY <2>1, <2>2
<1>13. \A j, k \in 0 .. n + 1 : j < k => d[j] < d[k]
  <2> TAKE j, k \in 0 .. n + 1
  <2> HAVE j < k
  <2>1. j \in 0 .. n /\ d[j] = e[j] /\ e[j] <= e[n] /\ e[j] \in Nat  BY <1>10
  <2>2. CASE k = n + 1  BY <1>4, <1>10, <2>1, <2>2
  <2>3. CASE k # n + 1
    <3>1. k \in 0 .. n  BY <2>3
    <3> QED  BY <1>7, <1>10, <2>1, <3>1
  <2> QED  BY <2>2, <2>3
<1>14. Len(v) = d[n + 1]
  BY <1>7, <1>8, <1>10
<1>15. \A k \in 1 .. n + 1 : \A j \in 1 .. Size(r[k]) : v[d[k - 1] + j] = <<k, j>>
  <2> TAKE k \in 1 .. n + 1
  <2> TAKE j \in 1 .. Size(r[k])
  <2>1. CASE k = n + 1
    <3>1. d[k - 1] = Len(u) /\ r[k] = f  BY <1>4, <1>7, <1>10, <2>1
    <3> QED  BY <1>3, <1>8, <2>1, <3>1
  <2>2. CASE k # n + 1
    <3>1. k \in 1 .. n /\ k \in 0 .. n /\ k - 1 \in 0 .. n  BY <2>2
    <3>2. d[k - 1] = e[k - 1] /\ r[k] = s[k] /\ e[k - 1] \in Nat /\ e[k] \in Nat /\ e[k] <= Len(u)
      BY <1>4, <1>7, <1>10, <3>1
    <3>3. PICK m \in Nat : m = Size(s[k])  BY SizeIsNumber
    <3>4. e[k] = e[k - 1] + m /\ j \in 1 .. m  BY <1>7, <3>1, <3>2, <3>3
    <3>5. e[k - 1] + j \in 1 .. Len(u)  BY <3>2, <3>4
    <3>6. u[e[k - 1] + j] = <<k, j>>  BY <1>7, <3>1, <3>3, <3>4
    <3> QED  BY <1>8, <3>2, <3>5, <3>6
  <2> QED  BY <2>1, <2>2
<1>16. EndAt(d, r)
  BY <1>4, <1>6, <1>11, <1>12, <1>13, <1>14, <1>15 DEF EndAt
<1> QED  BY <1>1, <1>2, <1>10, <1>16

\* A receiver of the stream of s: n bytes were received and b kept of them, d of these are
\* dealt with, pc says where the receiver is, and g are the frames it handled.
Fits(s, n, b, d, pc, g) ==
    /\ Len(g) <= Len(s) /\ \A i \in 1 .. Len(g) : g[i] = s[i]
    /\ n <= Len(StreamOf(s)) /\ Len(b) <= n
    /\ \A i \in 1 .. Len(b) : b[i] = StreamOf(s)[(n - Len(b)) + i]
    /\ \E e : /\ EndAt(e, s)
              /\ pc = "wait" => n - Len(b) = e[Len(g)] /\ Len(b) < HeadLen
              /\ pc = "loop" => d <= Len(b) /\ (n - Len(b)) + d = e[Len(g)]

\* Nothing was sent yet.
LEMMA FitsEmpty ==
    ASSUME NEW d
    PROVE  Fits(<<>>, 0, <<>>, d, "wait", <<>>)
<1>1. PICK s \in Seq(Frames) : s = <<>>
  <2>1. <<>> \in Seq(Frames)  OBVIOUS
  <2> QED  BY <2>1
<1>2. PICK e : EndAt(e, s)
  BY <1>1, EndAtEmpty
<1>3. Len(s) = 0 /\ e[0] = 0 /\ Len(StreamOf(s)) = 0
  BY <1>1, <1>2 DEF EndAt
<1> QED  BY <1>1, <1>2, <1>3 DEF Fits, HeadLen

\* What is written later does not matter to the receiver.
LEMMA FitsWrite ==
    ASSUME NEW s \in Seq(Frames), NEW n \in Nat, NEW b \in Seq(Places), NEW d \in Nat,
           NEW pc \in {"wait", "loop"}, NEW g \in Seq(Frames), NEW f \in Frames,
           Fits(s, n, b, d, pc, g)
    PROVE  Fits(Append(s, f), n, b, d, pc, g)
<1>1. PICK r : r = Append(s, f)
  OBVIOUS
<1>2. PICK u \in Seq(Places) : u = StreamOf(s)
  BY StreamAppend
<1>3. PICK v \in Seq(Places) : v = StreamOf(r)
  BY <1>1, StreamAppend
<1>4. /\ Len(g) <= Len(s) /\ \A i \in 1 .. Len(g) : g[i] = s[i]
      /\ n <= Len(u) /\ Len(b) <= n
      /\ \A i \in 1 .. Len(b) : b[i] = u[(n - Len(b)) + i]
  BY <1>2 DEF Fits
<1>5. PICK e : /\ EndAt(e, s)
               /\ pc = "wait" => n - Len(b) = e[Len(g)] /\ Len(b) < HeadLen
               /\ pc = "loop" => d <= Len(b) /\ (n - Len(b)) + d = e[Len(g)]
  BY DEF Fits
<1>6. PICK c : EndAt(c, r) /\ \A k \in 0 .. Len(s) : c[k] = e[k]
  BY <1>1, <1>5, EndAtAppend
<1>7. c[Len(g)] = e[Len(g)]
  <2>1. Len(g) \in 0 .. Len(s)  BY <1>4
  <2> QED  BY <1>6, <2>1
<1>8. Len(g) <= Len(r) /\ \A i \in 1 .. Len(g) : g[i] = r[i]
  <2>1. Len(r) = Len(s) + 1 /\ \A i \in 1 .. Len(s) : r[i] = s[i]  BY <1>1
  <2> QED  BY <1>4, <2>1
<1>9. /\ Len(u) <= Len(v) /\ \A i \in 1 .. Len(u) : v[i] = u[i]
  <2>1. PICK z \in Nat : z = Size(f)  BY SizeIsNumber
  <2>2. Len(v) = Len(u) + z  BY <1>1, <1>2, <1>3, <2>1, StreamAppend
  <2>3. \A i \in 1 .. Len(u) : v[i] = u[i]  BY <1>1, <1>2, <1>3, StreamAppend
  <2>4. Len(u) \in Nat  OBVIOUS
  <2> QED  BY <2>1, <2>2, <2>3, <2>4
<1>10. \A i \in 1 .. Len(b) : b[i] = v[(n - Len(b)) + i]
  <2> TAKE i \in 1 .. Len(b)
  <2>1. (n - Len(b)) + i \in 1 .. Len(u)  BY <1>4
  <2> QED  BY <1>4, <1>9, <2>1
<1>11. n <= Len(v) /\ Len(b) <= n
  BY <1>4, <1>9
<1> QED  BY <1>1, <1>3, <1>5, <1>6, <1>7, <1>8, <1>10, <1>11 DEF Fits

\* recv appends the next bytes of the stream.
LEMMA FitsRecv ==
    ASSUME NEW s \in Seq(Frames), NEW n \in Nat, NEW b \in Seq(Places), NEW d \in Nat,
           NEW g \in Seq(Frames), NEW k \in 1 .. (Len(StreamOf(s)) - n),
           Fits(s, n, b, d, "wait", g)
    PROVE  LET c == b \o SubSeq(StreamOf(s), n + 1, n + k)
           IN c \in Seq(Places) /\ Fits(s, n + k, c, 0, "loop", g)
<1>1. PICK u \in Seq(Places) : u = StreamOf(s)
  <2>1. PICK f \in Frames : f = [type |-> "create", id |-> 0, flag |-> FALSE]  BY DEF Frames
  <2> QED  BY StreamAppend
<1>2. /\ Len(g) <= Len(s) /\ \A i \in 1 .. Len(g) : g[i] = s[i]
      /\ n <= Len(u) /\ Len(b) <= n
      /\ \A i \in 1 .. Len(b) : b[i] = u[(n - Len(b)) + i]
  BY <1>1 DEF Fits
<1>3. PICK e : EndAt(e, s) /\ n - Len(b) = e[Len(g)]
  BY DEF Fits
<1>4. k \in Nat /\ k > 0 /\ n + k <= Len(u)
  BY <1>1
<1>5. PICK x : x = SubSeq(u, n + 1, n + k)
  OBVIOUS
<1>6. x \in Seq(Places) /\ Len(x) = k /\ \A i \in 1 .. k : x[i] = u[n + i]
  BY <1>4, <1>5
<1>7. PICK c : c = b \o x
  OBVIOUS
<1>8. /\ c \in Seq(Places) /\ Len(c) = Len(b) + k
      /\ \A i \in 1 .. Len(b) : c[i] = b[i]
      /\ \A i \in 1 .. k : c[Len(b) + i] = x[i]
  <2>1. x \in Seq(Places) /\ Len(x) = k  BY <1>6
  <2>2. /\ b \o x \in Seq(Places) /\ Len(b \o x) = Len(b) + Len(x)
        /\ \A i \in 1 .. Len(b) : (b \o x)[i] = b[i]
        /\ \A i \in 1 .. Len(x) : (b \o x)[Len(b) + i] = x[i]
    BY <2>1, Joined
  <2>3. c \in Seq(Places) /\ Len(c) = Len(b) + Len(x)  BY <1>7, <2>2
  <2>4. \A i \in 1 .. Len(b) : c[i] = b[i]  BY <1>7, <2>2
  <2>5. \A i \in 1 .. Len(x) : c[Len(b) + i] = x[i]  BY <1>7, <2>2
  <2> QED  BY <2>1, <2>3, <2>4, <2>5
<1>9. \A i \in 1 .. Len(c) : c[i] = u[((n + k) - Len(c)) + i]
  <2> TAKE i \in 1 .. Len(c)
  <2>1. ((n + k) - Len(c)) + i = (n - Len(b)) + i  BY <1>4, <1>8
  <2>2. CASE i <= Len(b)  BY <1>2, <1>8, <2>1, <2>2
  <2>3. CASE ~(i <= Len(b))
    <3>0. i \in Nat /\ Len(b) \in Nat /\ i <= Len(b) + k /\ i > Len(b)  BY <1>4, <1>8, <2>3
    <3>1. PICK j \in 1 .. k : j = i - Len(b)
      <4>1. i - Len(b) \in 1 .. k  BY <1>4, <3>0
      <4> QED  BY <4>1
    <3>2. i = Len(b) + j /\ (n - Len(b)) + i = n + j  BY <1>2, <3>1
    <3>3. c[i] = x[j]  BY <1>8, <3>2
    <3> QED  BY <1>6, <2>1, <3>2, <3>3
  <2> QED  BY <2>2, <2>3
<1>10. /\ n + k <= Len(u) /\ Len(c) <= n + k
       /\ 0 <= Len(c) /\ ((n + k) - Len(c)) + 0 = e[Len(g)]
  BY <1>2, <1>3, <1>4, <1>8
<1>11. Fits(s, n + k, c, 0, "loop", g)
  BY <1>1, <1>2, <1>3, <1>9, <1>10 DEF Fits
<1> QED  BY <1>1, <1>5, <1>7, <1>8, <1>11

\* What is left of a buffer.
LEMMA RestIs ==
    ASSUME NEW b \in Seq(Places), NEW d \in Nat, d <= Len(b), NEW r, r = SubSeq(b, d + 1, Len(b))
    PROVE  /\ r \in Seq(Places) /\ Len(r) = Len(b) - d /\ Len(b) - d \in Nat
           /\ \A i \in 1 .. Len(r) : r[i] = b[d + i]
<1>1. Len(b) \in Nat /\ d + 1 \in 1 .. Len(b) + 1 /\ Len(b) - d \in Nat
  OBVIOUS
<1>2. r \in Seq(Places)
  BY <1>1
<1>3. Len(r) = Len(b) - d
  BY <1>1
<1>4. \A i \in 1 .. Len(r) : r[i] = b[d + i]
  BY <1>1, <1>3
<1> QED  BY <1>1, <1>2, <1>3, <1>4

\* The first byte of r is that of frame k.
Begins(r, k) == r[1] = <<k, 1>>

\* The rest of the buffer begins with the next frame, when it holds a head.
LEMMA RestBegins ==
    ASSUME NEW s \in Seq(Frames), NEW n \in Nat, NEW b \in Seq(Places), NEW d \in Nat,
           NEW g \in Seq(Frames), Fits(s, n, b, d, "loop", g), NEW r, r = SubSeq(b, d + 1, Len(b))
    PROVE  Len(r) >= HeadLen => Len(g) + 1 \in 1 .. Len(s) /\ Begins(r, Len(g) + 1)
<1>1. PICK u \in Seq(Places) : u = StreamOf(s)
  <2>1. PICK f \in Frames : f = [type |-> "create", id |-> 0, flag |-> FALSE]  BY DEF Frames
  <2> QED  BY StreamAppend
<1>2. /\ Len(g) <= Len(s) /\ n <= Len(u) /\ Len(b) <= n
      /\ \A i \in 1 .. Len(b) : b[i] = u[(n - Len(b)) + i]
  BY <1>1 DEF Fits
<1>3. PICK e : EndAt(e, s) /\ d <= Len(b) /\ (n - Len(b)) + d = e[Len(g)]
  BY DEF Fits
<1>5. /\ r \in Seq(Places) /\ Len(r) = Len(b) - d /\ Len(b) - d \in Nat
      /\ \A i \in 1 .. Len(r) : r[i] = b[d + i]
  BY <1>3, RestIs
<1>6. ASSUME Len(r) >= HeadLen
      PROVE  Len(g) + 1 \in 1 .. Len(s) /\ Begins(r, Len(g) + 1)
  <2>1. d + 1 \in 1 .. Len(b) /\ 1 \in 1 .. Len(r)  BY <1>3, <1>5, <1>6 DEF HeadLen
  <2>2. r[1] = u[e[Len(g)] + 1]
    <3>1. r[1] = b[d + 1]  BY <1>5, <2>1
    <3>2. b[d + 1] = u[(n - Len(b)) + (d + 1)]  BY <1>2, <2>1
    <3>3. (n - Len(b)) + (d + 1) = e[Len(g)] + 1  BY <1>2, <1>3
    <3> QED  BY <3>1, <3>2, <3>3
  <2>3. Len(g) # Len(s)
    <3>1. e[Len(g)] + 1 <= n /\ e[Len(g)] < Len(u)  BY <1>2, <1>3, <2>1
    <3>2. Len(u) = e[Len(s)]  BY <1>1, <1>3 DEF EndAt
    <3>3. Len(u) \in Nat  OBVIOUS
    <3> QED  BY <3>1, <3>2, <3>3
  <2>4. PICK k \in 1 .. Len(s) : k = Len(g) + 1 /\ k - 1 = Len(g)  BY <1>2, <2>3
  <2>5. 1 \in 1 .. Size(s[k])
    <3>1. PICK z \in Nat : z = Size(s[k]) /\ z > HeadLen  BY SizeIsNumber
    <3> QED  BY <3>1 DEF HeadLen
  <2>6. u[e[k - 1] + 1] = <<k, 1>>  BY <1>1, <1>3, <2>5 DEF EndAt
  <2> QED  BY <2>2, <2>4, <2>6 DEF Begins
<1> QED  BY <1>6

\* The next frame is dealt with.
LEMMA FitsHandle ==
    ASSUME NEW s \in Seq(Frames), NEW n \in Nat, NEW b \in Seq(Places), NEW d \in Nat,
           NEW g \in Seq(Frames), Fits(s, n, b, d, "loop", g),
           Len(g) + 1 \in 1 .. Len(s), d + Size(s[Len(g) + 1]) <= Len(b)
    PROVE  Fits(s, n, b, d + Size(s[Len(g) + 1]), "loop", Append(g, s[Len(g) + 1]))
<1>1. PICK k \in 1 .. Len(s) : k = Len(g) + 1 /\ k - 1 = Len(g)
  OBVIOUS
<1>2. PICK f \in Frames : f = s[k]
  OBVIOUS
<1>3. PICK z \in Nat : z = Size(f)
  BY SizeIsNumber
<1>4. PICK h : h = Append(g, f)
  OBVIOUS
<1>5. Len(h) = k /\ h[k] = s[k] /\ \A i \in 1 .. Len(g) : h[i] = g[i]
  BY <1>1, <1>2, <1>4
<1>6. PICK e : EndAt(e, s) /\ d <= Len(b) /\ (n - Len(b)) + d = e[Len(g)]
  BY DEF Fits
<1>7. e[k] = e[Len(g)] + z
  BY <1>1, <1>2, <1>3, <1>6 DEF EndAt
<1>8. Len(h) <= Len(s) /\ \A i \in 1 .. Len(h) : h[i] = s[i]
  <2>1. \A i \in 1 .. Len(g) : g[i] = s[i]  BY DEF Fits
  <2>2. \A i \in 1 .. Len(h) : i = k \/ i \in 1 .. Len(g)  BY <1>1, <1>5
  <2> QED  BY <1>1, <1>5, <2>1, <2>2
<1>9. d + z <= Len(b) /\ (n - Len(b)) + (d + z) = e[Len(h)]
  <2>1. Len(b) \in Nat  OBVIOUS
  <2> QED  BY <1>1, <1>2, <1>3, <1>5, <1>6, <1>7, <2>1
<1>10. Fits(s, n, b, d + z, "loop", h)
  BY <1>6, <1>8, <1>9 DEF Fits
<1> QED  BY <1>1, <1>2, <1>3, <1>4, <1>10

\* The loop is left with less than a head, which is moved to the front.
LEMMA FitsReturn ==
    ASSUME NEW s \in Seq(Frames), NEW n \in Nat, NEW b \in Seq(Places), NEW d \in Nat,
           NEW g \in Seq(Frames), Fits(s, n, b, d, "loop", g),
           Len(SubSeq(b, d + 1, Len(b))) < HeadLen
    PROVE  Fits(s, n, SubSeq(b, d + 1, Len(b)), d, "wait", g)
<1>1. PICK r : r = SubSeq(b, d + 1, Len(b))
  OBVIOUS
<1>2. /\ r \in Seq(Places) /\ Len(r) = Len(b) - d /\ Len(b) - d \in Nat
      /\ \A i \in 1 .. Len(r) : r[i] = b[d + i]
  <2>1. d <= Len(b)  BY DEF Fits
  <2> QED  BY <1>1, <2>1, RestIs
<1>3. PICK u : u = StreamOf(s)
  OBVIOUS
<1>4. /\ Len(g) <= Len(s) /\ \A i \in 1 .. Len(g) : g[i] = s[i]
      /\ n <= Len(u) /\ Len(b) <= n
      /\ \A i \in 1 .. Len(b) : b[i] = u[(n - Len(b)) + i]
  BY <1>3 DEF Fits
<1>5. PICK e : EndAt(e, s) /\ d <= Len(b) /\ (n - Len(b)) + d = e[Len(g)]
  BY DEF Fits
<1>6. \A i \in 1 .. Len(r) : r[i] = u[(n - Len(r)) + i]
  <2> TAKE i \in 1 .. Len(r)
  <2>1. d + i \in 1 .. Len(b) /\ (n - Len(b)) + (d + i) = (n - Len(r)) + i  BY <1>2
  <2> QED  BY <1>2, <1>4, <2>1
<1>7. Len(r) <= n /\ n - Len(r) = e[Len(g)]
  BY <1>2, <1>4, <1>5
<1> QED  BY <1>1, <1>3, <1>4, <1>5, <1>6, <1>7 DEF Fits

\* A sequence and one more.
LEMMA Longer ==
    ASSUME NEW q \in Seq(Frames), NEW f \in Frames
    PROVE  /\ Len(Append(q, f)) = Len(q) + 1 /\ Append(q, f)[Len(q) + 1] = f
           /\ \A n \in 1 .. Len(q) : Append(q, f)[n] = q[n]
OBVIOUS

\* The answers name the requests, one after the other.
Matches(told, asked) == Len(told) = Len(asked) /\ \A n \in 1 .. Len(told) : told[n].id = asked[n].id

\* An answer more for a request more.
LEMMA MatchesAppend ==
    ASSUME NEW told \in Seq(Frames), NEW asked \in Seq(Frames), Matches(told, asked),
           NEW x \in Frames, NEW y \in Frames, x.id = y.id
    PROVE  Matches(Append(told, x), Append(asked, y))
<1>1. PICK a : a = Append(told, x)  OBVIOUS
<1>2. PICK b : b = Append(asked, y)  OBVIOUS
<1>3. PICK m \in Nat : m = Len(told) /\ m = Len(asked)
  BY DEF Matches
<1>4. Len(a) = m + 1 /\ a[m + 1] = x /\ \A n \in 1 .. m : a[n] = told[n]
  <2>1. /\ Len(Append(told, x)) = Len(told) + 1 /\ Append(told, x)[Len(told) + 1] = x
        /\ \A n \in 1 .. Len(told) : Append(told, x)[n] = told[n]
    BY Longer
  <2> QED  BY <1>1, <1>3, <2>1
<1>5. Len(b) = m + 1 /\ b[m + 1] = y /\ \A n \in 1 .. m : b[n] = asked[n]
  BY <1>2, <1>3, Longer
<1>6. \A n \in 1 .. m + 1 : a[n].id = b[n].id
  <2> TAKE n \in 1 .. m + 1
  <2>1. CASE n = m + 1  BY <1>4, <1>5, <2>1
  <2>2. CASE n # m + 1
    <3>1. n \in 1 .. m  BY <2>2
    <3> QED  BY <1>3, <1>4, <1>5, <3>1 DEF Matches
  <2> QED  BY <2>1, <2>2
<1> QED  BY <1>1, <1>2, <1>4, <1>5, <1>6 DEF Matches

-----------------------------------------------------------------------------
\* The state of the connections.
FrTypes ==
    /\ sent \in [Tunnels -> [Ways -> Seq(Frames)]] /\ got \in [Tunnels -> [Ways -> Seq(Frames)]]
    /\ buf \in [Tunnels -> [Ways -> Seq(Places)]]
    /\ taken \in [Tunnels -> [Ways -> Nat]] /\ deal \in [Tunnels -> [Ways -> Nat]]
    /\ where \in [Tunnels -> [Ways -> {"wait", "loop"}]]

\* Each receiver is where a frame of its stream begins.
InStep == \A t \in Tunnels, w \in Ways :
              Fits(sent[t][w], taken[t][w], buf[t][w], deal[t][w], where[t][w], got[t][w])

\* The client answered what it handled.
Answered == \A t \in Tunnels : Matches(Creates(sent[t]["up"]), Creates(got[t]["down"]))

FrInv == FrTypes /\ InStep /\ Answered

\* The frame that a step may write.
Grows(t, w, s) == \/ s = sent[t][w]
                  \/ \E f \in Frames : s = Append(sent[t][w], f)

\* What the two ends write are frames.
LEMMA FramesAreFrames ==
    /\ \A i \in Nat : Register(i) \in Frames /\ Register(i).type = "register"
    /\ \A i \in Nat, answer \in BOOLEAN : /\ Create(i, answer) \in Frames /\ Create(i, answer).id = i
                                          /\ Create(i, answer).type = "create"
BY DEF Register, Create, Frames

\* write
LEMMA WriteEffects ==
    ASSUME FrTypes, NEW t \in Tunnels, NEW w \in Ways, NEW f \in Frames, Write(t, w, f)
    PROVE  /\ sent' \in [Tunnels -> [Ways -> Seq(Frames)]]
           /\ \A u \in Tunnels, v \in Ways :
                  sent'[u][v] = IF u = t /\ v = w THEN Append(sent[t][w], f) ELSE sent[u][v]
           /\ \A u \in Tunnels, v \in Ways : Grows(u, v, sent'[u][v])
<1>1. PICK s \in Seq(Frames) : s = Append(sent[t][w], f)
  <2>1. PICK r \in Seq(Frames) : r = sent[t][w]  BY DEF FrTypes
  <2>2. Append(r, f) \in Seq(Frames)  OBVIOUS
  <2> QED  BY <2>1, <2>2
<1>2. sent' = [sent EXCEPT ![t][w] = s]
  BY <1>1 DEF Write
<1>3. sent' \in [Tunnels -> [Ways -> Seq(Frames)]]
  BY <1>2 DEF FrTypes
<1>4. \A u \in Tunnels, v \in Ways : sent'[u][v] = IF u = t /\ v = w THEN s ELSE sent[u][v]
  BY <1>2 DEF FrTypes
<1>5. \A u \in Tunnels, v \in Ways : Grows(u, v, sent'[u][v])
  BY <1>1, <1>4 DEF Grows
<1> QED  BY <1>1, <1>3, <1>4, <1>5

\* A receiver that does nothing stays in step with a stream that grows.
LEMMA StaysInStep ==
    ASSUME FrInv, NEW t \in Tunnels, NEW w \in Ways, Grows(t, w, sent'[t][w]),
           taken'[t][w] = taken[t][w], buf'[t][w] = buf[t][w], deal'[t][w] = deal[t][w],
           where'[t][w] = where[t][w], got'[t][w] = got[t][w]
    PROVE  Fits(sent'[t][w], taken'[t][w], buf'[t][w], deal'[t][w], where'[t][w], got'[t][w])
<1>1. /\ sent[t][w] \in Seq(Frames) /\ taken[t][w] \in Nat /\ buf[t][w] \in Seq(Places)
      /\ deal[t][w] \in Nat /\ where[t][w] \in {"wait", "loop"} /\ got[t][w] \in Seq(Frames)
      /\ Fits(sent[t][w], taken[t][w], buf[t][w], deal[t][w], where[t][w], got[t][w])
  BY DEF FrInv, FrTypes, InStep
<1>2. ASSUME NEW f \in Frames
      PROVE  Fits(Append(sent[t][w], f), taken[t][w], buf[t][w], deal[t][w], where[t][w], got[t][w])
  BY <1>1, FitsWrite
<1> QED  BY <1>1, <1>2 DEF Grows

\* Nothing was sent, so every receiver is at the beginning of its stream.
LEMMA FrInitially ==
    FrInit => FrInv
<1> SUFFICES ASSUME FrInit PROVE FrInv
  OBVIOUS
<1>1. PICK s \in Seq(Frames) : s = <<>>
  <2>1. <<>> \in Seq(Frames)  OBVIOUS
  <2> QED  BY <2>1
<1>2. PICK b \in Seq(Places) : b = <<>>
  <2>1. <<>> \in Seq(Places)  OBVIOUS
  <2> QED  BY <2>1
<1>3. PICK z \in Nat : z = 0
  OBVIOUS
<1>4. FrTypes
  BY <1>1, <1>2, <1>3 DEF FrInit, FrTypes
<1>5. InStep
  <2>1. Fits(s, z, b, z, "wait", s)  BY <1>1, <1>2, <1>3, FitsEmpty
  <2> QED  BY <1>1, <1>2, <1>3, <2>1 DEF FrInit, InStep
<1>6. Answered
  <2>1. Creates(s) \in Seq(Frames)
    <3>1. PICK f \in Frames : f = [type |-> "create", id |-> 0, flag |-> FALSE]  BY DEF Frames
    <3> QED  BY CreatesAppend
  <2>2. Matches(Creates(s), Creates(s))  BY DEF Matches
  <2>3. \A t \in Tunnels : sent[t]["up"] = s /\ got[t]["down"] = s
    BY <1>1 DEF FrInit, Ways
  <2> QED  BY <2>2, <2>3 DEF Answered
<1> QED  BY <1>4, <1>5, <1>6 DEF FrInv

\* The registration of the client.
LEMMA OnConnectedKeeps ==
    ASSUME FrInv, NEW t \in Tunnels, OnConnected(t)
    PROVE  FrInv'
<1>1. PICK f \in Frames : f = Register(0) /\ f.type = "register"
  BY FramesAreFrames
<1>2. Write(t, "up", f) /\ UNCHANGED <<taken, buf, deal, where, got>>
  BY <1>1 DEF OnConnected
<1>3. /\ sent' \in [Tunnels -> [Ways -> Seq(Frames)]]
      /\ \A u \in Tunnels, v \in Ways :
             sent'[u][v] = IF u = t /\ v = "up" THEN Append(sent[t]["up"], f) ELSE sent[u][v]
      /\ \A u \in Tunnels, v \in Ways : Grows(u, v, sent'[u][v])
  BY <1>2, WriteEffects DEF FrInv, Ways
<1>4. FrTypes'
  BY <1>2, <1>3 DEF FrInv, FrTypes
<1>5. InStep'
  BY <1>2, <1>3, StaysInStep DEF InStep
<1>6. Answered'
  <2>1. sent[t]["up"] \in Seq(Frames)  BY DEF FrInv, FrTypes, Ways
  <2>2. Creates(Append(sent[t]["up"], f)) = Creates(sent[t]["up"])  BY <1>1, <2>1, CreatesAppend
  <2>3. \A u \in Tunnels : Creates(sent'[u]["up"]) = Creates(sent[u]["up"])
    BY <1>3, <2>2 DEF Ways
  <2> QED  BY <1>2, <2>3 DEF FrInv, Answered
<1> QED  BY <1>4, <1>5, <1>6 DEF FrInv

\* send_create_channel_msg writes a frame to the client.
LEMMA AskForConnectionKeeps ==
    ASSUME FrInv, NEW t \in Tunnels, AskForConnection(t)
    PROVE  FrInv'
<1>1. Creates(sent[t]["down"]) \in Seq(Frames)
  <2>1. PICK f \in Frames : f = [type |-> "create", id |-> 0, flag |-> FALSE]  BY DEF Frames
  <2>2. sent[t]["down"] \in Seq(Frames)  BY DEF FrInv, FrTypes, Ways
  <2> QED  BY <2>1, <2>2, CreatesAppend
<1>2. PICK f \in Frames : f = Create(Len(Creates(sent[t]["down"])) + 1, FALSE)
  <2>1. Len(Creates(sent[t]["down"])) + 1 \in Nat  BY <1>1
  <2> QED  BY <2>1, FramesAreFrames
<1>3. Write(t, "down", f) /\ UNCHANGED <<taken, buf, deal, where, got>>
  <2>1. sent[t].down = sent[t]["down"]  BY DEF FrInv, FrTypes, Ways
  <2> QED  BY <1>2, <2>1 DEF AskForConnection
<1>4. /\ sent' \in [Tunnels -> [Ways -> Seq(Frames)]]
      /\ \A u \in Tunnels, v \in Ways :
             sent'[u][v] = IF u = t /\ v = "down" THEN Append(sent[t]["down"], f) ELSE sent[u][v]
      /\ \A u \in Tunnels, v \in Ways : Grows(u, v, sent'[u][v])
  BY <1>3, WriteEffects DEF FrInv, Ways
<1>5. FrTypes'
  BY <1>3, <1>4 DEF FrInv, FrTypes
<1>6. InStep'
  BY <1>3, <1>4, StaysInStep DEF InStep
<1>7. Answered'
  BY <1>3, <1>4 DEF FrInv, Answered, Ways
<1> QED  BY <1>5, <1>6, <1>7 DEF FrInv

\* recv puts the next bytes behind those that were kept.
LEMMA RecvDataKeeps ==
    ASSUME FrInv, NEW t \in Tunnels, NEW w \in Ways, RecvData(t, w)
    PROVE  FrInv'
<1>1. PICK k \in 1 .. (Len(Stream(t, w)) - taken[t][w]) :
          /\ taken' = [taken EXCEPT ![t][w] = @ + k]
          /\ buf' = [buf EXCEPT ![t][w] = @ \o SubSeq(Stream(t, w), taken[t][w] + 1, taken[t][w] + k)]
  BY DEF RecvData
<1>2. Stream(t, w) = StreamOf(sent[t][w])
  BY DEF Stream, StreamOf, BytesOf
<1>3. PICK s \in Seq(Frames), n \in Nat, b \in Seq(Places), d \in Nat, g \in Seq(Frames) :
          s = sent[t][w] /\ n = taken[t][w] /\ b = buf[t][w] /\ d = deal[t][w] /\ g = got[t][w]
  BY DEF FrInv, FrTypes
<1>4. where[t][w] = "wait" /\ Fits(s, n, b, d, "wait", g)
  BY <1>3 DEF FrInv, InStep, RecvData
<1>5. PICK m \in 1 .. (Len(StreamOf(s)) - n) : m = k
  BY <1>1, <1>2, <1>3
<1>6. PICK c : c = b \o SubSeq(StreamOf(s), n + 1, n + m)
  OBVIOUS
<1>7. c \in Seq(Places) /\ Fits(s, n + m, c, 0, "loop", g)
  BY <1>4, <1>6, FitsRecv
<1>8. PICK i \in Nat, z \in Nat : i = n + m /\ z = 0
  <2>1. m \in Nat  OBVIOUS
  <2> QED  BY <2>1
<1>9. /\ taken' = [taken EXCEPT ![t][w] = i] /\ buf' = [buf EXCEPT ![t][w] = c]
      /\ where' = [where EXCEPT ![t][w] = "loop"] /\ deal' = [deal EXCEPT ![t][w] = z]
      /\ UNCHANGED <<sent, got>>
  <2>1. taken' = [taken EXCEPT ![t][w] = taken[t][w] + k]  BY <1>1, <1>3 DEF FrInv, FrTypes
  <2>2. buf' = [buf EXCEPT ![t][w] = buf[t][w] \o SubSeq(Stream(t, w), taken[t][w] + 1, taken[t][w] + k)]
    BY <1>1 DEF FrInv, FrTypes
  <2> QED  BY <1>2, <1>3, <1>5, <1>6, <1>8, <2>1, <2>2 DEF RecvData
<1>10. FrTypes'
  BY <1>7, <1>9 DEF FrInv, FrTypes
<1>11. /\ \A u \in Tunnels, v \in Ways : u # t \/ v # w =>
              /\ taken'[u][v] = taken[u][v] /\ buf'[u][v] = buf[u][v] /\ deal'[u][v] = deal[u][v]
              /\ where'[u][v] = where[u][v] /\ got'[u][v] = got[u][v] /\ Grows(u, v, sent'[u][v])
       /\ taken'[t][w] = i /\ buf'[t][w] = c /\ deal'[t][w] = z /\ where'[t][w] = "loop"
       /\ sent'[t][w] = s /\ got'[t][w] = g
  BY <1>3, <1>9 DEF FrInv, FrTypes, Grows
<1>12. InStep'
  <2>1. Fits(s, i, c, z, "loop", g)  BY <1>7, <1>8
  <2>2. ASSUME NEW u \in Tunnels, NEW v \in Ways
        PROVE  Fits(sent'[u][v], taken'[u][v], buf'[u][v], deal'[u][v], where'[u][v], got'[u][v])
    <3>1. CASE u = t /\ v = w  BY <1>11, <2>1, <3>1
    <3>2. CASE u # t \/ v # w  BY <1>11, <3>2, StaysInStep
    <3> QED  BY <3>1, <3>2
  <2> QED  BY <2>2 DEF InStep
<1>13. Answered'
  BY <1>9 DEF FrInv, Answered
<1> QED  BY <1>10, <1>12, <1>13 DEF FrInv

\* Less than a head is left, and moved to the front of the buffer.
LEMMA ReturnKeeps ==
    ASSUME FrInv, NEW t \in Tunnels, NEW w \in Ways, Return(t, w)
    PROVE  FrInv'
<1>1. PICK s \in Seq(Frames), n \in Nat, b \in Seq(Places), d \in Nat, g \in Seq(Frames) :
          s = sent[t][w] /\ n = taken[t][w] /\ b = buf[t][w] /\ d = deal[t][w] /\ g = got[t][w]
  BY DEF FrInv, FrTypes
<1>2. where[t][w] = "loop" /\ Fits(s, n, b, d, "loop", g)
  BY <1>1 DEF FrInv, InStep, Return
<1>3. PICK r : r = SubSeq(b, d + 1, Len(b))
  OBVIOUS
<1>4. r \in Seq(Places) /\ Len(r) \in Nat
  <2>1. d <= Len(b)  BY <1>2 DEF Fits
  <2> QED  BY <1>3, <2>1, RestIs
<1>5. Len(r) < HeadLen
  <2>1. ~(Len(r) >= HeadLen)  BY <1>1, <1>2, <1>3 DEF Return, HasHead, Rest
  <2> QED  BY <1>4, <2>1 DEF HeadLen
<1>6. Fits(s, n, r, d, "wait", g)
  BY <1>2, <1>3, <1>5, FitsReturn
<1>7. /\ buf' = [buf EXCEPT ![t][w] = r] /\ where' = [where EXCEPT ![t][w] = "wait"]
      /\ UNCHANGED <<sent, taken, deal, got>>
  BY <1>1, <1>3 DEF Return, Rest
<1>8. FrTypes'
  BY <1>4, <1>7 DEF FrInv, FrTypes
<1>9. /\ \A u \in Tunnels, v \in Ways : u # t \/ v # w =>
              /\ taken'[u][v] = taken[u][v] /\ buf'[u][v] = buf[u][v] /\ deal'[u][v] = deal[u][v]
              /\ where'[u][v] = where[u][v] /\ got'[u][v] = got[u][v] /\ Grows(u, v, sent'[u][v])
      /\ taken'[t][w] = n /\ buf'[t][w] = r /\ deal'[t][w] = d /\ where'[t][w] = "wait"
      /\ sent'[t][w] = s /\ got'[t][w] = g
  BY <1>1, <1>7 DEF FrInv, FrTypes, Grows
<1>10. InStep'
  <2>1. ASSUME NEW u \in Tunnels, NEW v \in Ways
        PROVE  Fits(sent'[u][v], taken'[u][v], buf'[u][v], deal'[u][v], where'[u][v], got'[u][v])
    <3>1. CASE u = t /\ v = w  BY <1>6, <1>9, <3>1
    <3>2. CASE u # t \/ v # w  BY <1>9, <3>2, StaysInStep
    <3> QED  BY <3>1, <3>2
  <2> QED  BY <2>1 DEF InStep
<1>11. Answered'
  BY <1>7 DEF FrInv, Answered
<1> QED  BY <1>8, <1>10, <1>11 DEF FrInv

\* What deal_data writes: nothing, or a frame on the other way.
LEMMA Deals ==
    ASSUME FrInv, NEW t \in Tunnels, NEW w \in Ways, NEW f \in Frames,
           IF w = "up" THEN ServerDeals(t, f) ELSE ClientDeals(t, f)
    PROVE  /\ sent' \in [Tunnels -> [Ways -> Seq(Frames)]]
           /\ \A u \in Tunnels, v \in Ways : Grows(u, v, sent'[u][v])
           /\ \A u \in Tunnels, v \in Ways : u # t \/ v = w => sent'[u][v] = sent[u][v]
           /\ w = "down" =>
                  \/ f.type = "create" /\ \E a \in Frames :
                         a.type = "create" /\ a.id = f.id /\ sent'[t]["up"] = Append(sent[t]["up"], a)
                  \/ f.type # "create" /\ sent'[t]["up"] = sent[t]["up"]
<1>0. FrTypes
  BY DEF FrInv
<1>1. CASE w = "up" /\ f.type = "register"
  <2>1. PICK a \in Frames : a = Register(1)  BY FramesAreFrames
  <2>2. Write(t, "down", a)  BY <1>1, <2>1 DEF ServerDeals
  <2>3. "down" \in Ways  BY DEF Ways
  <2>4. /\ sent' \in [Tunnels -> [Ways -> Seq(Frames)]]
        /\ \A u \in Tunnels, v \in Ways :
               sent'[u][v] = IF u = t /\ v = "down" THEN Append(sent[t]["down"], a) ELSE sent[u][v]
        /\ \A u \in Tunnels, v \in Ways : Grows(u, v, sent'[u][v])
    BY <1>0, <2>2, <2>3, WriteEffects
  <2> QED  BY <1>1, <2>4
<1>2. CASE w = "down" /\ f.type = "create"
  <2>1. PICK ok \in BOOLEAN : Write(t, "up", Create(f.id, ok))  BY <1>2 DEF ClientDeals
  <2>2. PICK a \in Frames : a = Create(f.id, ok) /\ a.id = f.id /\ a.type = "create"
    <3>1. f.id \in Nat  BY DEF Frames
    <3> QED  BY <3>1, FramesAreFrames
  <2>3. Write(t, "up", a) /\ "up" \in Ways  BY <2>1, <2>2 DEF Ways
  <2>4. /\ sent' \in [Tunnels -> [Ways -> Seq(Frames)]]
        /\ \A u \in Tunnels, v \in Ways :
               sent'[u][v] = IF u = t /\ v = "up" THEN Append(sent[t]["up"], a) ELSE sent[u][v]
        /\ \A u \in Tunnels, v \in Ways : Grows(u, v, sent'[u][v])
    BY <1>0, <2>3, WriteEffects
  <2> QED  BY <1>2, <2>2, <2>3, <2>4
<1>3. CASE sent' = sent /\ (w = "down" => f.type # "create")
  BY <1>0, <1>3 DEF FrTypes, Grows
<1>4. w = "up" \/ w = "down"
  BY DEF Ways
<1> QED  BY <1>1, <1>2, <1>3, <1>4 DEF ServerDeals, ClientDeals

\* deal_data is given the next frame; the client answers a request.
LEMMA HandleKeeps ==
    ASSUME FrInv, NEW t \in Tunnels, NEW w \in Ways, Handle(t, w)
    PROVE  FrInv'
<1>1. PICK s \in Seq(Frames), n \in Nat, b \in Seq(Places), d \in Nat, g \in Seq(Frames) :
          s = sent[t][w] /\ n = taken[t][w] /\ b = buf[t][w] /\ d = deal[t][w] /\ g = got[t][w]
  BY DEF FrInv, FrTypes
<1>2. where[t][w] = "loop" /\ Fits(s, n, b, d, "loop", g)
  BY <1>1 DEF FrInv, InStep, Handle, HasFrame, HasHead
<1>3. PICK r : r = SubSeq(b, d + 1, Len(b))
  OBVIOUS
<1>4. /\ Len(r) = Len(b) - d /\ Len(b) - d \in Nat
      /\ Len(r) >= HeadLen => Len(g) + 1 \in 1 .. Len(s) /\ Begins(r, Len(g) + 1)
  <2>1. d <= Len(b)  BY <1>2 DEF Fits
  <2>2. Len(r) = Len(b) - d /\ Len(b) - d \in Nat  BY <1>3, <2>1, RestIs
  <2>3. Len(r) >= HeadLen => Len(g) + 1 \in 1 .. Len(s)  BY <1>2, <1>3, RestBegins
  <2>4. Len(r) >= HeadLen => Begins(r, Len(g) + 1)  BY <1>2, <1>3, RestBegins
  <2> QED  BY <2>2, <2>3, <2>4
<1>0. r = Rest(t, w)
  BY <1>1, <1>3 DEF Rest
<1>5. PICK k \in 1 .. Len(s) : k = Len(g) + 1 /\ Begins(r, k)
  BY <1>0, <1>4 DEF Handle, HasFrame, HasHead
<1>6. PICK f \in Frames : f = s[k]
  OBVIOUS
<1>7. NextFrame(t, w) = f
  BY <1>0, <1>1, <1>5, <1>6 DEF NextFrame, Begins
<1>8. PICK z \in Nat : z = Size(f)
  BY SizeIsNumber
<1>9. d + z <= Len(b)
  <2>1. Len(r) >= z  BY <1>0, <1>7, <1>8 DEF Handle, HasFrame
  <2>2. Len(b) \in Nat  OBVIOUS
  <2> QED  BY <1>4, <2>1, <2>2
<1>10. PICK i \in Nat, h \in Seq(Frames) : i = d + z /\ h = Append(g, f)
  <2>1. Append(g, f) \in Seq(Frames)  OBVIOUS
  <2>2. d + z \in Nat  OBVIOUS
  <2> QED  BY <2>1, <2>2, Zenon
<1>11. Fits(s, n, b, i, "loop", h)
  BY <1>2, <1>5, <1>6, <1>8, <1>9, <1>10, FitsHandle
<1>12. /\ deal' = [deal EXCEPT ![t][w] = i] /\ got' = [got EXCEPT ![t][w] = h]
       /\ UNCHANGED <<taken, buf, where>>
  <2>1. deal' = [deal EXCEPT ![t][w] = deal[t][w] + z]  BY <1>7, <1>8 DEF Handle, FrInv, FrTypes
  <2>2. got' = [got EXCEPT ![t][w] = Append(got[t][w], f)]  BY <1>7 DEF Handle, FrInv, FrTypes
  <2> QED  BY <1>1, <1>10, <2>1, <2>2 DEF Handle
<1>13. /\ sent' \in [Tunnels -> [Ways -> Seq(Frames)]]
       /\ \A u \in Tunnels, v \in Ways : Grows(u, v, sent'[u][v])
       /\ \A u \in Tunnels, v \in Ways : u # t \/ v = w => sent'[u][v] = sent[u][v]
       /\ w = "down" =>
              \/ f.type = "create" /\ \E a \in Frames :
                     a.type = "create" /\ a.id = f.id /\ sent'[t]["up"] = Append(sent[t]["up"], a)
              \/ f.type # "create" /\ sent'[t]["up"] = sent[t]["up"]
  <2>1. IF w = "up" THEN ServerDeals(t, f) ELSE ClientDeals(t, f)  BY <1>7 DEF Handle
  <2> QED  BY <2>1, Deals
<1>14. FrTypes'
  BY <1>10, <1>12, <1>13 DEF FrInv, FrTypes
<1>15. /\ \A u \in Tunnels, v \in Ways : u # t \/ v # w =>
              /\ taken'[u][v] = taken[u][v] /\ buf'[u][v] = buf[u][v] /\ deal'[u][v] = deal[u][v]
              /\ where'[u][v] = where[u][v] /\ got'[u][v] = got[u][v]
       /\ taken'[t][w] = n /\ buf'[t][w] = b /\ deal'[t][w] = i /\ where'[t][w] = "loop"
       /\ got'[t][w] = h
  BY <1>1, <1>2, <1>12 DEF FrInv, FrTypes
<1>16. InStep'
  <2>1. ASSUME NEW u \in Tunnels, NEW v \in Ways
        PROVE  Fits(sent'[u][v], taken'[u][v], buf'[u][v], deal'[u][v], where'[u][v], got'[u][v])
    <3>1. CASE u = t /\ v = w
      <4>1. sent'[t][w] = s  BY <1>1, <1>13
      <4> QED  BY <1>11, <1>15, <3>1, <4>1
    <3>2. CASE u # t \/ v # w  BY <1>13, <1>15, <3>2, StaysInStep
    <3> QED  BY <3>1, <3>2
  <2> QED  BY <2>1 DEF InStep
<1>17. Answered'
  <2>1. CASE w = "up"
    <3>1. \A u \in Tunnels : sent'[u]["up"] = sent[u]["up"] /\ got'[u]["down"] = got[u]["down"]
      BY <1>13, <1>15, <2>1 DEF Ways
    <3> QED  BY <3>1 DEF FrInv, Answered
  <2>2. CASE w = "down"
    <3>1. \A u \in Tunnels : u # t => sent'[u]["up"] = sent[u]["up"] /\ got'[u]["down"] = got[u]["down"]
      BY <1>13, <1>15, <2>2 DEF Ways
    <3>2. PICK q \in Seq(Frames) : q = sent[t]["up"]  BY DEF FrInv, FrTypes, Ways
    <3>3. Matches(Creates(q), Creates(g))  BY <1>1, <2>2, <3>2 DEF FrInv, Answered
    <3>4. got'[t]["down"] = Append(g, f)  BY <1>10, <1>15, <2>2
    <3>5. /\ Creates(g) \in Seq(Frames) /\ Creates(q) \in Seq(Frames)
          /\ Creates(Append(g, f)) = IF f.type = "create" THEN Append(Creates(g), f) ELSE Creates(g)
      BY CreatesAppend
    <3>6. CASE f.type = "create"
      <4>1. PICK a \in Frames : a.type = "create" /\ a.id = f.id /\ sent'[t]["up"] = Append(q, a)
        BY <1>13, <2>2, <3>2, <3>6
      <4>2. Creates(Append(q, a)) = Append(Creates(q), a)  BY <4>1, CreatesAppend
      <4>3. Matches(Append(Creates(q), a), Append(Creates(g), f))
        <5>1. PICK x \in Seq(Frames), y \in Seq(Frames) : x = Creates(q) /\ y = Creates(g)  BY <3>5
        <5>2. Matches(Append(x, a), Append(y, f))  BY <3>3, <4>1, <5>1, MatchesAppend
        <5> QED  BY <5>1, <5>2
      <4>4. Matches(Creates(sent'[t]["up"]), Creates(got'[t]["down"]))
        BY <3>4, <3>5, <3>6, <4>1, <4>2, <4>3
      <4> QED  BY <3>1, <4>4 DEF FrInv, Answered
    <3>7. CASE f.type # "create"
      <4>1. sent'[t]["up"] = q  BY <1>13, <2>2, <3>2, <3>7
      <4>2. Matches(Creates(sent'[t]["up"]), Creates(got'[t]["down"]))
        BY <3>3, <3>4, <3>5, <3>7, <4>1
      <4> QED  BY <3>1, <4>2 DEF FrInv, Answered
    <3> QED  BY <3>6, <3>7
  <2>3. w = "up" \/ w = "down"  BY DEF Ways
  <2> QED  BY <2>1, <2>2, <2>3
<1> QED  BY <1>14, <1>16, <1>17 DEF FrInv

\* Each step of the two ends keeps the invariant.
LEMMA FrStep ==
    FrInv /\ [FrNext]_frVars => FrInv'
<1> SUFFICES ASSUME FrInv, [FrNext]_frVars PROVE FrInv'
  OBVIOUS
<1>1. CASE UNCHANGED frVars
  BY <1>1 DEF frVars, FrInv, FrTypes, InStep, Answered
<1>2. ASSUME NEW t \in Tunnels, OnConnected(t) PROVE FrInv'
  BY <1>2, OnConnectedKeeps
<1>3. ASSUME NEW t \in Tunnels, AskForConnection(t) PROVE FrInv'
  BY <1>3, AskForConnectionKeeps
<1>4. ASSUME NEW t \in Tunnels, NEW w \in Ways, RecvData(t, w) PROVE FrInv'
  BY <1>4, RecvDataKeeps
<1>5. ASSUME NEW t \in Tunnels, NEW w \in Ways, Handle(t, w) PROVE FrInv'
  BY <1>5, HandleKeeps
<1>6. ASSUME NEW t \in Tunnels, NEW w \in Ways, Return(t, w) PROVE FrInv'
  BY <1>6, ReturnKeeps
<1> QED  BY <1>1, <1>2, <1>3, <1>4, <1>5, <1>6 DEF FrNext

\* The inductive invariant: every receiver is where a frame of its stream begins, and the
\* client answered what it handled (on_recv_data and deal_data of both ends).
THEOREM FrInvariance ==
    FrSpec => []FrInv
<1>1. FrInit => FrInv
  BY FrInitially
<1>2. FrInv /\ [FrNext]_frVars => FrInv'
  BY FrStep
<1> QED  BY <1>1, <1>2, PTL DEF FrSpec

\* However the streams are cut, on_recv_data hands deal_data the frames that were sent, in
\* order, and the client answers each request once, in order.
THEOREM FramesInOrderSafety ==
    FrSpec => []FramesInOrder
<1>1. FrInv => FramesInOrder
  <2> SUFFICES ASSUME FrInv, NEW t \in Tunnels
               PROVE  /\ \A w \in Ways : /\ IsPrefix(got[t][w], sent[t][w])
                                         /\ where[t][w] = "wait" => Len(buf[t][w]) < HeadLen
                      /\ LET asked == Creates(got[t].down)  told == Creates(sent[t].up)
                         IN Len(told) = Len(asked) /\ \A n \in 1..Len(told) : told[n].id = asked[n].id
    BY DEF FramesInOrder
  <2>1. ASSUME NEW w \in Ways
        PROVE  /\ IsPrefix(got[t][w], sent[t][w])
               /\ where[t][w] = "wait" => Len(buf[t][w]) < HeadLen
    <3>1. PICK s \in Seq(Frames), g \in Seq(Frames) : s = sent[t][w] /\ g = got[t][w]
      BY DEF FrInv, FrTypes
    <3>2. Fits(s, taken[t][w], buf[t][w], deal[t][w], where[t][w], g)
      BY <3>1 DEF FrInv, InStep
    <3>3. Len(g) <= Len(s) /\ \A i \in 1 .. Len(g) : g[i] = s[i]
      BY <3>2 DEF Fits
    <3>4. PICK p : p = SubSeq(s, 1, Len(g))  OBVIOUS
    <3>5. PICK q : q = SubSeq(g, 1, Len(g))  OBVIOUS
    <3>6. Len(p) = Len(g) /\ p \in Seq(Frames) /\ \A i \in 1 .. Len(g) : p[i] = s[i]  BY <3>3, <3>4
    <3>7. Len(q) = Len(g) /\ q \in Seq(Frames) /\ \A i \in 1 .. Len(g) : q[i] = g[i]  BY <3>5
    <3>8. p = q  BY <3>3, <3>6, <3>7
    <3>9. IsPrefix(g, s)  BY <3>3, <3>4, <3>5, <3>8 DEF IsPrefix
    <3>10. where[t][w] = "wait" => Len(buf[t][w]) < HeadLen  BY <3>2 DEF Fits
    <3> QED  BY <3>1, <3>9, <3>10
  <2>2. sent[t].up = sent[t]["up"] /\ got[t].down = got[t]["down"]
    BY DEF FrInv, FrTypes, Ways
  <2>3. Matches(Creates(sent[t].up), Creates(got[t].down))
    BY <2>2 DEF FrInv, Answered
  <2> QED  BY <2>1, <2>3 DEF Matches
<1> QED  BY <1>1, FrInvariance, PTL
=============================================================================
