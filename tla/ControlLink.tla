----------------------------- MODULE ControlLink -----------------------------
(***************************************************************************)
(* The control connection of the tunnel client (vpn/client/vnp_client.cpp):*)
(* start() connects, a thread reconnects whenever the epoll thread reports *)
(* the end of the connection, stop() ends both.                            *)
(*                                                                         *)
(* The reconnect thread waits on a condition variable without a predicate, *)
(* so that a notification is only heard by a thread that already waits.    *)
(***************************************************************************)
EXTENDS Naturals, FiniteSets

CONSTANTS MaxLinks,   \* how many control connections are made in all
          MaxOutages, \* how often the server becomes unreachable
          MaxLeaks    \* after how many leaked descriptors none is left

ASSUME LinkAssumption == MaxLinks \in Nat /\ MaxOutages \in Nat /\ MaxLeaks \in Nat

Links   == 1..MaxLinks
Dialers == {"main", "again"}   \* start() and the reconnect thread

VARIABLES
    link,    \* each connection: "none", "parked", "up" (in the epoll set), "ending", "ended"
    remote,  \* what the server did to it: "up", "fin", "rst"
    made,    \* how many connections were made
    at,      \* where the dialers are
    dialled, \* the connection each one has just made
    run,     \* m_re_connect
    server,  \* whether the server is reachable
    outages,
    leaked,  \* descriptors of failed connects, which nobody closes
    hist     \* history: unheard notifications, spurious wakeups

linkVars == <<link, remote, made, at, dialled, run, server, outages, leaked, hist>>

LinkInit ==
    /\ link = [c \in Links |-> "none"] /\ remote = [c \in Links |-> "up"] /\ made = 0
    /\ at = [main |-> "new", again |-> "none"]
    /\ dialled = [d \in Dialers |-> 0]
    /\ run = TRUE /\ server = TRUE /\ outages = 0 /\ leaked = 0
    /\ hist = {}

Proceed(d, place) == at' = [at EXCEPT ![d] = place]
Alive(c)       == link[c] \in {"parked", "up"}
Exhausted      == made = MaxLinks \/ leaked = MaxLeaks
-----------------------------------------------------------------------------
(***************************************************************************)
(* The server.                                                             *)
(***************************************************************************)
ServerVanishes == /\ server /\ outages < MaxOutages
                  /\ server' = FALSE /\ outages' = outages + 1
                  /\ UNCHANGED <<link, remote, made, at, dialled, run, leaked, hist>>

ServerReturns == /\ ~server /\ server' = TRUE
                 /\ UNCHANGED <<link, remote, made, at, dialled, run, outages, leaked, hist>>

ServerEnds(c) ==
    /\ Alive(c) /\ remote[c] = "up"
    /\ \E how \in {"fin", "rst"} : remote' = [remote EXCEPT ![c] = how]
    /\ UNCHANGED <<link, made, at, dialled, run, server, outages, leaked, hist>>
-----------------------------------------------------------------------------
(***************************************************************************)
(* connect_server, in start() and in the reconnect thread.                 *)
(***************************************************************************)
Dial(d) ==
    /\ at[d] = "connect" /\ server /\ ~Exhausted
    /\ made' = made + 1
    /\ link' = [link EXCEPT ![made'] = "parked"]
    /\ dialled' = [dialled EXCEPT ![d] = made']
    /\ Proceed(d, "add")
    /\ UNCHANGED <<remote, run, server, outages, leaked, hist>>

\* start(), which nobody has to call.
Start == /\ at.main = "new"
         /\ Proceed("main", "connect")
         /\ UNCHANGED <<link, remote, made, dialled, run, server, outages, leaked, hist>>

\* connect() returns without closing its socket; the next attempt is 5 s later.
DialFails(d) ==
    /\ at[d] = "connect" /\ ~server /\ leaked < MaxLeaks
    /\ leaked' = leaked + 1
    /\ UNCHANGED <<link, remote, made, at, dialled, run, server, outages, hist>>

\* Register, and into the epoll set.
Add(d) ==
    /\ at[d] = "add"
    /\ link' = [link EXCEPT ![dialled[d]] = "up"]
    /\ Proceed(d, IF d = "main" THEN "spawn" ELSE "test")
    /\ UNCHANGED <<remote, made, dialled, run, server, outages, leaked, hist>>

Spawn == /\ at.main = "spawn"
         /\ at' = [main |-> "idle", again |-> "test"]
         /\ UNCHANGED <<link, remote, made, dialled, run, server, outages, leaked, hist>>

\* Broken variant: the thread does not wait.
TestRunEager == /\ at.again = "test"
                /\ Proceed("again", IF run THEN "connect" ELSE "ended")
                /\ UNCHANGED <<link, remote, made, dialled, run, server, outages, leaked, hist>>

TestRun == /\ at.again = "test"
           /\ Proceed("again", IF run THEN "lock" ELSE "ended")
           /\ UNCHANGED <<link, remote, made, dialled, run, server, outages, leaked, hist>>

Await == /\ at.again = "lock"
         /\ Proceed("again", "wait")
         /\ UNCHANGED <<link, remote, made, dialled, run, server, outages, leaked, hist>>

WakesSpuriously ==
    /\ at.again = "wait"
    /\ Proceed("again", "connect")
    /\ hist' = hist \cup {"spurious"}
    /\ UNCHANGED <<link, remote, made, dialled, run, server, outages, leaked>>
-----------------------------------------------------------------------------
(***************************************************************************)
(* The epoll thread of the control connection.                             *)
(***************************************************************************)
EpollIdle == at.main # "stopped" /\ \A c \in Links : link[c] # "ending"

\* A notification is heard by a thread that waits; one that is dialling needs none.
Notify(label) ==
    IF at.again = "wait" THEN Proceed("again", "connect") /\ UNCHANGED hist
    ELSE UNCHANGED at /\ hist' = IF at.again \in {"none", "test", "lock"}
                                 THEN hist \cup {label} ELSE hist

\* Broken variant: any end of the connection goes unreported.
OnFinSilent(c) ==
    /\ EpollIdle /\ link[c] = "up" /\ remote[c] = "fin"
    /\ link' = [link EXCEPT ![c] = "ending"]
    /\ UNCHANGED <<remote, made, at, dialled, run, server, outages, leaked, hist>>

\* on_disconnected, before the descriptor is closed.
OnFin(c) ==
    /\ EpollIdle /\ link[c] = "up" /\ remote[c] = "fin"
    /\ link' = [link EXCEPT ![c] = "ending"]
    /\ Notify("unheard")
    /\ UNCHANGED <<remote, made, dialled, run, server, outages, leaked>>

CloseLink(c) ==
    /\ link[c] = "ending"
    /\ link' = [link EXCEPT ![c] = "ended"]
    /\ UNCHANGED <<remote, made, at, dialled, run, server, outages, leaked, hist>>

\* on_a_disconnected tells nobody.
OnReset(c) ==
    /\ EpollIdle /\ link[c] = "up" /\ remote[c] = "rst"
    /\ link' = [link EXCEPT ![c] = "ended"]
    /\ hist' = hist \cup {"reset"}
    /\ UNCHANGED <<remote, made, at, dialled, run, server, outages, leaked>>
-----------------------------------------------------------------------------
(***************************************************************************)
(* stop().                                                                 *)
(***************************************************************************)
Stop == /\ at.main = "idle"
        /\ run' = FALSE
        /\ Proceed("main", "notify")
        /\ UNCHANGED <<link, remote, made, dialled, server, outages, leaked, hist>>

\* Broken variant: stop() joins without a notification.
StopSilent == /\ at.main = "notify"
              /\ Proceed("main", "join")
              /\ UNCHANGED <<link, remote, made, dialled, run, server, outages, leaked, hist>>

\* The woken thread connects once more before it tests m_re_connect.
StopNotify ==
    /\ at.main = "notify"
    /\ at' = [main |-> "join", again |-> IF at.again = "wait" THEN "connect" ELSE at.again]
    /\ hist' = IF at.again = "lock" THEN hist \cup {"overslept"} ELSE hist
    /\ UNCHANGED <<link, remote, made, dialled, run, server, outages, leaked>>

StopJoin == /\ at.main = "join" /\ at.again = "ended"
            /\ Proceed("main", "stopped")
            /\ UNCHANGED <<link, remote, made, dialled, run, server, outages, leaked, hist>>
-----------------------------------------------------------------------------
Dialing == \E d \in Dialers : Dial(d) \/ Add(d)
LinkThreads == Spawn \/ TestRun \/ Await \/ StopNotify \/ StopJoin
EndLink == \E c \in Links : OnFin(c) \/ CloseLink(c) \/ OnReset(c)
Network == ServerVanishes \/ ServerReturns \/ \E c \in Links : ServerEnds(c)

LinkNext == \/ Start \/ Dialing \/ LinkThreads \/ EndLink \/ Network \/ Stop \/ WakesSpuriously
            \/ \E d \in Dialers : DialFails(d)

\* Threads are scheduled and the server comes back; it need not end connections,
\* and nobody has to stop the client.
LinkFair == /\ WF_linkVars(ServerReturns)
            /\ \A d \in Dialers : WF_linkVars(Dial(d) \/ Add(d))
            /\ WF_linkVars(Spawn \/ StopNotify \/ StopJoin)
            /\ WF_linkVars(TestRun \/ Await)
            /\ WF_linkVars(EndLink)

LinkSpec == LinkInit /\ [][LinkNext]_linkVars /\ LinkFair
-----------------------------------------------------------------------------
LinkTypeOK ==
    /\ link \in [Links -> {"none", "parked", "up", "ending", "ended"}]
    /\ remote \in [Links -> {"up", "fin", "rst"}]
    /\ made \in 0..MaxLinks /\ leaked \in 0..MaxLeaks /\ outages \in 0..MaxOutages
    /\ at.main \in {"new", "connect", "add", "spawn", "idle", "notify", "join", "stopped"}
    /\ at.again \in {"none", "connect", "add", "test", "lock", "wait", "ended"}
    /\ dialled \in [Dialers -> 0..MaxLinks]
    /\ run \in BOOLEAN /\ server \in BOOLEAN
    /\ hist \subseteq {"unheard", "overslept", "reset", "spurious"}
    /\ \A c \in Links : link[c] = "parked" => \E d \in Dialers : at[d] = "add" /\ dialled[d] = c

\* The client has one control connection at a time: a second one is only made
\* after a spurious wakeup, or by stop(), whose notification the reconnect thread
\* takes for the end of the connection.
OneControlLink ==
    Cardinality({c \in Links : Alive(c)}) <= 1 \/ "spurious" \in hist \/ ~run

\* A client whose connection has ended gets a new one, unless it was reset, the
\* notification found nobody waiting, the client is stopped, or failed connects
\* used up the descriptors (or the bound on connections is reached).
Reconnects ==
    (at.main = "idle" /\ \A c \in Links : link[c] # "up")
        ~> \/ \E c \in Links : link[c] = "up"
           \/ hist \cap {"unheard", "reset"} # {} \/ ~run \/ Exhausted

\* stop() returns, unless it notified between the test of m_re_connect and the
\* wait, or the thread it woke can no longer connect.
StopReturns == ~run ~> (at.main = "stopped" \/ "overslept" \in hist \/ Exhausted)
=============================================================================
