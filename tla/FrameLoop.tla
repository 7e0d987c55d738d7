------------------------------ MODULE FrameLoop ------------------------------
(***************************************************************************)
(* The frames of the control connections: what the tunnel client           *)
(* (vpn/client/vnp_client.cpp, main_client_event) and the tunnel server    *)
(* (vpn/server/business_server.cpp) cut out of the byte streams between    *)
(* them, and what they answer.  The streams arrive in pieces of any size.  *)
(*                                                                         *)
(* The loop of on_recv_data has one exit, for less than a head; with a     *)
(* head but not the whole frame it spins for ever.                         *)
(*                                                                         *)
(* Lengths are in units of two bytes for a head and scaled down for the    *)
(* bodies; the buffer of 8 KiB never holds a whole frame between two reads.*)
(***************************************************************************)
EXTENDS Naturals, Sequences, SequencesExt

CONSTANTS Tunnels,   \* control connections, one for each client
          MaxCreate  \* how many connections the server asks for in all

Ways == {"up", "down"}  \* to the server, to the client
HeadLen == 2
Size(f) == IF f.type = "register" THEN 3 ELSE 4

VARIABLES
    sent,  \* the frames written to each stream
    taken, \* how many of their bytes were received
    buf,   \* m_buff[0 .. m_buff_len)
    deal,  \* deal_len in the on_recv_data call that is running
    where, \* "wait" for data, or in the "loop"
    got    \* history: the frames handled

frVars == <<sent, taken, buf, deal, where, got>>

FrInit == /\ sent = [t \in Tunnels |-> [w \in Ways |-> <<>>]]
          /\ taken = [t \in Tunnels |-> [w \in Ways |-> 0]]
          /\ buf = [t \in Tunnels |-> [w \in Ways |-> <<>>]]
          /\ deal = [t \in Tunnels |-> [w \in Ways |-> 0]]
          /\ where = [t \in Tunnels |-> [w \in Ways |-> "wait"]]
          /\ got = [t \in Tunnels |-> [w \in Ways |-> <<>>]]

\* The bytes of a stream: each is a position in a frame.
Stream(t, w) == FlattenSeq([k \in 1..Len(sent[t][w]) |->
                               [j \in 1..Size(sent[t][w][k]) |-> <<k, j>>]])

Register(id)      == [type |-> "register", id |-> id, flag |-> FALSE]
Create(n, answer) == [type |-> "create", id |-> n, flag |-> answer]
Write(t, w, f)    == sent' = [sent EXCEPT ![t][w] = Append(@, f)]

\* The frames of q that ask for a connection or answer that: SelectSeq, spelt out.
Creates(q) ==
    LET among[n \in 0..Len(q)] == IF n = 0 THEN <<>>
                                  ELSE IF q[n].type = "create" THEN Append(among[n - 1], q[n])
                                  ELSE among[n - 1]
    IN among[Len(q)]
-----------------------------------------------------------------------------
\* on_connected of the client: register, with no id yet.
OnConnected(t) == /\ sent[t].up = <<>>
                  /\ Write(t, "up", Register(0))
                  /\ UNCHANGED <<taken, buf, deal, where, got>>

\* send_create_channel_msg, from the thread that accepted a user.
AskForConnection(t) ==
    LET n == Len(Creates(sent[t].down)) + 1 IN
    /\ sent[t].up # <<>>
    /\ FoldSet(LAMBDA u, sum : sum + Len(Creates(sent[u].down)), 0, Tunnels) < MaxCreate
    /\ Write(t, "down", Create(n, FALSE))
    /\ UNCHANGED <<taken, buf, deal, where, got>>

\* One thread serves the control connections of all clients.
ThreadFree(w) == w = "up" => \A t \in Tunnels : where[t].up = "wait"

\* recv in run_epoll: any part of what is under way.
RecvData(t, w) ==
    LET s == Stream(t, w) IN
    /\ where[t][w] = "wait" /\ ThreadFree(w)
    /\ \E n \in 1..(Len(s) - taken[t][w]) :
           /\ taken' = [taken EXCEPT ![t][w] = @ + n]
           /\ buf' = [buf EXCEPT ![t][w] = @ \o SubSeq(s, taken[t][w] + 1, taken[t][w] + n)]
    /\ where' = [where EXCEPT ![t][w] = "loop"]
    /\ deal' = [deal EXCEPT ![t][w] = 0]
    /\ UNCHANGED <<sent, got>>

Rest(t, w) == SubSeq(buf[t][w], deal[t][w] + 1, Len(buf[t][w]))

\* need_len of what is at the head of the rest; garbage where no frame begins.
NextFrame(t, w)   == IF Rest(t, w)[1][2] = 1 THEN sent[t][w][Rest(t, w)[1][1]]
                     ELSE [type |-> "garbage", id |-> 0, flag |-> FALSE]
HasHead(t, w)  == where[t][w] = "loop" /\ Len(Rest(t, w)) >= HeadLen
HasFrame(t, w) == HasHead(t, w) /\ Len(Rest(t, w)) >= Size(NextFrame(t, w))
Spins(t, w)    == HasHead(t, w) /\ ~HasFrame(t, w)

\* deal_data of the server: registration is answered with the id of the client.
ServerDeals(t, f) == IF f.type = "register" THEN Write(t, "down", Register(1)) ELSE UNCHANGED sent

\* deal_data of the client: it connects to both ends, and says whether that went well.
ClientDeals(t, f) == IF f.type = "create" THEN \E ok \in BOOLEAN : Write(t, "up", Create(f.id, ok))
                     ELSE UNCHANGED sent

Handle(t, w) ==
    LET f == NextFrame(t, w) IN
    /\ HasFrame(t, w)
    /\ deal' = [deal EXCEPT ![t][w] = @ + Size(f)]
    /\ got' = [got EXCEPT ![t][w] = Append(@, f)]
    /\ IF w = "up" THEN ServerDeals(t, f) ELSE ClientDeals(t, f)
    /\ UNCHANGED <<taken, buf, where>>

\* Broken variant: the rest of the bytes stays behind those that were dealt with.
ReturnUnmoved(t, w) ==
    /\ where[t][w] = "loop" /\ ~HasHead(t, w)
    /\ where' = [where EXCEPT ![t][w] = "wait"]
    /\ buf' = [buf EXCEPT ![t][w] = SubSeq(@, 1, Len(Rest(t, w)))]
    /\ UNCHANGED <<sent, taken, deal, got>>

\* Less than a head: run_epoll moves it to the front of the buffer.
Return(t, w) ==
    /\ where[t][w] = "loop" /\ ~HasHead(t, w)
    /\ where' = [where EXCEPT ![t][w] = "wait"]
    /\ buf' = [buf EXCEPT ![t][w] = Rest(t, w)]
    /\ UNCHANGED <<sent, taken, deal, got>>
-----------------------------------------------------------------------------
Serves(w) == \E t \in Tunnels : RecvData(t, w) \/ Handle(t, w) \/ Return(t, w)

FrNext == \E t \in Tunnels : \/ OnConnected(t) \/ AskForConnection(t)
                             \/ \E w \in Ways : RecvData(t, w) \/ Handle(t, w) \/ Return(t, w)

\* The one thread of the server, which takes whatever connection is ready, and the
\* thread of each client.
FrFair == \A t \in Tunnels : /\ WF_frVars(Handle(t, "up") \/ Return(t, "up"))
                             /\ SF_frVars(RecvData(t, "up"))
                             /\ WF_frVars(RecvData(t, "down") \/ Handle(t, "down") \/ Return(t, "down"))

FrSpec == FrInit /\ [][FrNext]_frVars /\ FrFair
-----------------------------------------------------------------------------
\* However the streams are cut, on_recv_data hands deal_data exactly the frames that
\* were sent, in order; the client answers each request it handled, once and in
\* order; and no more than a part of a head is kept, so that recv always has room.
FramesInOrder ==
    \A t \in Tunnels :
        /\ \A w \in Ways : /\ IsPrefix(got[t][w], sent[t][w])
                           /\ where[t][w] = "wait" => Len(buf[t][w]) < HeadLen
        /\ LET asked == Creates(got[t].down)  told == Creates(sent[t].up)
           IN Len(told) = Len(asked) /\ \A n \in 1..Len(told) : told[n].id = asked[n].id

\* Whatever was sent is handled (sending is bounded here), unless on_recv_data met a head
\* without the rest of its frame: on the server, that of any client stops the service of all.
FramesAreHandled ==
    \A t \in Tunnels, w \in Ways :
        (got[t][w] # sent[t][w])
            ~> \/ got[t][w] = sent[t][w]
               \/ IF w = "up" THEN \E u \in Tunnels : Spins(u, "up") ELSE Spins(t, "down")
=============================================================================
