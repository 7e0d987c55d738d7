-------------------------------- MODULE Ring --------------------------------
(***************************************************************************)
(* The ring of pointers shared by producers and consumers (dpdk_ring):     *)
(* a side claims places by moving its head, copies the pointers, and       *)
(* publishes them by moving its tail, in the order of the claims.          *)
(*                                                                         *)
(* The indexes run modulo IndexModulus (2^32 in the code) and are masked   *)
(* only to reach a cell.  An object is named by the place its producer     *)
(* claimed for it, counted from the creation of the ring without wrapping. *)
(***************************************************************************)
EXTENDS Integers, FiniteSets

CONSTANTS Producers, Consumers,
          Counts,       \* sizes a ring is asked for
          Flags,        \* values of RING_F_SP_ENQ and RING_F_SC_DEQ
          IndexModulus, \* the indexes are unsigned integers below this bound
          Ages,         \* how many objects may have passed before the ones that are followed
          MaxAtOnce,    \* the longest table a caller passes
          MaxActive,    \* how many threads are inside at a time
          MaxObjects    \* how many places the producers claim in all

\* (x - 1) & x = 0, which is also true of 0.
PowerOf2(x) == x = 0 \/ \E k \in 0 .. x : x = 2 ^ k
SizeMask    == IndexModulus \div 2 - 1   \* RTE_RING_SZ_MASK

\* The indexes are masked, so the size of a ring divides the number of their values.
ASSUME RingAssumption ==
    /\ IndexModulus \in Nat \ {0} /\ MaxAtOnce \in Nat
    /\ \A n \in Counts : n \in Nat /\ (PowerOf2(n) /\ n # 0 => IndexModulus % n = 0)
    /\ Ages \subseteq Nat /\ Flags \subseteq BOOLEAN
    /\ Producers \cap Consumers = {}

RingUsers == Producers \cup Consumers

VARIABLES
    made,    \* whether the ring exists, and with which size
    head,    \* [prod, cons -> index]: where the next claim starts
    tail,    \* [prod, cons -> index]: what the other side may use
    single,  \* [prod, cons -> BOOLEAN], the flags of the ring
    ring,    \* the cells behind the header
    user,    \* each thread: where it is and its locals
    counter, \* a thread in rte_ring_count, with the first tail it has loaded
    claimed, \* history: [prod, cons -> Nat], the heads without wrapping
    lapped   \* history: a head was moved from a value it had one lap before

ringVars == <<made, head, tail, single, ring, user, counter, claimed, lapped>>

RingSides  == {"prod", "cons"}
SideOf(u)  == IF u \in Producers THEN "prod" ELSE "cons"
Other(s)   == IF s = "prod" THEN "cons" ELSE "prod"
Mod(x)     == x % IndexModulus
Capacity   == made - 1              \* size - 1: one cell stays empty
Cell(x)    == x % made              \* x & mask
Empty      == -1                    \* no pointer yet
IdleUser   == [at |-> "idle", single |-> FALSE, fixed |-> TRUE, max |-> 0, n |-> 0,
               old |-> 0, seen |-> 0, i |-> 0]
NoCount    == [at |-> "idle", prod |-> 0, seen |-> 0]
Unused     == counter = NoCount /\ \A u \in RingUsers : user[u] = IdleUser

RingInit ==
    /\ made = 0
    /\ head = [s \in RingSides |-> 0] /\ tail = head
    /\ single = [s \in RingSides |-> FALSE]
    /\ ring = <<>>
    /\ user = [u \in RingUsers |-> IdleUser] /\ counter = NoCount
    /\ claimed = [s \in RingSides |-> 0] /\ lapped = FALSE

\* rte_ring_get_memsize answers 0 for a count that is no power of two or too large.  A
\* ring of 0 has no cells; nobody can use it, since any pointer would be copied behind it.
CreateRing(count, sp, sc) ==
    /\ made = 0 /\ PowerOf2(count) /\ count <= SizeMask
    /\ made' = count
    /\ single' = [prod |-> sp, cons |-> sc]
    /\ ring' = [c \in 0 .. count - 1 |-> Empty]
    /\ UNCHANGED <<head, tail, user, counter, claimed, lapped>>

\* An empty ring that n objects have passed one by one.
PassObjects(n) ==
    /\ made # 0 /\ Unused
    /\ \A s \in RingSides : head[s] = 0 /\ claimed[s] = 0
    /\ head' = [s \in RingSides |-> Mod(n)] /\ tail' = head'
    /\ UNCHANGED <<made, single, ring, user, counter, claimed, lapped>>

\* rte_ring_destory: nobody may be using the ring.
DestroyRing ==
    /\ made # 0 /\ Unused
    /\ claimed["prod"] = MaxObjects \* bound: not before it has been used
    /\ made' = 0 /\ head' = [s \in RingSides |-> 0] /\ tail' = head'
    /\ ring' = <<>> /\ claimed' = [s \in RingSides |-> 0] /\ lapped' = FALSE
    /\ UNCHANGED <<single, user, counter>>
-----------------------------------------------------------------------------
(***************************************************************************)
(* The functions of the interface: what each passes to do_enqueue or       *)
(* do_dequeue.  Only the plain ones look at the flags of the ring.         *)
(***************************************************************************)
Passes(behavior, isSingle, most) ==
    [fixed |-> behavior = "fixed", single |-> isSingle, most |-> most]

rte_ring_mp_enqueue_bulk  == Passes("fixed", FALSE, MaxAtOnce)
rte_ring_sp_enqueue_bulk  == Passes("fixed", TRUE, MaxAtOnce)
rte_ring_enqueue_bulk     == Passes("fixed", single["prod"], MaxAtOnce)
rte_ring_mp_enqueue       == [rte_ring_mp_enqueue_bulk EXCEPT !.most = 1]
rte_ring_sp_enqueue       == [rte_ring_sp_enqueue_bulk EXCEPT !.most = 1]
rte_ring_enqueue          == [rte_ring_enqueue_bulk EXCEPT !.most = 1]
rte_ring_mp_enqueue_burst == Passes("variable", FALSE, MaxAtOnce)
rte_ring_sp_enqueue_burst == Passes("variable", TRUE, MaxAtOnce)
rte_ring_enqueue_burst    == Passes("variable", single["prod"], MaxAtOnce)
rte_ring_mc_dequeue_bulk  == Passes("fixed", FALSE, MaxAtOnce)
rte_ring_sc_dequeue_bulk  == Passes("fixed", TRUE, MaxAtOnce)
rte_ring_dequeue_bulk     == Passes("fixed", single["cons"], MaxAtOnce)
rte_ring_mc_dequeue       == [rte_ring_mc_dequeue_bulk EXCEPT !.most = 1]
rte_ring_sc_dequeue       == [rte_ring_sc_dequeue_bulk EXCEPT !.most = 1]
rte_ring_dequeue          == [rte_ring_dequeue_bulk EXCEPT !.most = 1]
rte_ring_mc_dequeue_burst == Passes("variable", FALSE, MaxAtOnce)
rte_ring_sc_dequeue_burst == Passes("variable", TRUE, MaxAtOnce)
rte_ring_dequeue_burst    == Passes("variable", single["cons"], MaxAtOnce)

Functions(s) ==
    IF s = "prod"
    THEN {rte_ring_mp_enqueue_bulk, rte_ring_sp_enqueue_bulk, rte_ring_enqueue_bulk,
          rte_ring_mp_enqueue, rte_ring_sp_enqueue, rte_ring_enqueue,
          rte_ring_mp_enqueue_burst, rte_ring_sp_enqueue_burst, rte_ring_enqueue_burst}
    ELSE {rte_ring_mc_dequeue_bulk, rte_ring_sc_dequeue_bulk, rte_ring_dequeue_bulk,
          rte_ring_mc_dequeue, rte_ring_sc_dequeue, rte_ring_dequeue,
          rte_ring_mc_dequeue_burst, rte_ring_sc_dequeue_burst, rte_ring_dequeue_burst}

\* The single functions are documented as not safe beside others of their side.
Fellows(u) == {v \in RingUsers \ {u} : SideOf(v) = SideOf(u) /\ user[v].at # "idle"}

InTheRing == Cardinality({v \in RingUsers : user[v].at # "idle"}) + (IF counter.at = "idle" THEN 0 ELSE 1)

\* The thread has loaded the head of its side.
Loaded(u, me) == [me EXCEPT !.at = "room", !.old = head[SideOf(u)], !.seen = claimed[SideOf(u)]]

\* The call and its first load of the head, before which it touches nothing shared.
Call(u, f, n) ==
    /\ made # 0 /\ user[u].at = "idle" /\ f \in Functions(SideOf(u)) /\ n \in 1 .. f.most
    /\ InTheRing < MaxActive \* bound
    /\ IF f.single THEN Fellows(u) = {} ELSE \A v \in Fellows(u) : ~user[v].single
    /\ user' = [user EXCEPT ![u] = [Loaded(u, IdleUser) EXCEPT !.single = f.single, !.fixed = f.fixed,
                                                              !.max = n]]
    /\ UNCHANGED <<made, head, tail, single, ring, counter, claimed, lapped>>
-----------------------------------------------------------------------------
(***************************************************************************)
(* __rte_ring_move_prod_head and __rte_ring_move_cons_head.                *)
(***************************************************************************)
LoadHead(u) ==
    /\ user[u].at = "load"
    /\ user' = [user EXCEPT ![u] = Loaded(u, @)]
    /\ UNCHANGED <<made, head, tail, single, ring, counter, claimed, lapped>>

\* free_entries of a producer, entries of a consumer.
Room(u) == LET old == user[u].old IN
           IF u \in Producers THEN Mod(Capacity + tail["cons"] - old)
                              ELSE Mod(tail["prod"] - old)

LoadRoom(u) ==
    /\ user[u].at = "room"
    /\ LET me == user[u]
           n  == IF me.max <= Room(u) THEN me.max ELSE IF me.fixed THEN 0 ELSE Room(u)
       IN user' = [user EXCEPT ![u] = IF n = 0 THEN IdleUser
                                      ELSE [me EXCEPT !.at = "move", !.n = n]]
    /\ UNCHANGED <<made, head, tail, single, ring, counter, claimed, lapped>>

MoveHead(u) ==
    LET s == SideOf(u)  me == user[u] IN
    /\ me.at = "move" /\ (me.single \/ head[s] = me.old)
    /\ s = "prod" => claimed[s] + me.n <= MaxObjects \* bound
    /\ head' = [head EXCEPT ![s] = Mod(me.old + me.n)]
    /\ claimed' = [claimed EXCEPT ![s] = @ + me.n]
    /\ lapped' = (lapped \/ me.seen # claimed[s])
    /\ user' = [user EXCEPT ![u] = [IdleUser EXCEPT !.at = "copy", !.single = me.single,
                                    !.n = me.n, !.old = me.old, !.seen = me.seen]]
    /\ UNCHANGED <<made, tail, single, ring, counter>>

MoveHeadFails(u) ==
    /\ user[u].at = "move" /\ ~user[u].single /\ head[SideOf(u)] # user[u].old
    /\ user' = [user EXCEPT ![u].at = "load", ![u].n = 0, ![u].old = 0, ![u].seen = 0]
    /\ UNCHANGED <<made, head, tail, single, ring, counter, claimed, lapped>>
-----------------------------------------------------------------------------
(***************************************************************************)
(* ENQUEUE_PTRS, DEQUEUE_PTRS and update_tail.                             *)
(***************************************************************************)
CopyPointer(u) ==
    LET me == user[u] IN
    /\ me.at = "copy" /\ me.i < me.n
    /\ user' = [user EXCEPT ![u].i = me.i + 1]
    /\ ring' = IF u \in Producers THEN [ring EXCEPT ![Cell(me.old + me.i)] = me.seen + me.i]
                                  ELSE ring
    /\ UNCHANGED <<made, head, tail, single, counter, claimed, lapped>>

Publish(u) ==
    LET me == user[u] IN
    /\ me.at = "copy" /\ me.i = me.n
    /\ tail' = [tail EXCEPT ![SideOf(u)] = Mod(me.old + me.n)]
    /\ user' = [user EXCEPT ![u] = IdleUser]
    /\ UNCHANGED <<made, head, single, ring, counter, claimed, lapped>>

\* Broken variant: the claims before this one are not waited for.
UpdateTailAtOnce(u) == Publish(u)

UpdateTail(u) == (user[u].single \/ tail[SideOf(u)] = user[u].old) /\ Publish(u)

do_enqueue(u) == u \in Producers /\ \/ LoadHead(u) \/ LoadRoom(u)
                                    \/ MoveHead(u) \/ MoveHeadFails(u)
                                    \/ CopyPointer(u) \/ UpdateTail(u)
do_dequeue(u) == u \in Consumers /\ \/ LoadHead(u) \/ LoadRoom(u)
                                    \/ MoveHead(u) \/ MoveHeadFails(u)
                                    \/ CopyPointer(u) \/ UpdateTail(u)

-----------------------------------------------------------------------------
(***************************************************************************)
(* rte_ring_count and the functions that call it: the tail of the          *)
(* producers is loaded first, that of the consumers in a second step.      *)
(***************************************************************************)
\* The tail of a side without wrapping: its head less what is claimed and not published.
Published(s) == claimed[s] - Mod(head[s] - tail[s])

LoadProdTail ==
    /\ made # 0 /\ counter.at = "idle"
    /\ InTheRing < MaxActive \* bound
    /\ counter' = [at |-> "half", prod |-> tail["prod"], seen |-> Published("prod")]
    /\ UNCHANGED <<made, head, tail, single, ring, user, claimed, lapped>>

\* What is returned if the other tail is loaded now.
rte_ring_count      == LET count == Mod(counter.prod - tail["cons"]) % made
                       IN IF count > Capacity THEN Capacity ELSE count
rte_ring_free_count == Capacity - rte_ring_count
rte_ring_full       == rte_ring_free_count = 0
rte_ring_empty      == rte_ring_count = 0

LoadConsTail ==
    /\ counter.at = "half"
    /\ counter' = NoCount
    /\ UNCHANGED <<made, head, tail, single, ring, user, claimed, lapped>>

RingNext ==
    \/ \E count \in Counts, sp, sc \in Flags : CreateRing(count, sp, sc)
    \/ DestroyRing
    \/ \E n \in Ages : PassObjects(n)
    \/ \E u \in RingUsers :
          \/ \E f \in Functions(SideOf(u)), n \in 1 .. MaxAtOnce : Call(u, f, n)
          \/ do_enqueue(u) \/ do_dequeue(u)
    \/ LoadProdTail \/ LoadConsTail

RingSpec == RingInit /\ [][RingNext]_ringVars
-----------------------------------------------------------------------------
\* What a consumer finds in each cell it has claimed, until it has published its claim,
\* is the object of that place: it was written before and is not overwritten yet,
\* whatever the interleaving of the copies, as long as no thread slept for a whole
\* lap of the indexes between the load of a head and its compare-and-exchange.
FifoOrder ==
    ~lapped => \A u \in Consumers :
        user[u].at = "copy" =>
            \A j \in 0 .. user[u].n - 1 : ring[Cell(user[u].old + j)] = user[u].seen + j

\* The four indexes never pass each other, and at most size - 1 places are in use.
IndexesKeepOrder ==
    (made # 0 /\ ~lapped) =>
        /\ Published("cons") <= claimed["cons"] /\ claimed["cons"] <= Published("prod")
        /\ Published("prod") <= claimed["prod"]
        /\ claimed["prod"] <= Published("cons") + Capacity

\* rte_ring_count, which masks a difference of two wrapped indexes loaded one after the
\* other, answers how many of the objects published before its first load have not been
\* given back before its second: what it counts is in the ring, and when it says that the
\* ring is full, it is.  The exception is a count between whose loads the consumers gave
\* back more than it had seen published: the difference is negative, and masked.
CountIsExact ==
    (counter.at = "half" /\ ~lapped /\ Published("cons") <= counter.seen) =>
        /\ rte_ring_count = counter.seen - Published("cons")
        /\ rte_ring_count <= Published("prod") - Published("cons")
        /\ rte_ring_full => Published("prod") = Published("cons") + Capacity

\* The ring is a bounded queue, whatever the interleaving and however the indexes wrap.
RingIsFifo == FifoOrder /\ IndexesKeepOrder /\ CountIsExact

\* "Test if a ring is full. 1: The ring is full." (rte_ring.h).  Not so when an object
\* came and went between the two loads of the tails: 0 - 1, masked, is size - 1.
FullIsFull ==
    (counter.at = "half" /\ ~lapped /\ rte_ring_full) =>
        Published("prod") = Published("cons") + Capacity
=============================================================================
