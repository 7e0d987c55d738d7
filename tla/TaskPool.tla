------------------------------ MODULE TaskPool ------------------------------
(***************************************************************************)
(* What a thread pool promises its caller: a task that is accepted starts  *)
(* at most once, in the order of acceptance, and ends once; a task that is *)
(* dropped never runs.  The pool of thread_pool.cpp implements it.         *)
(***************************************************************************)
EXTENDS Naturals, Sequences

CONSTANTS Tasks,
          Drains   \* the pool runs what is queued before it ends

VARIABLES queue, running, done, dropped, open

vars == <<queue, running, done, dropped, open>>

Queued   == {queue[i] : i \in 1..Len(queue)}
Fresh(t) == t \notin Queued \cup running \cup done \cup dropped

Init == queue = <<>> /\ running = {} /\ done = {} /\ dropped = {} /\ open = TRUE

Submit(t) == /\ Fresh(t)
             /\ queue' = Append(queue, t)
             /\ UNCHANGED <<running, done, dropped, open>>

\* No room, or no memory.
Refuse(t) == /\ Fresh(t)
             /\ dropped' = dropped \cup {t}
             /\ UNCHANGED <<queue, running, done, open>>

Start == /\ queue # <<>>
         /\ queue' = Tail(queue)
         /\ running' = running \cup {Head(queue)}
         /\ UNCHANGED <<done, dropped, open>>

Finish(t) == /\ t \in running
             /\ running' = running \ {t}
             /\ done' = done \cup {t}
             /\ UNCHANGED <<queue, dropped, open>>

Close == /\ open' = FALSE
         /\ UNCHANGED <<queue, running, done, dropped>>

\* The rest of the queue is thrown away, when nothing runs any more.
Discard == /\ ~Drains /\ ~open /\ running = {}
           /\ dropped' = dropped \cup Queued
           /\ queue' = <<>>
           /\ UNCHANGED <<running, done, open>>

Next == \/ \E t \in Tasks : Submit(t) \/ Refuse(t) \/ Finish(t)
        \/ Start \/ Close \/ Discard

Spec == Init /\ [][Next]_vars
=============================================================================
