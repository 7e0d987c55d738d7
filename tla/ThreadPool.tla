----------------------------- MODULE ThreadPool -----------------------------
(***************************************************************************)
(* The C thread pool of pools/thread_pool/thread_pool.cpp: a queue under a *)
(* spin lock, workers that sleep on a condition variable, and the thread   *)
(* that owns the pool, which creates it, pushes, and destroys it.          *)
(*                                                                         *)
(* A section under the spin lock or the mutex is one step: neither blocks  *)
(* inside, so the locks themselves have no state here.  The caller keeps   *)
(* the rules of the interface: one thread uses the pool, and nothing is    *)
(* pushed once it is destroyed.                                            *)
(***************************************************************************)
EXTENDS Naturals, Sequences

CONSTANTS NWorkers, Tasks, NoTask

ASSUME PoolAssumption == /\ NWorkers \in Nat \ {0}  \* sh_create_thread_pool: count <= 0 is refused
                         /\ NoTask \notin Tasks

Workers == 1..NWorkers

VARIABLES
    queue,      \* task_queue, from head to tail
    quit,       \* pool->quit
    worker,     \* where each worker is in thread_work
    holds,      \* the task each worker runs
    owner,      \* where the owner is
    created,    \* threads created, pool->th_count in the end
    joined,     \* threads joined
    pushed,     \* tasks given to sh_push_thread_pool
    done,       \* tasks whose function returned
    dropped,    \* tasks freed unrun, or never queued for want of memory
    overlooked  \* history: a worker went to sleep while the queue was not empty

vars == <<queue, quit, worker, holds, owner, created, joined, pushed, done, dropped, overlooked>>

tasks   == <<pushed, done, dropped>>
threads == <<created, joined>>

Init ==
    /\ queue = <<>> /\ quit = FALSE
    /\ worker = [w \in Workers |-> "none"]
    /\ holds = [w \in Workers |-> NoTask]
    /\ owner = "create" /\ created = 0 /\ joined = 0
    /\ pushed = {} /\ done = {} /\ dropped = {} /\ overlooked = FALSE

Sleepers == {w \in Workers : worker[w] = "wait"}
Wake(S)  == worker' = [w \in Workers |-> IF w \in S THEN "check" ELSE worker[w]]
Queued   == {queue[i] : i \in 1..Len(queue)}
Running  == {holds[w] : w \in {v \in Workers : worker[v] = "run"}}
-----------------------------------------------------------------------------
(***************************************************************************)
(* The owner: sh_create_thread_pool, sh_push_thread_pool,                  *)
(* sh_waitdone_thread_pool, sh_destory_thread_pool.                        *)
(***************************************************************************)
CreateThread ==
    /\ owner = "create"
    /\ created' = created + 1
    /\ worker' = [worker EXCEPT ![created + 1] = "check"]
    /\ owner' = IF created + 1 = NWorkers THEN "idle" ELSE "create"
    /\ UNCHANGED <<queue, quit, holds, joined, tasks, overlooked>>

\* pthread_create fails: the threads created so far are to be joined.
CreateFails ==
    /\ owner = "create"
    /\ owner' = "rollback"
    /\ UNCHANGED <<queue, quit, worker, holds, threads, tasks, overlooked>>

\* They are joined as they are: nobody has told them to quit.  Then everything
\* is freed, and the caller gets a null pointer.
Rollback ==
    /\ owner = "rollback" /\ \A w \in 1..created : worker[w] = "exited"
    /\ joined' = created
    /\ owner' = "failed"
    /\ UNCHANGED <<queue, quit, worker, holds, created, tasks, overlooked>>

CanCall == owner \in {"idle", "waited"}

Push(t) ==
    /\ CanCall /\ t \in Tasks \ pushed
    /\ pushed' = pushed \cup {t}
    /\ queue' = Append(queue, t)
    /\ owner' = "signal"
    /\ UNCHANGED <<quit, worker, holds, threads, done, dropped, overlooked>>

\* No memory for the task: push_task returns nothing, and the caller sees success.
PushFails(t) ==
    /\ CanCall /\ t \in Tasks \ pushed
    /\ pushed' = pushed \cup {t}
    /\ dropped' = dropped \cup {t}
    /\ owner' = "signal"
    /\ UNCHANGED <<queue, quit, worker, holds, threads, done, overlooked>>

\* Broken variant: the signal wakes nobody.
SignalNobody == /\ owner = "signal" /\ owner' = "idle"
                /\ UNCHANGED <<queue, quit, worker, holds, threads, tasks, overlooked>>

\* The signal is for a worker that already waits; else it is gone.
Signal ==
    /\ owner = "signal"
    /\ owner' = "idle"
    /\ IF Sleepers = {} THEN UNCHANGED worker ELSE \E w \in Sleepers : Wake({w})
    /\ UNCHANGED <<queue, quit, holds, threads, tasks, overlooked>>

\* It has no body.
Waitdone ==
    /\ owner = "idle"
    /\ owner' = "waited"
    /\ UNCHANGED <<queue, quit, worker, holds, threads, tasks, overlooked>>

Destroy ==
    /\ CanCall
    /\ quit' = TRUE
    /\ owner' = "broadcast"
    /\ UNCHANGED <<queue, worker, holds, threads, tasks, overlooked>>

Broadcast ==
    /\ owner = "broadcast"
    /\ owner' = "join"
    /\ Wake(Sleepers)
    /\ UNCHANGED <<queue, quit, holds, threads, tasks, overlooked>>

Join ==
    /\ owner = "join" /\ joined < created /\ worker[joined + 1] = "exited"
    /\ joined' = joined + 1
    /\ UNCHANGED <<queue, quit, worker, holds, owner, created, tasks, overlooked>>

\* Broken variant: the queue is destroyed without waiting for the last thread.
FreeEarly ==
    /\ owner = "join" /\ joined + 1 = created
    /\ owner' = "destroyed"
    /\ queue' = <<>> /\ dropped' = dropped \cup Queued
    /\ UNCHANGED <<quit, worker, holds, threads, pushed, done, overlooked>>

\* The tasks still in the queue are freed unrun, and the pool with them.
Free ==
    /\ owner = "join" /\ joined = created
    /\ owner' = "destroyed"
    /\ queue' = <<>> /\ dropped' = dropped \cup Queued
    /\ UNCHANGED <<quit, worker, holds, threads, pushed, done, overlooked>>
-----------------------------------------------------------------------------
(***************************************************************************)
(* thread_work.                                                            *)
(***************************************************************************)
Goto(w, at) == worker' = [worker EXCEPT ![w] = at]

\* The loop condition, read without the mutex.
Check(w) ==
    /\ worker[w] = "check"
    /\ Goto(w, IF quit THEN "exited" ELSE "pop")
    /\ UNCHANGED <<queue, quit, holds, owner, threads, tasks, overlooked>>

PopEmpty(w) ==
    /\ worker[w] = "pop" /\ queue = <<>>
    /\ Goto(w, "lock")
    /\ UNCHANGED <<queue, quit, holds, owner, threads, tasks, overlooked>>

\* Broken variant: the newest task is taken.
PopLast(w) ==
    /\ worker[w] = "pop" /\ queue # <<>>
    /\ Goto(w, "run")
    /\ holds' = [holds EXCEPT ![w] = queue[Len(queue)]]
    /\ queue' = SubSeq(queue, 1, Len(queue) - 1)
    /\ UNCHANGED <<quit, owner, threads, tasks, overlooked>>

Pop(w) ==
    /\ worker[w] = "pop" /\ queue # <<>>
    /\ Goto(w, "run")
    /\ holds' = [holds EXCEPT ![w] = Head(queue)]
    /\ queue' = Tail(queue)
    /\ UNCHANGED <<quit, owner, threads, tasks, overlooked>>

\* The function returns and the task is freed.
Finish(w) ==
    /\ worker[w] = "run"
    /\ Goto(w, "check")
    /\ done' = done \cup {holds[w]}
    /\ holds' = [holds EXCEPT ![w] = NoTask]
    /\ UNCHANGED <<queue, quit, owner, threads, pushed, dropped, overlooked>>

\* Broken variant: quit is not tested again under the mutex.
SleepUnchecked(w) ==
    /\ worker[w] = "lock"
    /\ Goto(w, "wait")
    /\ overlooked' = (overlooked \/ queue # <<>>)
    /\ UNCHANGED <<queue, quit, holds, owner, threads, tasks>>

\* Under the mutex quit is tested again, but the queue is not.
Sleep(w) ==
    /\ worker[w] = "lock"
    /\ Goto(w, IF quit THEN "exited" ELSE "wait")
    /\ overlooked' = (overlooked \/ (~quit /\ queue # <<>>))
    /\ UNCHANGED <<queue, quit, holds, owner, threads, tasks>>

\* pthread_cond_wait may return without a signal.
SpuriousWakeup(w) ==
    /\ worker[w] = "wait"
    /\ Goto(w, "check")
    /\ UNCHANGED <<queue, quit, holds, owner, threads, tasks, overlooked>>

Run(w) == Check(w) \/ PopEmpty(w) \/ Pop(w) \/ Finish(w) \/ Sleep(w)

OwnerCompletes == Rollback \/ Signal \/ Broadcast \/ Join \/ Free
Owner == \/ CreateThread \/ CreateFails \/ OwnerCompletes
         \/ Waitdone \/ Destroy
         \/ \E t \in Tasks : Push(t) \/ PushFails(t)

Next == Owner \/ \E w \in Workers : Run(w) \/ SpuriousWakeup(w)

Spec == Init /\ [][Next]_vars

\* Threads are scheduled, tasks end, and a call of the owner that has begun goes
\* on; nobody counts on spurious wakeups or on the owner calling again.
PoolFair == WF_vars(OwnerCompletes) /\ \A w \in Workers : WF_vars(Run(w))

FairSpec == Spec /\ PoolFair
-----------------------------------------------------------------------------
TypeOK ==
    /\ queue \in Seq(Tasks) /\ quit \in BOOLEAN
    /\ worker \in [Workers -> {"none", "check", "pop", "run", "lock", "wait", "exited"}]
    /\ holds \in [Workers -> Tasks \cup {NoTask}]
    /\ \A w \in Workers : worker[w] = "run" <=> holds[w] # NoTask
    /\ owner \in {"create", "rollback", "failed", "idle", "waited", "signal",
                  "broadcast", "join", "destroyed"}
    /\ created \in 0..NWorkers /\ joined \in 0..NWorkers
    /\ pushed \subseteq Tasks /\ done \subseteq Tasks /\ dropped \subseteq Tasks
    /\ overlooked \in BOOLEAN

\* Every task given to the pool is in exactly one place: queued once, run by one
\* worker, done, or dropped.
TaskInOnePlace ==
    /\ pushed = Queued \cup Running \cup done \cup dropped
    /\ \A i, j \in 1..Len(queue) : queue[i] = queue[j] => i = j
    /\ \A v, w \in Workers : (worker[v] = "run" /\ holds[v] = holds[w]) => v = w
    /\ Queued \cap Running = {} /\ Queued \cap done = {} /\ Queued \cap dropped = {}
    /\ Running \cap done = {} /\ Running \cap dropped = {} /\ done \cap dropped = {}

\* The threads that are joined are those created first, after quit was set.
JoinsAreOrdered ==
    /\ joined <= created
    /\ \A w \in Workers : w <= joined => worker[w] = "exited"
    /\ \A w \in Workers : w > created => worker[w] = "none"
    /\ owner = "create" => created < NWorkers
    /\ owner \in {"failed", "destroyed"} => joined = created
    /\ owner \in {"broadcast", "join", "destroyed"} => quit

\* No worker uses a pool that is freed: the joins wait for every thread that was
\* created, in sh_destory_thread_pool and in the rollback of init_threads.
NoUseAfterFree ==
    owner \in {"failed", "destroyed"} => \A w \in Workers : worker[w] \in {"none", "exited"}

\* "Wait for all tasks to complete": what was pushed has run when
\* sh_waitdone_thread_pool returns (threads_test.cpp).
WaitdoneWaits == owner = "waited" => pushed = done \cup dropped

\* A task that is pushed starts, unless the pool is destroyed first or a worker
\* overlooked the queue.
PushedStarts == \A t \in Tasks : t \in Queued ~> (t \notin Queued \/ quit \/ overlooked)

\* sh_destory_thread_pool returns: no worker sleeps through the broadcast.
DestroyReturns == quit ~> owner = "destroyed"

\* Creation is rolled back when a thread cannot be created.
RollbackReturns == owner = "rollback" ~> owner = "failed"

\* The pool is a task pool that discards what is queued when it is destroyed.
Pool == INSTANCE TaskPool WITH Drains <- FALSE, running <- Running, open <- ~quit
Refinement == Pool!Spec
=============================================================================
