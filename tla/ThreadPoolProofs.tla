-------------------------- MODULE ThreadPoolProofs --------------------------
(***************************************************************************)
(* Proofs about ThreadPool, for any number of workers and any tasks.       *)
(*                                                                         *)
(* The inductive invariant says where each task is and which threads are   *)
(* joined.  The refinement of TaskPool follows from it step by step.       *)
(***************************************************************************)
EXTENDS ThreadPool, TLAPS

IInv == TypeOK /\ TaskInOnePlace /\ JoinsAreOrdered

\* The elements of a sequence, and that none occurs twice.
Elements(q) == {q[i] : i \in 1..Len(q)}
Distinct(q) == \A i, j \in 1..Len(q) : q[i] = q[j] => i = j

\* What push_task does to the elements of the queue.
LEMMA AppendElements ==
    ASSUME NEW q \in Seq(Tasks), NEW t \in Tasks
    PROVE  /\ Append(q, t) \in Seq(Tasks)
           /\ Elements(Append(q, t)) = Elements(q) \cup {t}
           /\ (t \notin Elements(q) /\ Distinct(q)) => Distinct(Append(q, t))
<1> DEFINE a == Append(q, t)
<1>1. /\ a \in Seq(Tasks) /\ Len(a) = Len(q) + 1 /\ Len(q) \in Nat
      /\ \A i \in 1..Len(q) : a[i] = q[i]
      /\ a[Len(q) + 1] = t
  OBVIOUS
<1> HIDE DEF a
<1>2. Elements(a) = Elements(q) \cup {t}
  BY <1>1 DEF Elements
<1>3. (t \notin Elements(q) /\ Distinct(q)) => Distinct(a)
  BY <1>1 DEF Elements, Distinct
<1>4. QED
  BY <1>1, <1>2, <1>3 DEF a

\* What pop_task does to them.
LEMMA TailElements ==
    ASSUME NEW q \in Seq(Tasks), q # <<>>, Distinct(q)
    PROVE  /\ Tail(q) \in Seq(Tasks) /\ Head(q) \in Tasks
           /\ Elements(q) = Elements(Tail(q)) \cup {Head(q)}
           /\ Head(q) \notin Elements(Tail(q))
           /\ Distinct(Tail(q))
<1> DEFINE r == Tail(q)
<1>1. /\ r \in Seq(Tasks) /\ Len(q) \in Nat /\ Len(q) > 0 /\ Len(r) = Len(q) - 1
      /\ \A i \in 1..Len(r) : r[i] = q[i + 1]
      /\ Head(q) = q[1] /\ Head(q) \in Tasks
  OBVIOUS
<1> HIDE DEF r
<1>2. Distinct(r)
  BY <1>1 DEF Distinct
<1>3. Head(q) \notin Elements(r)
  BY <1>1 DEF Elements, Distinct
<1>4. Elements(q) = Elements(r) \cup {Head(q)}
  <2>1. \A i \in 1..Len(q) : i = 1 \/ (i - 1 \in 1..Len(r) /\ q[i] = r[i - 1])
    BY <1>1
  <2>2. Elements(q) \subseteq Elements(r) \cup {Head(q)}
    BY <1>1, <2>1 DEF Elements
  <2>3. Elements(r) \cup {Head(q)} \subseteq Elements(q)
    BY <1>1 DEF Elements
  <2>4. QED
    BY <2>2, <2>3
<1>5. QED
  BY <1>1, <1>2, <1>3, <1>4 DEF r

-----------------------------------------------------------------------------
\* Threads and types: the owner creates and joins in order.
Threads == TypeOK /\ JoinsAreOrdered

\* No thread was made yet.
LEMMA InitThreads == Init => Threads
<1> SUFFICES ASSUME Init PROVE Threads
  OBVIOUS
<1> USE PoolAssumption DEF Init, Workers
<1>1. TypeOK
  <2>1. queue \in Seq(Tasks)
    BY DEF Init
  <2>2. worker \in [Workers -> {"none", "check", "pop", "run", "lock", "wait", "exited"}]
    OBVIOUS
  <2>3. holds \in [Workers -> Tasks \cup {NoTask}]
    OBVIOUS
  <2>4. \A w \in Workers : worker[w] = "run" <=> holds[w] # NoTask
    OBVIOUS
  <2>5. created \in 0..NWorkers /\ joined \in 0..NWorkers
    OBVIOUS
  <2> HIDE DEF Workers
  <2>6. QED
    BY <2>1, <2>2, <2>3, <2>4, <2>5 DEF TypeOK
<1>2. JoinsAreOrdered
  BY DEF JoinsAreOrdered
<1>3. QED
  BY <1>1, <1>2 DEF Threads

\* The steps of the owner keep the types of the threads.
LEMMA OwnerThreads == Threads /\ Owner => Threads'
<1> SUFFICES ASSUME Threads, Owner PROVE Threads'
  OBVIOUS
<1> USE PoolAssumption DEF Threads, TypeOK, JoinsAreOrdered, Workers
<1>1. CASE CreateThread
  BY <1>1 DEF CreateThread, tasks
<1>2. CASE CreateFails \/ Waitdone \/ Destroy
  BY <1>2 DEF CreateFails, Waitdone, Destroy, CanCall, tasks, threads
<1>3. CASE Rollback \/ Join
  BY <1>3 DEF Rollback, Join, tasks
<1>4. CASE Signal \/ Broadcast
  BY <1>4 DEF Signal, Broadcast, Wake, Sleepers, tasks, threads
<1>5. CASE Free
  <2>1. Queued \subseteq Tasks
    BY DEF Queued
  <2>2. QED
    BY <1>5, <2>1 DEF Free, threads
<1>6. ASSUME NEW t \in Tasks, Push(t) \/ PushFails(t) PROVE Threads'
  <2>1. Append(queue, t) \in Seq(Tasks)
    OBVIOUS
  <2>2. QED
    BY <1>6, <2>1 DEF Push, PushFails, CanCall, threads
<1>7. QED
  BY <1>1, <1>2, <1>3, <1>4, <1>5, <1>6 DEF Owner, OwnerCompletes

\* The steps of a worker keep the types of the threads.
LEMMA WorkerThreads ==
    ASSUME Threads, NEW w \in Workers, Run(w) \/ SpuriousWakeup(w)
    PROVE  Threads'
<1> USE PoolAssumption DEF Threads, TypeOK, JoinsAreOrdered, Workers, Goto
<1>1. CASE Check(w) \/ PopEmpty(w) \/ Sleep(w) \/ SpuriousWakeup(w)
  BY <1>1 DEF Check, PopEmpty, Sleep, SpuriousWakeup, tasks, threads
<1>2. CASE Pop(w)
  <2>1. queue # <<>> => Tail(queue) \in Seq(Tasks) /\ Head(queue) \in Tasks
    OBVIOUS
  <2>2. QED
    BY <1>2, <2>1 DEF Pop, tasks, threads
<1>3. CASE Finish(w)
  BY <1>3 DEF Finish, threads
<1>4. QED
  BY <1>1, <1>2, <1>3 DEF Run

\* Each step keeps the types of the threads.
LEMMA ThreadsInductive == Threads /\ [Next]_vars => Threads'
<1>1. CASE UNCHANGED vars
  BY <1>1 DEF vars, tasks, threads, Threads, TypeOK, JoinsAreOrdered
<1>2. QED
  BY <1>1, OwnerThreads, WorkerThreads DEF Next

-----------------------------------------------------------------------------
(***************************************************************************)
(* Where the tasks are.                                                    *)
(***************************************************************************)
\* A step that moves no task leaves everything in place.
LEMMA NothingMoves ==
    ASSUME TypeOK, TaskInOnePlace, UNCHANGED <<queue, holds, tasks>>,
           \A w \in Workers : worker'[w] = "run" <=> worker[w] = "run"
    PROVE  TaskInOnePlace' /\ Running' = Running
<1>1. Running' = Running
  BY DEF Running
<1>2. Queued' = Queued
  BY DEF Queued
<1>3. QED
  BY <1>1, <1>2 DEF TaskInOnePlace, tasks

\* A task that is added has one place, in the queue.
LEMMA PushPlaces ==
    ASSUME TypeOK, TaskInOnePlace, NEW t \in Tasks, Push(t)
    PROVE  TaskInOnePlace' /\ Running' = Running /\ Queued' = Queued \cup {t}
<1>1. Running' = Running
  BY DEF Push, Running
<1>2. Queued' = Queued \cup {t} /\ (t \notin Queued => Distinct(queue'))
  BY AppendElements DEF Push, TypeOK, TaskInOnePlace, Queued, Elements, Distinct
<1>3. t \notin Queued \cup Running \cup done \cup dropped
  BY DEF Push, TaskInOnePlace
<1>4. QED
  BY <1>1, <1>2, <1>3 DEF Push, TaskInOnePlace, Distinct, threads

\* A task that is taken moves from the queue to the worker.
LEMMA PopPlaces ==
    ASSUME TypeOK, TaskInOnePlace, NEW w \in Workers, Pop(w)
    PROVE  TaskInOnePlace' /\ Running' = Running \cup {Head(queue)}
<1> DEFINE t == Head(queue)
<1>1. /\ Queued = Queued' \cup {t} /\ t \notin Queued' /\ t \in Tasks
      /\ Distinct(queue')
  <2>1. /\ queue \in Seq(Tasks) /\ queue # <<>> /\ Distinct(queue)
        /\ queue' = Tail(queue)
    BY DEF Pop, TypeOK, TaskInOnePlace, Distinct
  <2>2. Queued = Elements(queue) /\ Queued' = Elements(queue')
    BY DEF Queued, Elements
  <2>3. QED
    BY <2>1, <2>2, TailElements
<1>2. /\ worker[w] = "pop" /\ holds' = [holds EXCEPT ![w] = t]
      /\ worker' = [worker EXCEPT ![w] = "run"]
      /\ UNCHANGED <<pushed, done, dropped>>
  BY DEF Pop, Goto, tasks
<1> HIDE DEF t
<1>3. Running' = Running \cup {t}
  BY <1>2 DEF Running, TypeOK
<1>4. \A v \in Workers : holds[v] # t
  BY <1>1, PoolAssumption DEF TypeOK, TaskInOnePlace, Running
<1>5. \A u, v \in Workers : (worker'[u] = "run" /\ holds'[u] = holds'[v]) => u = v
  BY <1>2, <1>4 DEF TypeOK, TaskInOnePlace
<1>6. QED
  BY <1>1, <1>2, <1>3, <1>5 DEF TaskInOnePlace, Distinct, t

\* A task that ended moves from the worker to those that are done.
LEMMA FinishPlaces ==
    ASSUME TypeOK, TaskInOnePlace, NEW w \in Workers, Finish(w)
    PROVE  TaskInOnePlace' /\ Running' = Running \ {holds[w]} /\ holds[w] \in Running
<1>1. /\ worker[w] = "run" /\ holds' = [holds EXCEPT ![w] = NoTask]
      /\ worker' = [worker EXCEPT ![w] = "check"]
      /\ done' = done \cup {holds[w]}
      /\ UNCHANGED <<queue, pushed, dropped>>
  BY DEF Finish, Goto
<1>2. holds[w] \in Running
  BY <1>1 DEF Running
<1>3. Running' = Running \ {holds[w]}
  BY <1>1 DEF Running, TypeOK, TaskInOnePlace
<1>4. \A u, v \in Workers : (worker'[u] = "run" /\ holds'[u] = holds'[v]) => u = v
  BY <1>1 DEF TypeOK, TaskInOnePlace
<1>5. Queued' = Queued
  BY <1>1 DEF Queued
<1>6. QED
  BY <1>1, <1>2, <1>3, <1>4, <1>5 DEF TaskInOnePlace

\* What sh_destory_thread_pool frees has no other place.
LEMMA FreePlaces ==
    ASSUME TypeOK, TaskInOnePlace, Free
    PROVE  TaskInOnePlace' /\ Running' = Running
<1>1. Running' = Running
  BY DEF Free, Running
<1>2. Queued' = {} /\ Len(queue') = 0
  BY DEF Free, Queued
<1>3. QED
  BY <1>1, <1>2 DEF Free, TaskInOnePlace, threads

\* A task that is refused has no other place.
LEMMA PushFailsPlaces ==
    ASSUME TypeOK, TaskInOnePlace, NEW t \in Tasks, PushFails(t)
    PROVE  TaskInOnePlace' /\ Running' = Running
<1>1. Running' = Running /\ Queued' = Queued
  BY DEF PushFails, Running, Queued
<1>2. t \notin Queued \cup Running \cup done \cup dropped
  BY DEF PushFails, TaskInOnePlace
<1>3. QED
  BY <1>1, <1>2 DEF PushFails, TaskInOnePlace, threads

\* The steps that move no task.
Still == \/ CreateThread \/ CreateFails \/ Rollback \/ Signal
         \/ Waitdone \/ Destroy \/ Broadcast \/ Join
         \/ \E w \in Workers : Check(w) \/ PopEmpty(w) \/ Sleep(w) \/ SpuriousWakeup(w)

\* Steps that move no task keep the places.
LEMMA StillPlaces ==
    ASSUME Threads, Still
    PROVE  /\ UNCHANGED <<queue, holds, tasks>>
           /\ \A w \in Workers : worker'[w] = "run" <=> worker[w] = "run"
<1> USE DEF Threads, TypeOK, JoinsAreOrdered
<1>1. CASE CreateThread
  BY <1>1, PoolAssumption DEF CreateThread, Workers
<1>2. CASE CreateFails \/ Rollback \/ Waitdone \/ Destroy \/ Join
  BY <1>2 DEF CreateFails, Rollback, Waitdone, Destroy, Join
<1>3. CASE Signal \/ Broadcast
  BY <1>3 DEF Signal, Broadcast, Wake, Sleepers
<1>4. ASSUME NEW w \in Workers, Check(w) \/ PopEmpty(w) \/ Sleep(w) \/ SpuriousWakeup(w)
      PROVE  /\ UNCHANGED <<queue, holds, tasks>>
             /\ \A v \in Workers : worker'[v] = "run" <=> worker[v] = "run"
  BY <1>4 DEF Check, PopEmpty, Sleep, SpuriousWakeup, Goto
<1>5. QED
  BY <1>1, <1>2, <1>3, <1>4 DEF Still

\* Every step is one of these.
LEMMA NextCases ==
    Next => \/ Still \/ Free
            \/ \E t \in Tasks : Push(t) \/ PushFails(t)
            \/ \E w \in Workers : Pop(w) \/ Finish(w)
  BY DEF Next, Owner, OwnerCompletes, Run, Still

\* The invariant is inductive, so that every task is in one place, always.
THEOREM Invariance == Spec => []IInv
<1>1. Init => IInv
  <2>1. Init => TaskInOnePlace
    <3> SUFFICES ASSUME Init PROVE TaskInOnePlace
      OBVIOUS
    <3>1. Queued = {} /\ Running = {} /\ Len(queue) = 0
      BY DEF Init, Queued, Running
    <3>2. QED
      BY <3>1 DEF Init, TaskInOnePlace
  <2>2. QED
    BY <2>1, InitThreads DEF IInv, Threads
<1>2. IInv /\ [Next]_vars => IInv'
  <2> SUFFICES ASSUME IInv, [Next]_vars PROVE TaskInOnePlace'
    BY ThreadsInductive DEF IInv, Threads
  <2> USE DEF IInv
  <2>1. CASE UNCHANGED vars
    BY <2>1, NothingMoves DEF vars, tasks
  <2>2. CASE Next
    BY <2>2, NextCases, StillPlaces, NothingMoves, FreePlaces, PushPlaces,
       PushFailsPlaces, PopPlaces, FinishPlaces DEF Threads
  <2>3. QED
    BY <2>1, <2>2
<1>3. QED
  BY <1>1, <1>2, PTL DEF Spec

\* Types, and the place of every task.
THEOREM Typing == Spec => []TypeOK
  BY Invariance, PTL DEF IInv

\* No task is lost, duplicated or run twice (push_task, pop_task, thread_work).
THEOREM OnePlace == Spec => []TaskInOnePlace
  BY Invariance, PTL DEF IInv

\* No worker is alive when the pool is freed.
THEOREM FreedUnused == Spec => []NoUseAfterFree
<1>1. IInv => NoUseAfterFree
  BY PoolAssumption DEF IInv, TypeOK, JoinsAreOrdered, NoUseAfterFree, Workers
<1>2. QED
  BY <1>1, Invariance, PTL

\* The pool implements TaskPool: tasks start in order, at most once.
THEOREM Implements == Spec => Refinement
<1>1. Init => Pool!Init
  BY DEF Init, Pool!Init, Running
<1>2. IInv /\ [Next]_vars => [Pool!Next]_(Pool!vars)
  <2> SUFFICES ASSUME IInv, [Next]_vars PROVE [Pool!Next]_(Pool!vars)
    OBVIOUS
  <2> USE DEF IInv
  <2>1. Pool!Queued = Queued
    BY DEF Pool!Queued, Queued
  <2>2. CASE UNCHANGED vars
    BY <2>2, NothingMoves DEF vars, tasks, Pool!vars
  <2>3. CASE Still
    <3>1. Running' = Running /\ UNCHANGED <<queue, done, dropped>>
      BY <2>3, StillPlaces, NothingMoves DEF Threads, tasks
    <3>2. UNCHANGED quit \/ Destroy
      BY <2>3 DEF Still, CreateThread, CreateFails, Rollback, Signal, Waitdone,
                  Broadcast, Join, Check, PopEmpty, Sleep, SpuriousWakeup
    <3>3. QED
      BY <3>1, <3>2 DEF Destroy, Pool!Next, Pool!Close, Pool!vars
  <2>4. CASE Free
    <3>1. quit /\ Running = {}
      BY <2>4 DEF Free, TypeOK, JoinsAreOrdered, Running, Workers
    <3>2. QED
      BY <2>1, <2>4, <3>1, FreePlaces DEF Free, Pool!Next, Pool!Discard
  <2>5. ASSUME NEW t \in Tasks, Push(t) PROVE Pool!Submit(t)
    BY <2>1, <2>5, PushPlaces DEF Push, threads, TaskInOnePlace, Pool!Submit, Pool!Fresh
  <2>6. ASSUME NEW t \in Tasks, PushFails(t) PROVE Pool!Refuse(t)
    BY <2>1, <2>6, PushFailsPlaces DEF PushFails, threads, TaskInOnePlace, Pool!Refuse, Pool!Fresh
  <2>7. ASSUME NEW w \in Workers, Pop(w) PROVE Pool!Start
    BY <2>7, PopPlaces DEF Pop, tasks, Pool!Start
  <2>8. ASSUME NEW w \in Workers, Finish(w) PROVE Pool!Finish(holds[w])
    BY <2>8, FinishPlaces DEF Finish, Pool!Finish
  <2>9. \A w \in Workers : Finish(w) => holds[w] \in Tasks
    BY PoolAssumption DEF Finish, TypeOK
  <2>10. QED
    BY <2>2, <2>3, <2>4, <2>5, <2>6, <2>7, <2>8, <2>9, NextCases DEF Pool!Next
<1>3. QED
  BY <1>1, <1>2, Invariance, PTL DEF Spec, Refinement, Pool!Spec
=============================================================================
