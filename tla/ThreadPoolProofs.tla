---------------------------- MODULE ThreadPoolProofs ----------------------------
(* For any set of workers and any number of tasks: the assertions of            *)
(* thread_routine hold, no wakeup for a task is lost, and the pool starts tasks  *)
(* in order and at most once.                                                   *)
EXTENDS ThreadPool, SequenceTheorems, TLAPS

USE PoolAssumption

LEMMA QueueFacts ==
  ASSUME TypeOK
  PROVE  queue \in Seq(1..NumTasks) /\ Len(queue) \in Nat
BY DEF TypeOK

-------------------------------------------------------------------------------
(* main *)

LEMMA AddWorkerKeepsIInv ==
  ASSUME IInv, AddWorker
  PROVE  IInv'
<1> USE DEF AddWorker
<1>1. TypeOK
  BY DEF IInv
<1>2. added' = added + 1 /\ added' \in 1..NumTasks /\ queue' = Append(queue, added')
  BY <1>1 DEF TypeOK
<1>3. Counted'
  <2>1. Len(queue') = Len(queue) + 1
    BY <1>2, QueueFacts, <1>1
  <2>2. ASSUME NEW i \in 1..Len(queue')
        PROVE  queue'[i] = (added' - Len(queue')) + i
    <3>1. CASE i = Len(queue) + 1
      BY <3>1, <1>1, <1>2, <2>1, QueueFacts DEF TypeOK
    <3>2. CASE i \in 1..Len(queue)
      BY <3>2, <1>1, <1>2, <2>1, QueueFacts DEF IInv, TypeOK, Counted
    <3> QED
      BY <3>1, <3>2, <2>1, <1>1, QueueFacts
  <2> QED
    BY <1>1, <1>2, <2>1, <2>2, QueueFacts DEF IInv, TypeOK, Counted
<1>4. TypeOK'
  BY DEF IInv, TypeOK
<1>5. LockOwner' /\ Waiters' /\ Stages'
  BY DEF IInv, TypeOK, LockOwner, Waiters, Stages, At
<1>6. Started'
  BY DEF IInv, TypeOK, Started, At
<1>7. AssertsHold' /\ SomeoneAwake'
  BY DEF IInv, TypeOK, LockOwner, AssertsHold, SomeoneAwake, At
<1> QED
  BY <1>3, <1>4, <1>5, <1>6, <1>7 DEF IInv

LEMMA MainKeepsIInv ==
  ASSUME IInv, MainSteps
  PROVE  IInv'
<1> USE DEF IInv, TypeOK, LockOwner, Waiters, Stages, Counted, Started, AssertsHold,
            SomeoneAwake, Labels, At
<1>1. CASE AddWorker
  BY <1>1, AddWorkerKeepsIInv
<1>2. CASE Signal
  BY <1>2 DEF Signal
<1>3. CASE SetShutdown
  BY <1>3 DEF SetShutdown
<1>4. CASE Broadcast
  BY <1>4 DEF Broadcast
<1>5. CASE JoinAndFree
  BY <1>5 DEF JoinAndFree
<1> QED
  BY <1>1, <1>2, <1>3, <1>4, <1>5 DEF MainSteps

-------------------------------------------------------------------------------
(* The workers *)

(* Taking a task: the list keeps the newer ones, the worker gets the next one.  *)
LEMMA TakeEffect ==
  ASSUME IInv, NEW w \in Workers, Take(w)
  PROVE  /\ queue # <<>> /\ cur_queue_size = Len(queue)
         /\ Len(queue') = Len(queue) - 1
         /\ queue' \in Seq(1..NumTasks)
         /\ \A i \in 1..Len(queue') : queue'[i] = queue[i + 1]
         /\ worker' = [worker EXCEPT ![w] = (added - Len(queue)) + 1]
<1>1. queue # <<>>
  BY DEF IInv, AssertsHold, Take
<1>2. cur_queue_size = Len(queue)
  BY DEF IInv, Stages, Counted, Take
<1>3. Head(queue) = (added - Len(queue)) + 1
  <2>1. Head(queue) = queue[1] /\ 1 \in 1..Len(queue)
    BY <1>1 DEF IInv, TypeOK
  <2> QED
    BY <2>1 DEF IInv, Counted
<1>4. /\ Len(Tail(queue)) = Len(queue) - 1
      /\ Tail(queue) \in Seq(1..NumTasks)
      /\ \A i \in 1..Len(Tail(queue)) : Tail(queue)[i] = queue[i + 1]
  BY <1>1, HeadTailProperties DEF IInv, TypeOK
<1>5. queue' = Tail(queue) /\ worker' = [worker EXCEPT ![w] = Head(queue)]
  BY DEF Take
<1> QED
  BY <1>1, <1>2, <1>3, <1>4, <1>5

LEMMA TakeKeepsIInv ==
  ASSUME IInv, NEW w \in Workers, Take(w)
  PROVE  IInv'
<1>1. /\ queue # <<>> /\ cur_queue_size = Len(queue)
      /\ Len(queue') = Len(queue) - 1
      /\ queue' \in Seq(1..NumTasks)
      /\ \A i \in 1..Len(queue') : queue'[i] = queue[i + 1]
      /\ worker' = [worker EXCEPT ![w] = (added - Len(queue)) + 1]
  BY TakeEffect
<1>2. Len(queue) \in Nat /\ Len(queue) >= 1 /\ Len(queue) <= added /\ added \in 0..NumTasks
  BY <1>1 DEF IInv, TypeOK, Counted
<1>3. TypeOK'
  BY <1>1, <1>2 DEF IInv, TypeOK, Take, Goto, Labels
<1>4. Counted'
  <2>1. ASSUME NEW i \in 1..Len(queue') PROVE queue'[i] = (added' - Len(queue')) + i
    <3>1. i + 1 \in 1..Len(queue)
      BY <1>1, <1>2
    <3> QED
      BY <3>1, <1>1, <1>2 DEF IInv, Counted, Take
  <2> QED
    BY <2>1, <1>1, <1>2 DEF IInv, Counted, Stages, Take
<1>5. LockOwner' /\ Waiters' /\ Stages'
  BY DEF IInv, TypeOK, LockOwner, Waiters, Stages, Take, At, Goto
<1>6. Started'
  BY <1>1, <1>2 DEF IInv, TypeOK, Started, Take, At, Goto
<1>7. AssertsHold' /\ SomeoneAwake'
  BY DEF IInv, TypeOK, LockOwner, Waiters, AssertsHold, SomeoneAwake, Take, At, Goto
<1> QED
  BY <1>3, <1>4, <1>5, <1>6, <1>7 DEF IInv

LEMMA RunKeepsIInv ==
  ASSUME IInv, NEW w \in Workers, Run(w)
  PROVE  IInv'
<1>1. worker[w] \in 1..(added - Len(queue)) /\ Len(queue) \in Nat
  BY DEF IInv, TypeOK, Started, Run, At
<1>2. worker[w] \in 1..NumTasks
  BY <1>1 DEF IInv, TypeOK
<1>3. TypeOK'
  <2>1. /\ pc \in [Workers -> Labels] /\ worker \in [Workers -> 0..NumTasks]
        /\ finished \subseteq 1..NumTasks
    BY DEF IInv, TypeOK
  <2>2. /\ pc' = [pc EXCEPT ![w] = "lock"] /\ worker' = [worker EXCEPT ![w] = 0]
        /\ finished' = finished \union {worker[w]}
    BY DEF Run, Goto
  <2>3. pc' \in [Workers -> Labels]
    BY <2>1, <2>2 DEF Labels
  <2>4. worker' \in [Workers -> 0..NumTasks]
    BY <2>1, <2>2
  <2>5. finished' \subseteq 1..NumTasks
    BY <1>2, <2>1, <2>2
  <2>6. /\ queue' = queue /\ cur_queue_size' = cur_queue_size /\ shutdown' = shutdown
        /\ queue_lock' = queue_lock /\ waiting' = waiting /\ freed' = freed
        /\ main' = main /\ added' = added
    BY DEF Run, pool
  <2> QED
    BY <2>3, <2>4, <2>5, <2>6 DEF IInv, TypeOK
<1>4. LockOwner' /\ Waiters' /\ Stages' /\ Counted'
  BY DEF IInv, TypeOK, LockOwner, Waiters, Stages, Counted, Run, At, Goto, pool
<1>5. Started'
  BY <1>1 DEF IInv, TypeOK, Started, Run, At, Goto, pool
<1>6. AssertsHold' /\ SomeoneAwake'
  BY DEF IInv, TypeOK, AssertsHold, SomeoneAwake, Run, At, Goto, pool
<1> QED
  BY <1>3, <1>4, <1>5, <1>6 DEF IInv

LEMMA WorkerKeepsIInv ==
  ASSUME IInv, NEW w \in Workers, WorkerSteps(w) \/ SpuriousWakeup(w)
  PROVE  IInv'
<1> USE DEF IInv, TypeOK, LockOwner, Waiters, Stages, Counted, Started, AssertsHold,
            SomeoneAwake, Labels, At, Goto, pool
<1>1. CASE Lock(w)
  BY <1>1 DEF Lock
<1>2. CASE Test(w)
  BY <1>2 DEF Test
<1>3. CASE Wait(w)
  BY <1>3 DEF Wait
<1>4. CASE Wakeup(w)
  BY <1>4 DEF Wakeup
<1>5. CASE SpuriousWakeup(w)
  BY <1>5 DEF SpuriousWakeup
<1>6. CASE Exit(w)
  BY <1>6 DEF Exit
<1>7. CASE Take(w)
  BY <1>7, TakeKeepsIInv
<1>8. CASE Run(w)
  BY <1>8, RunKeepsIInv
<1> QED
  BY <1>1, <1>2, <1>3, <1>4, <1>5, <1>6, <1>7, <1>8 DEF WorkerSteps

(* The inductive invariant holds in every behaviour of the pool                  *)
(* (pthread_pool.c:64-162).                                                      *)
THEOREM PoolInvariant == Spec => []IInv
<1>1. Init => IInv
  <2> SUFFICES ASSUME Init PROVE IInv
    OBVIOUS
  <2>1. queue = <<>> /\ Len(queue) = 0 /\ queue \in Seq(1..NumTasks)
    BY DEF Init
  <2>2. TypeOK
    <3>1. pc \in [Workers -> Labels] /\ worker \in [Workers -> 0..NumTasks]
      BY DEF Init, Labels
    <3>2. shutdown \in BOOLEAN /\ freed \in BOOLEAN
      BY DEF Init
    <3>3. /\ cur_queue_size \in Nat /\ queue_lock \in Workers \union {Nobody}
          /\ waiting \subseteq Workers /\ added \in 0..NumTasks /\ finished \subseteq 1..NumTasks
          /\ main \in {"add", "signal", "broadcast", "join", "done"}
      BY DEF Init
    <3> QED
      BY <2>1, <3>1, <3>2, <3>3 DEF TypeOK
  <2>3. LockOwner /\ Waiters /\ Stages
    BY DEF Init, LockOwner, Waiters, Stages, At
  <2>4. Counted /\ Started /\ AssertsHold /\ SomeoneAwake
    BY <2>1 DEF Init, Counted, Started, AssertsHold, SomeoneAwake, At
  <2> QED
    BY <2>2, <2>3, <2>4 DEF IInv
<1>2. IInv /\ [Next]_vars => IInv'
  <2> SUFFICES ASSUME IInv, [Next]_vars PROVE IInv'
    OBVIOUS
  <2>1. CASE UNCHANGED vars
    BY <2>1 DEF vars, IInv, TypeOK, LockOwner, Waiters, Stages, Counted, Started,
                AssertsHold, SomeoneAwake, At
  <2>2. CASE MainSteps
    BY <2>2, MainKeepsIInv
  <2>3. ASSUME NEW w \in Workers, WorkerSteps(w) \/ SpuriousWakeup(w) PROVE IInv'
    BY <2>3, WorkerKeepsIInv
  <2> QED
    BY <2>1, <2>2, <2>3 DEF Next
<1> QED
  BY <1>1, <1>2, PTL DEF Spec

(* The assertions of thread_routine never fail (pthread_pool.c:149-150).         *)
THEOREM AssertionsNeverFail == Spec => []AssertsHold
<1>1. IInv => AssertsHold
  BY DEF IInv
<1> QED
  BY <1>1, PoolInvariant, PTL

(* While tasks wait, a worker is awake that will come for them                   *)
(* (pthread_pool.c:89-90, 135-138).                                              *)
THEOREM NoWakeupLost == Spec => []SomeoneAwake
<1>1. IInv => SomeoneAwake
  BY DEF IInv
<1> QED
  BY <1>1, PoolInvariant, PTL

-------------------------------------------------------------------------------
(* The pool implements TaskPool *)

Running == {worker[w] : w \in {v \in Workers : At(v, "run")}}

(* The tasks TaskPool knows are among 1..added. *)
LEMMA KnownTasks ==
  ASSUME IInv
  PROVE  Tasks!Known \subseteq 1..added
<1>1. \A i \in 1..Len(queue) : queue[i] \in 1..added
  BY DEF IInv, TypeOK, Counted
<1>2. Running \subseteq 1..added
  BY DEF IInv, TypeOK, Started, Running
<1>3. finished \subseteq 1..added
  BY DEF IInv, TypeOK, Started
<1> QED
  BY <1>1, <1>2, <1>3 DEF Tasks!Known, Running

LEMMA AddIsAdd ==
  ASSUME IInv, AddWorker
  PROVE  Tasks!Add
<1>1. added' = added + 1 /\ added' \in 1..NumTasks /\ added' \notin 1..added
  BY DEF AddWorker, IInv, TypeOK
<1>2. added' \in (1..NumTasks) \ Tasks!Known
  BY <1>1, KnownTasks
<1>3. ~freed /\ queue' = Append(queue, added')
  BY DEF AddWorker, IInv, Stages
<1>4. Running' = Running /\ finished' = finished /\ freed' = freed
  BY DEF AddWorker, Running, At
<1> QED
  BY <1>2, <1>3, <1>4 DEF Tasks!Add, Running

LEMMA TakeIsStart ==
  ASSUME IInv, NEW w \in Workers, Take(w)
  PROVE  Tasks!Start
<1>1. queue # <<>>
  BY TakeEffect
<1>2. /\ ~freed /\ queue' = Tail(queue) /\ finished' = finished /\ freed' = freed
      /\ worker' = [worker EXCEPT ![w] = Head(queue)] /\ pc' = [pc EXCEPT ![w] = "run"]
      /\ pc[w] = "take"
  BY DEF IInv, Stages, Take, At, Goto
<1>3. pc \in [Workers -> Labels] /\ worker \in [Workers -> 0..NumTasks]
  BY DEF IInv, TypeOK
<1>4. Running' = Running \union {Head(queue)}
  BY <1>2, <1>3 DEF Running, At
<1> QED
  BY <1>1, <1>2, <1>4 DEF Tasks!Start, Running

LEMMA RunIsFinish ==
  ASSUME IInv, NEW w \in Workers, Run(w)
  PROVE  Tasks!Finish
<1>1. /\ pc[w] = "run" /\ pc' = [pc EXCEPT ![w] = "lock"]
      /\ worker' = [worker EXCEPT ![w] = 0] /\ finished' = finished \union {worker[w]}
      /\ queue' = queue /\ freed' = freed
  BY DEF Run, At, Goto, pool
<1>2. pc \in [Workers -> Labels] /\ worker \in [Workers -> 0..NumTasks]
  BY DEF IInv, TypeOK
<1>3. \A v \in Workers : pc[v] = "run" /\ v # w => worker[v] # worker[w]
  BY <1>1 DEF IInv, Started, At
<1>4. Running' = Running \ {worker[w]} /\ worker[w] \in Running
  BY <1>1, <1>2, <1>3 DEF Running, At
<1> QED
  BY <1>1, <1>4 DEF Tasks!Finish, Running

LEMMA FreeIsDestroy ==
  ASSUME IInv, JoinAndFree
  PROVE  Tasks!Destroy
<1>1. Running = {} /\ Running' = Running
  BY DEF JoinAndFree, Running, At
<1> QED
  BY <1>1 DEF JoinAndFree, IInv, Stages, Tasks!Destroy, Running

(* Every other step leaves what TaskPool speaks of alone. *)
LEMMA OthersStutter ==
  ASSUME IInv,
         \/ Signal \/ SetShutdown \/ Broadcast \/ UNCHANGED vars
         \/ \E w \in Workers : Lock(w) \/ Test(w) \/ Wait(w) \/ Wakeup(w) \/ Exit(w)
                              \/ SpuriousWakeup(w)
  PROVE  UNCHANGED Tasks!vars
<1>1. UNCHANGED <<queue, finished, freed, worker>>
  BY DEF Signal, SetShutdown, Broadcast, vars, Lock, Test, Wait, Wakeup, Exit,
         SpuriousWakeup, pool
<1>2. \A v \in Workers : At(v, "run")' <=> At(v, "run")
  BY DEF IInv, TypeOK, Signal, SetShutdown, Broadcast, vars, Lock, Test, Wait, Wakeup,
         Exit, SpuriousWakeup, At, Goto
<1>3. Running' = Running
  BY <1>1, <1>2 DEF Running
<1> QED
  BY <1>1, <1>3 DEF Tasks!vars, Running

(* Tasks start in the order they were added, each at most once, and none runs    *)
(* or starts once pool_destroy has freed the pool (pthread_pool.c:64-124).       *)
THEOREM PoolImplementsTasks == Spec => TaskRefinement
<1>1. Init => Tasks!Init
  BY DEF Init, Tasks!Init, At
<1>2. IInv /\ [Next]_vars => [Tasks!Next]_(Tasks!vars)
  <2> SUFFICES ASSUME IInv, [Next]_vars PROVE Tasks!Next \/ UNCHANGED Tasks!vars
    OBVIOUS
  <2>1. CASE MainSteps
    BY <2>1, AddIsAdd, FreeIsDestroy, OthersStutter DEF MainSteps, Tasks!Next
  <2>2. ASSUME NEW w \in Workers, WorkerSteps(w) \/ SpuriousWakeup(w)
        PROVE  Tasks!Next \/ UNCHANGED Tasks!vars
    BY <2>2, TakeIsStart, RunIsFinish, OthersStutter DEF WorkerSteps, Tasks!Next
  <2>3. CASE UNCHANGED vars
    BY <2>3, OthersStutter
  <2> QED
    BY <2>1, <2>2, <2>3 DEF Next
<1> QED
  BY <1>1, <1>2, PoolInvariant, PTL DEF Spec, TaskRefinement, Tasks!Spec
===============================================================================
