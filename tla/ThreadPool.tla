------------------------------ MODULE ThreadPool ------------------------------
(* The thread pool of testcode/linux/pthread/pthread_pool.c: main adds tasks   *)
(* to a list and destroys the pool; Workers run thread_routine.  The list and  *)
(* its size are touched only under queue_lock; shutdown is set and the         *)
(* condition variable signalled without it.                                    *)
EXTENDS Integers, Sequences

CONSTANTS Workers,    \* the threads pool_init creates
          NumTasks,   \* how many tasks main adds (10)
          Nobody      \* owner of a free lock

ASSUME PoolAssumption ==
  NumTasks \in Nat /\ Nobody \notin Workers /\ Workers # {}

VARIABLES
  queue,            \* the list at queue_head
  cur_queue_size,
  shutdown,
  queue_lock,       \* the worker that holds the mutex, or Nobody
  waiting,          \* the workers blocked in pthread_cond_wait
  freed,            \* pool_destroy has freed the pool
  main,             \* where main is
  added,            \* the tasks main has added: 1..added
  pc, worker,       \* where each worker is, and the task it took off the list
  finished          \* the tasks whose process() has returned

vars == <<queue, cur_queue_size, shutdown, queue_lock, waiting, freed, main, added,
          pc, worker, finished>>

pool == <<queue, cur_queue_size, shutdown, queue_lock, waiting, freed>>

Init ==
  /\ queue = <<>> /\ cur_queue_size = 0 /\ shutdown = FALSE
  /\ queue_lock = Nobody /\ waiting = {} /\ freed = FALSE
  /\ main = "add" /\ added = 0
  /\ pc = [w \in Workers |-> "lock"] /\ worker = [w \in Workers |-> 0]
  /\ finished = {}

-------------------------------------------------------------------------------
(* main *)

(* Mutant: tasks go to the front of the list. *)
AddInFront ==
  /\ main = "add" /\ added < NumTasks
  /\ queue_lock = Nobody
  /\ added' = added + 1
  /\ queue' = <<added'>> \o queue
  /\ cur_queue_size' = cur_queue_size + 1
  /\ main' = "signal"
  /\ UNCHANGED <<shutdown, queue_lock, waiting, freed, pc, worker, finished>>

(* pool_add_worker: the task is appended and counted under queue_lock ...      *)
AddWorker ==
  /\ main = "add" /\ added < NumTasks
  /\ queue_lock = Nobody
  /\ added' = added + 1
  /\ queue' = Append(queue, added')
  /\ cur_queue_size' = cur_queue_size + 1
  /\ main' = "signal"
  /\ UNCHANGED <<shutdown, queue_lock, waiting, freed, pc, worker, finished>>

(* Mutant: the signal is missing. *)
NoSignal ==
  /\ main = "signal"
  /\ main' = "add"
  /\ UNCHANGED <<pool, added, pc, worker, finished>>

(* ... and then one waiting worker, if there is one, is woken.                 *)
Signal ==
  /\ main = "signal"
  /\ \/ waiting = {} /\ UNCHANGED waiting
     \/ \E w \in waiting : waiting' = waiting \ {w}
  /\ main' = "add"
  /\ UNCHANGED <<queue, cur_queue_size, shutdown, queue_lock, freed, added, pc,
                 worker, finished>>

(* pool_destroy: shutdown is set without the lock, every waiting worker is     *)
(* woken, all are joined, and what is left on the list is freed unrun.         *)
SetShutdown ==
  /\ main = "add" /\ added = NumTasks
  /\ shutdown' = TRUE
  /\ main' = "broadcast"
  /\ UNCHANGED <<queue, cur_queue_size, queue_lock, waiting, freed, added, pc,
                 worker, finished>>

Broadcast ==
  /\ main = "broadcast"
  /\ waiting' = {}
  /\ main' = "join"
  /\ UNCHANGED <<queue, cur_queue_size, shutdown, queue_lock, freed, added, pc,
                 worker, finished>>

JoinAndFree ==
  /\ main = "join" /\ \A w \in Workers : pc[w] = "dead"
  /\ queue' = <<>>
  /\ freed' = TRUE
  /\ main' = "done"
  /\ UNCHANGED <<cur_queue_size, shutdown, queue_lock, waiting, added, pc, worker,
                 finished>>

MainSteps == AddWorker \/ Signal \/ SetShutdown \/ Broadcast \/ JoinAndFree

-------------------------------------------------------------------------------
(* thread_routine *)

At(w, l)   == pc[w] = l
Goto(w, l) == pc' = [pc EXCEPT ![w] = l]

Lock(w) ==
  /\ At(w, "lock") /\ queue_lock = Nobody
  /\ queue_lock' = w
  /\ Goto(w, "test")
  /\ UNCHANGED <<queue, cur_queue_size, shutdown, waiting, freed, main, added, worker,
                 finished>>

Test(w) ==
  /\ At(w, "test")
  /\ Goto(w, IF cur_queue_size = 0 /\ ~shutdown THEN "wait" ELSE "take")
  /\ UNCHANGED <<pool, main, added, worker, finished>>

(* pthread_cond_wait: the lock is given up as the worker starts to wait; a      *)
(* worker that is woken, or wakes for no reason, takes the lock and tests again *)
(* as Lock and Test do.                                                         *)
Wait(w) ==
  /\ At(w, "wait")
  /\ waiting' = waiting \union {w}
  /\ queue_lock' = Nobody
  /\ Goto(w, "waiting")
  /\ UNCHANGED <<queue, cur_queue_size, shutdown, freed, main, added, worker, finished>>

(* Mutant: the predicate is not tested again (if for while). *)
WakeupTakes(w) ==
  /\ At(w, "waiting") /\ w \notin waiting /\ queue_lock = Nobody
  /\ queue_lock' = w
  /\ Goto(w, "take")
  /\ UNCHANGED <<queue, cur_queue_size, shutdown, waiting, freed, main, added, worker,
                 finished>>

Wakeup(w) ==
  /\ At(w, "waiting") /\ w \notin waiting
  /\ Goto(w, "lock")
  /\ UNCHANGED <<pool, main, added, worker, finished>>

SpuriousWakeup(w) ==
  /\ w \in waiting
  /\ waiting' = waiting \ {w}
  /\ UNCHANGED <<queue, cur_queue_size, shutdown, queue_lock, freed, main, added, pc,
                 worker, finished>>

Exit(w) ==
  /\ At(w, "take") /\ shutdown
  /\ queue_lock' = Nobody
  /\ Goto(w, "dead")
  /\ UNCHANGED <<queue, cur_queue_size, shutdown, waiting, freed, main, added, worker,
                 finished>>

(* Mutant: the lock is not released. *)
TakeLocked(w) ==
  /\ At(w, "take") /\ ~shutdown
  /\ cur_queue_size' = cur_queue_size - 1
  /\ worker' = [worker EXCEPT ![w] = Head(queue)]
  /\ queue' = Tail(queue)
  /\ Goto(w, "run")
  /\ UNCHANGED <<shutdown, queue_lock, waiting, freed, main, added, finished>>

Take(w) ==
  /\ At(w, "take") /\ ~shutdown
  /\ cur_queue_size' = cur_queue_size - 1
  /\ worker' = [worker EXCEPT ![w] = Head(queue)]
  /\ queue' = Tail(queue)
  /\ queue_lock' = Nobody
  /\ Goto(w, "run")
  /\ UNCHANGED <<shutdown, waiting, freed, main, added, finished>>

Run(w) ==
  /\ At(w, "run")
  /\ finished' = finished \union {worker[w]}
  /\ worker' = [worker EXCEPT ![w] = 0]
  /\ Goto(w, "lock")
  /\ UNCHANGED <<pool, main, added>>

WorkerSteps(w) ==
  Lock(w) \/ Test(w) \/ Wait(w) \/ Wakeup(w) \/ Exit(w) \/ Take(w) \/ Run(w)

Next == MainSteps \/ \E w \in Workers : WorkerSteps(w) \/ SpuriousWakeup(w)

Spec == Init /\ [][Next]_vars

(* Threads run; nothing wakes a waiting one for no reason.  How long main sleeps  *)
(* between the last task and pool_destroy (pthread_pool.c:183) is left open: it   *)
(* may for ever, so that the tasks cannot count on the shutdown.                  *)
FairSpec == /\ Spec
            /\ WF_vars(AddWorker \/ Signal \/ Broadcast \/ JoinAndFree)
            /\ \A w \in Workers : WF_vars(WorkerSteps(w))

-------------------------------------------------------------------------------
(* Properties *)

Labels == {"lock", "test", "wait", "waiting", "take", "run", "dead"}

TypeOK ==
  /\ queue \in Seq(1..NumTasks) /\ cur_queue_size \in Nat
  /\ shutdown \in BOOLEAN /\ freed \in BOOLEAN
  /\ queue_lock \in Workers \union {Nobody}
  /\ waiting \subseteq Workers
  /\ main \in {"add", "signal", "broadcast", "join", "done"}
  /\ added \in 0..NumTasks
  /\ pc \in [Workers -> Labels] /\ worker \in [Workers -> 0..NumTasks]
  /\ finished \subseteq 1..NumTasks

(* The two assertions of thread_routine (pthread_pool.c:149-150): a worker that *)
(* goes for a task finds one, however many were woken for it and whatever took  *)
(* it in between.                                                               *)
AssertsHold ==
  \A w \in Workers : At(w, "take") /\ ~shutdown => cur_queue_size # 0 /\ queue # <<>>

(* No wakeup for a task is lost, though the signal is sent after the lock is    *)
(* released (pthread_pool.c:89-90): while tasks wait and no signal is on its    *)
(* way, some worker is awake and will come for them.                            *)
SomeoneAwake ==
  queue # <<>> /\ main # "signal" /\ ~shutdown =>
    \E w \in Workers : w \notin waiting /\ pc[w] # "dead"

(* What makes the above inductive: who holds the lock, who waits and that it    *)
(* found nothing to do, where main is when shutdown and freed are set, that the *)
(* list is counted and holds the newest tasks in order, and that the tasks      *)
(* being run are older ones, no two the same.                                   *)
LockOwner == \A w \in Workers : pc[w] \in {"test", "wait", "take"} <=> queue_lock = w

Waiters == /\ \A w \in waiting : At(w, "waiting")
           /\ \A w \in Workers : At(w, "wait") => cur_queue_size = 0

Stages ==
  /\ shutdown <=> main \in {"broadcast", "join", "done"}
  /\ freed <=> main = "done"
  /\ freed => \A w \in Workers : At(w, "dead")
  /\ ~shutdown => \A w \in Workers : ~At(w, "dead")

Counted ==
  /\ ~freed => cur_queue_size = Len(queue)
  /\ Len(queue) <= added
  /\ \A i \in 1..Len(queue) : queue[i] = (added - Len(queue)) + i

Started ==
  /\ \A w \in Workers : At(w, "run") => worker[w] \in 1..(added - Len(queue))
  /\ \A v, w \in Workers : At(v, "run") /\ At(w, "run") /\ v # w => worker[v] # worker[w]
  /\ finished \subseteq 1..(added - Len(queue))

IInv == /\ TypeOK /\ LockOwner /\ Waiters /\ Stages /\ Counted /\ Started
        /\ AssertsHold /\ SomeoneAwake

(* Every task starts in the order of adding and at most once, none runs when    *)
(* the pool is freed.                                                           *)
Tasks == INSTANCE TaskPool
           WITH Tasks   <- 1..NumTasks,
                pending <- queue,
                running <- {worker[w] : w \in {v \in Workers : At(v, "run")}},
                closed  <- freed
TaskRefinement == Tasks!Spec

(* A task that was added is run, unless main destroys the pool first, which it   *)
(* need never do: no signal between the lock and the wait is lost, no lock kept   *)
(* and no task forgotten on the list (pthread_pool.c:89-90, 131-160).             *)
EveryTaskRuns ==
  \A t \in 1..NumTasks : added >= t ~> t \in finished \/ shutdown

(* pthread_pool.c:143: on shutdown "thread 0x%x will exit", and pool_destroy,   *)
(* which joins every thread, returns.                                           *)
DestroyReturns == shutdown ~> freed
===============================================================================
