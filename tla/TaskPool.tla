------------------------------- MODULE TaskPool -------------------------------
(* What the thread pool promises to who hands it tasks: they are started in    *)
(* the order they were added, each at most once, and when the pool is destroyed *)
(* nothing is running and nothing starts any more.                             *)
EXTENDS Naturals, Sequences

CONSTANT Tasks

VARIABLES pending,    \* added and not started, oldest first
          running,    \* started and not finished
          finished,
          closed      \* the pool has been destroyed

vars == <<pending, running, finished, closed>>

Init == pending = <<>> /\ running = {} /\ finished = {} /\ closed = FALSE

Known == {pending[i] : i \in 1..Len(pending)} \union running \union finished

Add == \E t \in Tasks \ Known :
         /\ ~closed
         /\ pending' = Append(pending, t)
         /\ UNCHANGED <<running, finished, closed>>

Start == /\ ~closed /\ pending # <<>>
         /\ running' = running \union {Head(pending)}
         /\ pending' = Tail(pending)
         /\ UNCHANGED <<finished, closed>>

Finish == \E t \in running :
            /\ running' = running \ {t}
            /\ finished' = finished \union {t}
            /\ UNCHANGED <<pending, closed>>

(* Tasks that were not started are dropped. *)
Destroy == /\ ~closed /\ running = {}
           /\ pending' = <<>>
           /\ closed' = TRUE
           /\ UNCHANGED <<running, finished>>

Next == Add \/ Start \/ Finish \/ Destroy

Spec == Init /\ [][Next]_vars
===============================================================================
