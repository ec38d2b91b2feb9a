------------------------------ MODULE EventQueue ------------------------------
(* What InputEventCircularReader promises to the sensor classes: a FIFO of at *)
(* most numEvents input events.  A fill appends what one read() returned and  *)
(* next() drops the event that readEvent() shows.                             *)
EXTENDS Naturals, Sequences

CONSTANTS Events,     \* the input events a device can report
          numEvents   \* how many events the reader holds

VARIABLES q,          \* the events read and not yet consumed, oldest first
          delivered   \* what the device delivered last

vars == <<q, delivered>>

Batches(n) == UNION {[1..k -> Events] : k \in 1..n}

Init == q = <<>> /\ delivered = <<>>

(* One read() of the device delivers one or more events, never more than fit. *)
Deliver == \E evs \in Batches(numEvents - Len(q)) :
             /\ q' = q \o evs
             /\ delivered' = evs

Consume == /\ q # <<>>
           /\ q' = Tail(q)
           /\ UNCHANGED delivered

Next == Deliver \/ Consume

Spec == Init /\ [][Next]_vars
===============================================================================
