----------------------------- MODULE SensorChannel -----------------------------
(* What the sensors HAL promises for one sensor handle: the reports of the      *)
(* device reach the application in the order they were made and once each, and  *)
(* one is left out only when the handle is disabled at the time it is handled.  *)
(* A report is known by its time.                                               *)
EXTENDS Naturals, Sequences

CONSTANT Times     \* the timestamps of reports

VARIABLES queue,   \* the reports of this handle on their way
          out,     \* those handed to the application, in order
          on       \* the handle is enabled

vars == <<queue, out, on>>

Init == queue = {} /\ out = <<>> /\ ~on

(* The device makes a report, later than all before it. *)
Post == \E t \in Times \ queue :
          /\ \A q \in queue : q < t
          /\ \A i \in 1..Len(out) : out[i] < t
          /\ queue' = queue \cup {t}
          /\ UNCHANGED <<out, on>>

Oldest(t) == t \in queue /\ \A q \in queue : t <= q

Deliver == \E t \in queue :
             /\ on /\ Oldest(t)
             /\ out' = Append(out, t)
             /\ queue' = queue \ {t}
             /\ UNCHANGED on

Drop == \E t \in queue :
          /\ ~on /\ Oldest(t)
          /\ queue' = queue \ {t}
          /\ UNCHANGED <<out, on>>

Switch == on' = ~on /\ UNCHANGED <<queue, out>>

Next == Post \/ Deliver \/ Drop \/ Switch

Spec == Init /\ [][Next]_vars
===============================================================================
