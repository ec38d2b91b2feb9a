------------------------------ MODULE GpsSession ------------------------------
(* What a GPS HAL owes the Android framework about its callbacks, whatever its *)
(* threads do: a session is opened by init, every callback falls between that  *)
(* and the end of cleanup, and nothing is delivered to a framework that is     *)
(* gone.                                                                       *)

CONSTANT Callbacks   \* the kinds of callback the framework registers

VARIABLES up,        \* a session is open: init has begun, cleanup has not ended
          last       \* the callback delivered last in this session

vars == <<up, last>>

None == "none"

Init == up = FALSE /\ last = None

Open == /\ ~up
        /\ up' = TRUE
        /\ UNCHANGED last

Deliver == /\ up
           /\ last' \in Callbacks
           /\ UNCHANGED up

Close == /\ up
         /\ up' = FALSE
         /\ last' = None

Next == Open \/ Deliver \/ Close

Spec == Init /\ [][Next]_vars
===============================================================================
