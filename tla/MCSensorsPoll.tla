----------------------------- MODULE MCSensorsPoll -----------------------------
(* Two drivers: accel with one handle and mag with two.  Their rings are small, *)
(* so that a report may need several reads.                                     *)
EXTENDS SensorsPoll

MCHandles == <<{0}, {1, 2}>>
MCNumEvents == <<2, 2>>

(* accel: a value, or an event of unknown type.  mag: ABS_X, ABS_WHEEL, which   *)
(* marks both handles, and ABS_RX with ABS_X.                                   *)
MCReports == <<{<<{0}>>, <<{}>>}, {<<{1}>>, <<{1, 2}>>, <<{2}, {1}>>}>>
===============================================================================
