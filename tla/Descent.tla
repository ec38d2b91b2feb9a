---------------------------------- MODULE Descent ------------------------------
(* Termination without fairness: a tuple of natural numbers that goes down with *)
(* every step of a program, the first number weighing most, the last least.     *)
EXTENDS Integers

Ranks(n) == [1..n -> Nat]

Below(a, b) == \E i \in DOMAIN a : a[i] < b[i] /\ \A j \in 1..i - 1 : a[j] = b[j]
===============================================================================
