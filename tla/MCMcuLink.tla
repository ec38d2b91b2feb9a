------------------------------- MODULE MCMcuLink ------------------------------
(* A small instance of McuLink for TLC: an array of 10 bytes, so that frames    *)
(* with up to 1 byte of data fit and one with 2 does not.                      *)
EXTENDS McuLink

MCMessages == {[cmd1 |-> 1, data |-> <<>>], [cmd1 |-> 2, data |-> <<170>>],
               [cmd1 |-> 3, data |-> <<170, 119>>]}
===============================================================================
