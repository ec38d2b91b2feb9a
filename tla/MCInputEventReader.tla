-------------------------- MODULE MCInputEventReader --------------------------
EXTENDS InputEventReader, TLC

(* Events are only compared: any permutation of them is a symmetry. *)
EventSymmetry == Permutations(Events)
===============================================================================
