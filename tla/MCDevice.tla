------------------------------ MODULE MCDevice ------------------------------
(* Model-checking instance of Device. *)
EXTENDS Device, TLC

CONSTANTS o1, o2, hot

Symmetry == Permutations(Object) \cup Permutations(Metric)
==============================================================================
