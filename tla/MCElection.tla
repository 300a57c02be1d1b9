----------------------------- MODULE MCElection -----------------------------
(* Model-checking instances of Election. *)
EXTENDS Election, TLC

CONSTANTS n1, n2, n3

Symmetry == Permutations(Node)
==============================================================================
