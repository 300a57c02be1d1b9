------------------------------- MODULE MCRelay -------------------------------
(* Model-checking instance of Relay. *)
EXTENDS Relay, TLC

CONSTANTS a1, a2

Symmetry == Permutations(Agent)
==============================================================================
