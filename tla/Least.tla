------------------------------- MODULE Least -------------------------------
(* The first position at which a scan stops, as the loops of this code do. *)
EXTENDS Naturals, FiniteSets

Least(S) == CHOOSE x \in S : \A y \in S : x <= y
=============================================================================
