---------------------------- MODULE MCDiscovery ----------------------------
(* Model-checking instance of Discovery: two agents and a bridged name. *)
EXTENDS Discovery, TLC

CONSTANTS p1, p2, x
==============================================================================
