---------------------------- MODULE MCTransport ----------------------------
(* Model-checking instance of Transport: x and y are given r, a relay, as peer. *)
EXTENDS Transport, TLC

CONSTANTS r, x, y

MCDials == {<<x, r>>, <<y, r>>}
==============================================================================
