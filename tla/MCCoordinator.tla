--------------------------- MODULE MCCoordinator ---------------------------
(* Model-checking instance of Coordinator. *)
EXTENDS Coordinator, TLC

============================================================================
