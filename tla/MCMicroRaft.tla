---------------------------- MODULE MCMicroRaft ----------------------------
(* Model-checking instance of MicroRaft. *)
EXTENDS MicroRaft, TLC

\* Nodes that may campaign are interchangeable, and so are those that may not;
\* None stands apart.
Symmetry == Permutations(Campaigner) \cup Permutations(Node \ Campaigner)
==============================================================================
