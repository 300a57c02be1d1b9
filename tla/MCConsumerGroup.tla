--------------------------- MODULE MCConsumerGroup ---------------------------
(* Model-checking instance of ConsumerGroup. *)
EXTENDS ConsumerGroup, TLC

\* Consumers are interchangeable: nothing orders them but the join order,
\* which is part of the state.
Symmetry == Permutations(Consumer)
==============================================================================
