---------------------------- MODULE MCAgentMesh ----------------------------
(* Model-checking instance of MeshRPC and the AgentMesh it is built on. *)
EXTENDS MeshRPC, TLC

CONSTANTS p1, p2, c1, c2

\* p1 emits one capability; p2, who listens for both, emits the other itself.
MCEmits == {<<p1, c1>>, <<p2, c2>>}
==============================================================================
