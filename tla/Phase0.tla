------------------------------- MODULE Phase0 -------------------------------
(* What the parts of phase0 have in common: each node runs one P2PTransport
   (transport.py) and one RaftNode over it (raft.py). *)

CONSTANT Node
==============================================================================
