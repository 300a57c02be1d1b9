------------------------------- MODULE Merkle -------------------------------
(* The tree over a telemetry log and the difference of two logs
   (depin/merkle_sync.py). Hashes are free: a leaf's is the message alone, a
   node's the pair of its children's, and nothing collides. *)
EXTENDS Naturals, Sequences, SequencesExt

EmptyRoot == <<>>

\* mutant: a leaf is made of what was measured, without the time.
LeafUntimed(msg) == <<msg.metric>>

Leaf(msg) == <<msg>>

\* The level above: a last node without a neighbour is paired with itself.
Pairs(level) ==
  IF Len(level) = 1 THEN level
  ELSE [i \in 1..((Len(level) + 1) \div 2) |->
          <<level[2 * i - 1], level[IF 2 * i <= Len(level) THEN 2 * i ELSE 2 * i - 1]>>]

\* The levels from the leaves up: as many as there are leaves are enough.
Levels(messages) ==
  LET level[k \in 0..Len(messages)] ==
        IF k = 0 THEN [i \in DOMAIN messages |-> Leaf(messages[i])] ELSE Pairs(level[k - 1])
  IN level

RootHash(messages) ==
  IF messages = <<>> THEN EmptyRoot ELSE Levels(messages)[Len(messages)][1]

\* mutant: the messages are taken from the other end.
NewestFromFront(local, n) == SubSeq(local, 1, n)

Newest(local, n) == SubSeq(local, Len(local) - n + 1, Len(local))

\* What a holder of local sends to somebody with that root and that many leaves.
ComputeDiff(local, remoteRoot, remoteCount) ==
  IF remoteRoot = RootHash(local) THEN <<>>
  ELSE IF remoteCount = 0 THEN local
  ELSE IF Len(local) > remoteCount THEN Newest(local, Len(local) - remoteCount)
  ELSE <<>>
==============================================================================
