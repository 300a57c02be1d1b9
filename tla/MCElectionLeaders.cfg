SPECIFICATION Spec
CONSTANTS
  n1 = n1
  n2 = n2
  n3 = n3
  None = None
  Node = {n1, n2, n3}
  Campaigner = {n1, n2}
  Stopper = {}
  MaxTerm = 2
INVARIANTS
  OneLeaderPerTerm
\* once the last term is reached, nodes may have nothing left to react to
CHECK_DEADLOCK FALSE
