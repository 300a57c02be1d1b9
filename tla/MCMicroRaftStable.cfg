SPECIFICATION Spec
CONSTANTS
  n1 = n1
  n2 = n2
  n3 = n3
  c1 = c1
  c2 = c2
  None = None
  Node = {n1, n2, n3}
  Campaigner = {n1}
  Restarter = {n3}
  Command = {c1, c2}
  MaxTerm = 1
  MaxLog = 2
  MaxCalls = 2
SYMMETRY Symmetry
INVARIANTS
  StateMachineSafety
  FollowersTrail
\* A campaign may lose its votes and use up the one term.
CHECK_DEADLOCK FALSE
