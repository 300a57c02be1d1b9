SPECIFICATION Spec
CONSTANTS
  n1 = n1
  n2 = n2
  n3 = n3
  c1 = c1
  c2 = c2
  None = None
  Node = {n1, n2, n3}
  Campaigner = {n1, n2}
  Restarter = {}
  Command = {c1}
  MaxTerm = 2
  MaxLog = 2
  MaxCalls = 1
SYMMETRY Symmetry
INVARIANTS
  TypeOK
  LogTermsOrdered
PROPERTIES
  LeaderKeepsTerm
\* Every call may be lost and every term used up.
CHECK_DEADLOCK FALSE
