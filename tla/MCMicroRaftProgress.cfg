SPECIFICATION FairSpec
CONSTANTS
  n1 = n1
  n2 = n2
  n3 = n3
  c1 = c1
  c2 = c2
  None = None
  Node = {n1, n2, n3}
  Campaigner = {n1}
  Restarter = {n3}
  Command = {c1}
  MaxTerm = 2
  MaxLog = 2
  MaxCalls = 1
PROPERTIES
  ProposedIsApplied
\* A campaign may lose its votes and use up every term.
CHECK_DEADLOCK FALSE
