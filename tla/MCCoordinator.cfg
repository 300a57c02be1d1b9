SPECIFICATION Spec
CONSTANTS
  n1 = n1
  n2 = n2
  None = None
  Node = {n1, n2}
  Campaigner = {n1}
  Restarter = {n1, n2}
  MaxTerm = 1
  MaxLog = 2
  MaxCalls = 1
  MaxBroadcasts = 2
INVARIANTS
  TypeOK
  
  ProcessedOnce
  
\* The broadcasts, the one term and the restarts are used up.
CHECK_DEADLOCK FALSE
