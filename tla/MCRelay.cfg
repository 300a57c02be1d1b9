SPECIFICATION Spec
CONSTANTS
  a1 = a1
  a2 = a2
  None = None
  Agent = {a1, a2}
  Initiator = {a1}
  MaxConn = 3
  MaxCuts = 1
  MaxKeys = 2
INVARIANTS
  TypeOK
  NoDeadEntries
  PeersSettle
  SharedKey
\* The connections and keys are used up.
CHECK_DEADLOCK FALSE
