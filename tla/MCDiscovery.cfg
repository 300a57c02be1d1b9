SPECIFICATION DhtFairSpec
CONSTANTS
  p1 = p1
  p2 = p2
  x = x
  Agent = {p1, p2}
  Bridged = {x}
  MaxKeys = 2
  BucketSize = 3
  MaxVersion = 2
  MaxBridged = 2
INVARIANTS
  DhtTypeOK
  SurfacesAgree
PROPERTIES
  Converges
\* every agent may have stopped for the last time
CHECK_DEADLOCK FALSE
