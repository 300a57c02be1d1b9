SPECIFICATION Spec
CONSTANTS
  o1 = o1
  o2 = o2
  hot = hot
  NotListed = NotListed
  Object = {o1, o2}
  Metric = {hot}
  Limit = 3
  Ttl = 1
  DeviceTtl = 1
  MaxTime = 3
  MaxRows = 4
SYMMETRY Symmetry
INVARIANTS
  TypeOK
  
  ReaderMissesNothing
  RootTellsMessages
  
\* the time may be over and nothing be left to write or read
CHECK_DEADLOCK FALSE
