SPECIFICATION TcpFairSpec
CONSTANTS
  r = r
  x = x
  y = y
  Node = {r, x, y}
  Relay = {r}
  Dials <- MCDials
  Publisher = {x}
  Restarter = {r}
  MaxConns = 4
  MaxPubs = 2
  MaxBreaks = 2
INVARIANTS
  NoDeadWriters
  
PROPERTIES
  DialersReconnect
\* the bounds on connections, publications and breaks may all be used up
CHECK_DEADLOCK FALSE
