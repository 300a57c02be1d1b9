SPECIFICATION RpcSpec
CONSTANTS
  p1 = p1
  p2 = p2
  c1 = c1
  c2 = c2
  Agent = {p1, p2}
  Capability = {c1, c2}
  Listener = {p2}
  Filter = {{}, {c1}, {c1, c2}}
  Emits <- MCEmits
  Caller = {p1, p2}
  Server = {p1}
  Method = {c1}
  RateLimit = 2
  MaxCalls = 2
  MaxMsgs = 3
  MaxCuts = 1
INVARIANTS
  RpcTypeOK
  ListenersHear
  
  
  

  
\* the bounds on calls, messages and broken links may all be used up
CHECK_DEADLOCK FALSE
