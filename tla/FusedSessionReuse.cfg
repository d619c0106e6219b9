SPECIFICATION Spec
CONSTANTS
  Clients = {c1}
  RawPeers = {}
  Sessions = {s1}
  Operations = {o1}
  Bindings = {b1}
  Backlog = 1
  MaxSolves = 2
  MaxCalls = 2
  MaxFrames = 0
  MaxRestarts = 0
  None = None
PROPERTIES ReuseLeftToAuthorizer
CHECK_DEADLOCK FALSE
