SPECIFICATION FairSpec
CONSTANTS
  Callers = {p1, p2}
  Identities = {i1, i2}
  MaxCalls = 2
  None = None
INVARIANTS TypeOK ConsumedWereApproved
PROPERTIES EngineIsSingleUse ApprovedIsResolved
CHECK_DEADLOCK FALSE
