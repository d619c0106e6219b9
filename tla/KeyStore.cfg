SPECIFICATION Spec
CONSTANTS
  a = a
  b = b
  None = None
  Torn = Torn
  Ids = {a, b}
  MaxKeys = 3
INVARIANTS SavedKeysOpen FailedCallsChangeNothing
