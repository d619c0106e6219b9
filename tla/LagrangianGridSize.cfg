SPECIFICATION Spec
CONSTANTS
  ScaleValues = {8}
  RowValues = {1}
  CostBits = {1}
  CompareBits = {8}
  Denominators = {3}
  Requests = {2, 3}
  Spans = {1, 2}
  Domains <- AllDomains
  Configs <- AllConfigs
  Thresholds = {0, 1, 2, 4, 5, 7}
  SecureBits = 8
  MaxInt = 31
INVARIANTS SizeAtMostRequested
CHECK_DEADLOCK FALSE
