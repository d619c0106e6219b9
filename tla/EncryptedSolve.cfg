SPECIFICATION FairSolve
CONSTANTS
  None = None
  Matrices <- SmallMatrices
  Thresholds = {0, 1, 2, 4, 5, 7}
  SearchThresholds = {2, 5}
  Scale = 8
  QuotientBits = 4
  Searches = {"plain", "suffix", "lagrangian", "enumerate"}
  ScaleValues = {5, 8}
  RowValues = {1, 2, 3}
  CostBits = {1, 2}
  CompareBits = {5, 7, 8, 9}
  Denominators = {1, 3}
  Requests = {1, 2, 3, 5}
  Spans = {1, 2}
  Domains <- AllDomains
  Configs <- AllConfigs
  Searched <- AllSearched
  SecureBits = 8
  MaxInt = 31
INVARIANTS AccumulatorsExact BoundsAdmissible IncumbentBestOfSettled
  EnumerationFindsOptimum NeverRefuted OperandsFit
  SearchBrackets GridSound
PROPERTIES SolveEnds
CHECK_DEADLOCK FALSE
