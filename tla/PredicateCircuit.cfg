SPECIFICATION CircuitSpec
CONSTANTS
  MaxLowers = 3
  Values = {0, 1}
  PruneProblems <- SmallPrunes
  AcceptProblems <- SmallAccepts
  Orientations <- RepeatedBits
  Colours <- RepeatedBits
INVARIANTS LabelsEncodeValues DecisionIsMeaning PathsAgree
CHECK_DEADLOCK FALSE
