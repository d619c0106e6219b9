SPECIFICATION Spec
CONSTANTS
  None = None
  Scale = 5
  Precision = 4
  Fraction = 8
  Thresholds = {1, 2, 4}
  Tasks <- AllTasks
INVARIANTS TypeOK SumsExact OperandsFit
PROPERTIES FollowsPlaintext
CHECK_DEADLOCK FALSE
