SPECIFICATION ServiceSpec
CONSTANTS
  None = None
  Empty = Empty
  Garbage = Garbage
  Threads = 2
  Moduli = {1, 2}
  MaxGeneration = 2
  ProvisionModes = {1, 2}
  Batches <- AllBatches
  Requests <- AllRequests
INVARIANTS KeysBelong BatchSafe AnswersRight
PROPERTIES RefusalsChangeNothing CallsReturn
CHECK_DEADLOCK FALSE
