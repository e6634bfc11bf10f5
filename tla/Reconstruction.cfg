SPECIFICATION Spec
CONSTANTS
  NOutputs = 2
  MaxNeed = 2
  Starts = {0, 1}
  MaxPrimes = 2
  MaxThreads = 2
  MaxCalls = 4
CHECK_DEADLOCK FALSE
INVARIANTS ReadsOwnValues OwnValues NothingMissing LoopAnswers
PROPERTIES CompletedStays CallReturns
