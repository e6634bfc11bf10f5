SPECIFICATION Spec
CONSTANTS
  Sessions = {a, b}
  Dummies = {b}
  NOutputs = 2
  MaxPrimes = 2
  MaxCalls = 6
INVARIANTS OwnValuesOnly NothingLost
CHECK_DEADLOCK FALSE
