SPECIFICATION Spec
CONSTANTS
  P = 7
  NVars = 5
  NEqs = 5
  Systems <- MCSystems
  Settings <- MCSettings
  MaxCol = 3
  Workers = {1}
  NSingular = 1
  MaxCalls = 3
CHECK_DEADLOCK FALSE
INVARIANTS SolvesTheSystem WritesWhatItPromised
