SPECIFICATION Spec
CONSTANTS
  MaxGraphs = 3
  NodeIds = {1, 2}
  NWorkers = 2
  Evaluators = {e1}
  MaxCalls = 9
INVARIANTS DataFits CountsExact NoCycles
CHECK_DEADLOCK FALSE
