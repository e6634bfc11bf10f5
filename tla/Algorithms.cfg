SPECIFICATION AlgorithmsSpec
CONSTANTS
  P = 31
  Stride = 3
  X0 = 25
  NChecks = 2
  NSingular = 1
  Points = {p, q}
  Functions <- MCFunctions
  Kinds = {"newton", "thiele", "linear", "unirec", "laurent"}
  NOut = 2
  BadAt = {25, 29, 3}
  MaxBad = 1
  MaxDegree = 2
  Order = 1
  MaxCalls = 4
  Base = 3
  MachineMax = 9
  CoeffMax = 10
  Width = 4
  Expressions <- MCExpressions
  NumberLists <- MCNumberLists
  RatFunctions <- MCRatFunctions
  Maps <- MCMaps
  Inputs <- MCInputs
  Primes = {7, 11}
  Workers = {1}
  MaxNodeCalls = 2
INVARIANTS Reconstructs OwnCoefficients MeansWhatItSays StackFits
CHECK_DEADLOCK FALSE
