SPECIFICATION NodeSpec
CONSTANTS
  NContexts = 2
  NLearn = 3
  NSingular = 1
  MaxCalls = 4
CHECK_DEADLOCK FALSE
INVARIANT RelearnedCopies
