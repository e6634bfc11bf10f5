SPECIFICATION NodeSpec
CONSTANTS
  NContexts = 2
  NLearn = 3
  NSingular = 1
  MaxCalls = 5
CHECK_DEADLOCK FALSE
INVARIANTS LearnedIsConfirmed LengthsAgree CopiesKnowOptions
