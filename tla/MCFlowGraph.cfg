SPECIFICATION MCSpec
CONSTANTS
  MaxSlots = 4
  Widths = {0, 1}
  MaxUsers = 1
  MaxCalls = 6
INVARIANTS TypeOK InputsPinned WidthsAgree FreeListExact ReadyToEvaluate SeqIsTopological
PROPERTIES FrozenWhileSubgraph
CHECK_DEADLOCK FALSE
