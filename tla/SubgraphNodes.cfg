SPECIFICATION Spec
CONSTANTS
  Xs = {1, 2}
  Mods = {1, 2}
  Workers = {"w"}
  NodeKinds = {"simple", "memoized", "map", "cached", "fit", "multifit", "rec"}
  MaxFails = 1
  MaxSteps = 5
INVARIANTS AnswersOwnPoint NothingForgotten
CHECK_DEADLOCK FALSE
