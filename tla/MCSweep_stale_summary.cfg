SPECIFICATION Spec
CONSTANTS
  Matrix <- TwoSeeds
  MaxStops = 1
INVARIANT OkWasCompleted
CHECK_DEADLOCK FALSE
