CONSTANTS
  N = 3
  T = 2
  MaxAttempts = 2
  MaxLost = 1
SPECIFICATION Spec
CHECK_DEADLOCK FALSE
PROPERTIES
  EveryPageStarts
