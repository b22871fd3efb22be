SPECIFICATION LoopFairSpec
CONSTANTS
  TimerSlots = {0, 1}
  TimerNames = {1, 2, 3}
  LoopSQDepth = 2
  Hasty = FALSE
PROPERTIES
  TimerContract
  TimersEnd
CHECK_DEADLOCK FALSE
