SPECIFICATION LoopFairSpec
CONSTANTS
  TimerSlots = {0, 1}
  TimerNames = {1, 2}
  LoopSQDepth = 2
  Hasty = TRUE
INVARIANTS
  FiresOnTime
CHECK_DEADLOCK FALSE
