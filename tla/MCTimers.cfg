SPECIFICATION MCSpec
CONSTANTS
  MaxTimers = 3
  MaxTime = 2
  UringTimers = 2
  UringTime = 3
  Intervals = {0, 1}
  Delays = {0, 1, 2}
INVARIANTS
  TimersAreOwned
  EarliestIsArmed
PROPERTIES
  RunsAreDue
  TimersRun
CHECK_DEADLOCK FALSE
