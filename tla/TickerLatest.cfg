SPECIFICATION Spec
CONSTANTS
  MaxTime = 4
  Delays = {0, 1, 2}
PROPERTIES
  SeesLatestTick
CHECK_DEADLOCK FALSE
