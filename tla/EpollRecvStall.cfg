SPECIFICATION Spec
CONSTANTS
  PendingDepth = 1
  EventCapacity = 4
  BufferCapacity = 4
  ThresholdOption = 3
  MaxData = 6
  MaxHeld = 4
PROPERTY
  NextProgress
CHECK_DEADLOCK FALSE
