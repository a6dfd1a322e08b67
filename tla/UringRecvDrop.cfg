SPECIFICATION Spec
CONSTANTS
  PendingDepth = 1
  EventCapacity = 2
  BufferCapacity = 2
  ThresholdOption = 0
  MaxData = 5
  MaxHeld = 3
  RingSlots = 2
  StopWhileWaiting = FALSE
INVARIANT
  NeverDrop
CHECK_DEADLOCK FALSE
