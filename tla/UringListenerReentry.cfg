SPECIFICATION Spec
CONSTANTS
  PendingDepth = 1
  EventCapacity = 1
  ThresholdOption = 0
  MaxConns = 3
  BadConns = {2}
  MaxAccepts = 2
  StopRacesCancel = FALSE
INVARIANTS
  AnsweredOnce
CHECK_DEADLOCK FALSE
