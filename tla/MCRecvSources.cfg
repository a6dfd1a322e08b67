SPECIFICATION MCSpec
CONSTANTS
  PendingDepth = 2
  EventCapacity = 3
  BufferCapacity = 4
  ThresholdOption = 0
  AcceptDepth = 3
  AcceptCapacity = 9
  AcceptThreshold = 8
  SourceDepth = 1
  EpollCapacity = 4
  EpollThreshold = 3
  EpollData = 6
  EpollHeld = 3
  UringCapacity = 2
  UringThreshold = 0
  UringData = 4
  UringHeld = 2
  RingSlots = 2
INVARIANTS
  RecvInOrder
  RecvAccounted
  SourceInv
PROPERTIES
  RecvCallsReturn
  ImplementsBarrier
  AcceptImplementsBarrier
  AcceptHasRoom
  StopsConverge
CHECK_DEADLOCK FALSE
