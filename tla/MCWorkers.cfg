SPECIFICATION MCSpec
CONSTANTS
  EpollDepth = 2
  EpollCapacity = 2
  Sources = {a, b}
  NoHolder = NoHolder
  EpollConns = 4
  EpollBad = {2}
  PendingDepth = 1
  EventCapacity = 1
  ThresholdOption = 0
  UringConns = 4
  UringBad = {1}
  MaxAccepts = 1
  Roots = {r1, r2}
  N = 2
  Requesters = {r, s}
  Grace = TRUE
  Uring = TRUE
  MaxLive = 1
INVARIANTS
  ListenersInOrder
  ListenersAccounted
  JoinInv
  FrameFreedOnce
  GroupOutlivesStop
  WorkersEndInOrder
PROPERTIES
  ListenersEndQuiet
  AcceptCallsReturn
  JoinReturns
  StopReachesWorkers
CHECK_DEADLOCK FALSE
