SPECIFICATION MCSpec
CONSTANTS
  Readers = {r1}
  Writer = w
  NoOne = none
  MaxFails = 1
  MaxMoves = 2
  WriteSize = 3
  MaxData = 2
  UringWriteSize = 2
INVARIANTS
  ReadinessKept
  StreamEndsQuiet
PROPERTIES
  WritesOnce
  TimeoutsAreDue
  StreamCallsEnd
  ConnectDecidedOnce
  ConnectEnds
CHECK_DEADLOCK FALSE
