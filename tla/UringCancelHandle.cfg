SPECIFICATION Spec
CONSTANTS
  Readers = {r1, r2}
  Writer = w
  NoOne = none
  WriteSize = 1
  MaxFails = 0
  MaxMoves = 1
  MoveWhileRetrying = FALSE
INVARIANTS
  ReadyKeepsHandle
CHECK_DEADLOCK FALSE
