SPECIFICATION RuntimeSpec
CONSTANTS
  N = 1
  Requesters = {r}
  Grace = TRUE
  Uring = TRUE
  MaxLive = 1
INVARIANT
  GraceKept
CHECK_DEADLOCK FALSE
