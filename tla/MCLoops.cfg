SPECIFICATION LoopsSpec
CONSTANTS
  Threads = {t}
  MaxPosts = 2
  MaxWork = 1
  Ops = {o, p}
  Wake = Wake
  CancelAll = CancelAll
  SqEntries = 2
  MaxCqes = 1
  MaxCqesPerTurn = 2
INVARIANTS
  AcceptedRunInOrder
  NoLostWakeup
  UringCountsAreTrue
PROPERTIES
  StopsAndRuns
CHECK_DEADLOCK FALSE
