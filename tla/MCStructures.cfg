SPECIFICATION MCSpec
CONSTANTS
  Empty = Empty
  None = None
  Coroutines = {p, q, r}
  Channels = {a, b}
  Unbuffered = {a}
  Capacity = 3
  MaxSends = 4
  TreeNodes = 8
  LinkNodes = 4
  Foreign = {f, g}
  SlotsPerChunk = 2
  MaxChunks = 2
  BytesBits = 3
  HeapSizes = {7, 8}
  Alignments = {3}
  Threads = {t, u}
  PoolSlots = 3
  MaxOverflow = 2
  Buffers = {1, 2}
  Bytes = {0, 1}
  BlockSize = 2
  Hints = {0, 1, 3}
  IovCounts = {1, 2}
  MaxBytes = 3
  MaxBlocks = 3
  Capacities = {0, 2, 3, 4}
  BufferSizes = {0, 2, 3, 4}
  Asks = {0, 1, 2, 5}
  SizeMax = 15
INVARIANTS
  NoMissedMatch
  DecidedOnce
  ContainersHoldElements
  BufferReadsAsText
  BuffersPublishedOnce
PROPERTIES
  ImplementsFifo
  SlotsHaveOneOwner
SYMMETRY Symmetry
CHECK_DEADLOCK FALSE
