SPECIFICATION Spec
CONSTANTS
  Regions = {4, 10, 12}
  Requests = {1, 2, 3, 4, 5}
  MinChunkSize = 2
  MaxChunkSize = 4
  MaxPools = 2
  BufferCount = 3
INVARIANTS
  ChunksAccounted
  ScratchPrivate
CHECK_DEADLOCK FALSE
