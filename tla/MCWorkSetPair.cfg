CONSTANTS
  SetChunkSize = 4
  Pids = {}
  Keys <- MC_Keys
  ChunkPairs <- MC_ChunkPairs
  MaxEntries = 2
SPECIFICATION Spec
INVARIANTS TypeOK CompareSymmetric
CHECK_DEADLOCK FALSE
