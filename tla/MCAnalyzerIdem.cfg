CONSTANTS
  SetChunkSize = 4
  Pids = {1, 2, 3}
  Locks = {0, 1}
  Gens = {1}
  WSs <- MC_WSs
  Callers = {ra1}
  WSizes = {0, 1}
  KernelBase = 48
  WsFilterBase = 3
  UserApp = FALSE
  Threshold = 1
  WindowSize = 3
  MaxCpus = 2
  CpuCounts <- MC_CpuCounts
  SampleRounds = 1
  SampleRate = 50
  MaxLines = 5
SPECIFICATION Spec
INVARIANT AveragesFromRealSamples
CHECK_DEADLOCK FALSE
