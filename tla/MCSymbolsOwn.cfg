CONSTANTS
  f1 = f1
  f2 = f2
  c1 = c1
  s1 = s1
  FuncNames <- MCFuncNames
  CFiles <- MCCFiles
  NmNames <- MCNmNames
  NmAddrs = {1}
  KBase = 1
  MaxPc = 3
  MaxLines = 3
  MaxClock = 2
  MaxVer = 2
  MaxRuns = 2
SPECIFICATION Spec
INVARIANT OwnEntryKept
CHECK_DEADLOCK FALSE
