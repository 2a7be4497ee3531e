SPECIFICATION FairSpec
CONSTANTS
  NumCores = 2
  GenMod = 3
  HoldFirst = TRUE
  StartSpins = 2
  DoneSpins = 2
  MaxRuns = 2
INVARIANTS
  TypeOK
  SuccessIsThisRun
  StartProvesThisRun
  NoLeftoverDone
PROPERTIES
  BuffersUndisturbed
  HostReturns
CHECK_DEADLOCK FALSE
