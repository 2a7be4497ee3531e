SPECIFICATION FairSpec
CONSTANTS
  NumCores = 2
  NumWarps = 3
  NumThreads = 2
  CoresPerCluster = 2
  Calls <- AllCalls
INVARIANTS
  TypeOK
  EachTaskOnce
  NoWorkerOutlivesCall
PROPERTY CallReturns
