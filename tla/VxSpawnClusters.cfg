SPECIFICATION Spec
CONSTANTS
  NumCores = 4
  NumWarps = 2
  NumThreads = 2
  CoresPerCluster = 2
  Calls <- PartlyFilled
INVARIANT EachTaskOnce
