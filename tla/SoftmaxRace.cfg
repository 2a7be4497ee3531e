SPECIFICATION Spec
CONSTANTS
  NumWarps = 3
  NumHeads = 2
  NumBlocks = 2
  NumTiles = 2
  NumSteps = 2
  Kernels <- SoftmaxAlone
  Program <- AllPrograms
INVARIANTS MaxIsKept
CHECK_DEADLOCK TRUE
