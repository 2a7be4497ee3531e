SPECIFICATION Spec
CONSTANTS
  NumWarps = 3
  NumHeads = 2
  NumBlocks = 3
  NumTiles = 2
  NumSteps = 2
  Kernels <- MeshFlashAlone
  Program <- AllPrograms
INVARIANTS ReadsItsTile
CHECK_DEADLOCK TRUE
