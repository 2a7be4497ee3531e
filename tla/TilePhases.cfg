SPECIFICATION FairSpec
CONSTANTS
  NumWarps = 3
  NumHeads = 2
  NumBlocks = 3
  NumTiles = 3
  NumSteps = 4
  Kernels <- AllKernels
  Program <- AllPrograms
INVARIANTS NoDataRace ReadsItsTile OneSweep StagesAlone BanksApart ScriptIsOrdered
PROPERTY StreamsTiles
CHECK_DEADLOCK TRUE
