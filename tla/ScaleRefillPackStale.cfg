SPECIFICATION Spec
CONSTANTS
  NumClusters = 2
  NumTiles = 3
  HostTiles = 3
  Builds <- PackOnStaleSmem
INVARIANT MeshReadsItsTile
CHECK_DEADLOCK FALSE
