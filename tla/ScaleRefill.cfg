SPECIFICATION FairSpec
CONSTANTS
  NumClusters = 2
  NumTiles = 3
  HostTiles = 3
  Builds <- ReplayOrPack
INVARIANTS TypeOK MeshReadsItsTile PortExclusive ClustersInStep
PROPERTY EveryTileDone
CHECK_DEADLOCK FALSE
