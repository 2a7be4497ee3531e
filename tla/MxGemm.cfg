SPECIFICATION MxSpec
CONSTANTS
  NumTiles = 5
  NumWarps = 3
  FenceC = TRUE
  Quarter = 4
  WordSpan = 1024
  MaxRows = 8
  Exponents <- BlockExponents
  Significands <- TopSignificands
  Depth = 19
INVARIANTS
  TypeOK
  MeshReadsItsTile
  MoveOutSeesC
  DestIsFree
  NoNeedlessReject
  PackedIsExact
  QuantizeIsNearest
PROPERTY PipelineCompletes
