SPECIFICATION FairSpec
CONSTANTS
  NumCores = 2
  WarpsPerCore = 3
  NumItems = 8
  Programs <- SingleAndRope
INVARIANTS TypeOK ContextIsMine WorkIsDivided PhaseOrder
PROPERTY ComesToRest
