SPECIFICATION FairSpec
CONSTANTS
  NumCores = 2
  GenMod = 2
  Occupancy = 2
  StopSlots = 8
  NumSets = 2
  SetOf <- MCSetOf
  LandBy = {"settle"}
  PollExpires = FALSE
INVARIANTS
  TypeOK
  DoneMeansDurable
  DoneMeansQuiesced
PROPERTIES
  KeepsPromise
  EpilogueCompletes
CHECK_DEADLOCK FALSE
