SPECIFICATION Spec
CONSTANTS
  NumCores = 2
  WarpsPerCore = 3
  NumItems = 8
  Programs <- JustRmsNorm
INVARIANT PrologueStored
