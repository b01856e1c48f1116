SPECIFICATION Spec
CONSTANTS
  b1 = b1
  b2 = b2
  b3 = b3
  b4 = b4
  n1 = n1
  n2 = n2
  Blocks <- MCBlocks
  Names <- MCNames
  NSlots = 2
  MaxIno = 2
  MaxVer = 3
  MaxCuts = 1
  MaxLosses = 1
  ResvDeletion = 2
  ResvWrite = 3
SYMMETRY Symmetry
CHECK_DEADLOCK FALSE
INVARIANTS
  RemountShowsDirectory
  EntriesHaveInodes
  NeverOutOfRoom
PROPERTIES
  CrashSafe
  ReserveKept
