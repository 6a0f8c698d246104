SPECIFICATION Spec
CONSTANTS
  Readers = {}
  MaxTx = 4
  MaxPage = 16
  RunSizes = {1, 2}
  MaxNew = 1
  MaxCrash = 0
  PageSlots = 8
  CountMax = 100
  MmapSizes = {8, 16}
  AllocSize = 100
CHECK_DEADLOCK FALSE
INVARIANT
  NoStalePointer
