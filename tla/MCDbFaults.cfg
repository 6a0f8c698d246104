SPECIFICATION FaultSpec
CONSTANTS
  Readers = {}
  MaxTx = 3
  MaxPage = 16
  RunSizes = {1}
  MaxNew = 1
  MaxCrash = 0
  PageSlots = 8
  CountMax = 100
  MmapSizes = {8, 16}
  AllocSize = 100
CHECK_DEADLOCK FALSE
INVARIANT
  LiveNotFree
