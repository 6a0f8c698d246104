SPECIFICATION Spec
CONSTANTS
  MaxTx = 4
  MaxPage = 9
  AllocSizes = {1, 2, 3}
  MaxRuns = 3
  PageSlots = 4
  CountMax = 3
  MmapSizes = {8}
  AllocSize = 8
INVARIANTS
  TypeOK
  NoDuplicates
  InUseNotFree
  PageHoldsAll
  ListInv
PROPERTY
  ImplementsFreeSet
