SPECIFICATION Spec
CONSTANTS
  r1 = r1
  r2 = r2
  Readers = {r1, r2}
  MaxTx = 4
  MaxPage = 16
  RunSizes = {2}
  MaxNew = 1
  MaxCrash = 1
  PageSlots = 8
  CountMax = 100
  MmapSizes = {10, 16}
  AllocSize = 100
CONSTRAINT
  OneReaderAfterCrash
SYMMETRY ReaderSymmetry
INVARIANTS
  TypeOK
  SnapshotIsolation
  NoPageLost
  WritesOnlyFresh
  MapCovers
  CommittedIntact
  Durability
  IInv
  PageInv
PROPERTY
  ImplementsStore
