SPECIFICATION Spec
CONSTANTS
  r1 = r1
  r2 = r2
  w = w
  Readers = {r1, r2}
  Writer = w
  NoThread = NoThread
  MaxTx = 4
SYMMETRY ReaderSymmetry
INVARIANTS
  TypeOK
  MetaWhole
  MetaFresh
  CopyIsStable
  WriterNumbers
