SPECIFICATION Spec
CONSTANTS
  o1 = o1
  o2 = o2
  o3 = o3
  Objects = {o1, o2, o3}
  NoObject = NoObject
  MaxCommit = 2
  MaxCrash = 2
SYMMETRY ObjectSymmetry
INVARIANTS
  TypeOK
  OneOwner
  AckedKept
