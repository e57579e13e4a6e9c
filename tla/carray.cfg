SPECIFICATION Spec
CONSTANTS
  o1 = o1
  o2 = o2
  v1 = v1
  v2 = v2
  Obj <- MCObj
  Value <- MCValue
  Blank = Blank
  Garbage = Garbage
  CapacityMark <- MCMarks
  Kinds = {"mixed", "packed"}
  CtorSizes = {0, 2}
  Storable <- MCOneValue
  MaxSize = 3
  MaxReserve = 3
  MaxUser = 1
  MaxRefs = 3
SYMMETRY MCSymmetry
CONSTRAINT MCBound
INVARIANTS
  TypeOK
  SizeWithinBlock
  RefsCovered
PROPERTIES
  KeepsElements
  ImplementsList
