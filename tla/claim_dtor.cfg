SPECIFICATION Spec
CONSTANTS
  o1 = o1
  o2 = o2
  v1 = v1
  v2 = v2
  Obj <- MCOne
  Value <- MCValue
  Blank = Blank
  Garbage = Garbage
  CapacityMark <- MCMarks
  Kinds = {"mixed"}
  CtorSizes = {0}
  Storable <- MCOneValue
  MaxSize = 3
  MaxReserve = 2
  MaxUser = 1
  MaxRefs = 2
PROPERTIES
  FreeDestroysElements
