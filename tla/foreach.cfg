SPECIFICATION Spec
CONSTANTS
  l1 = l1
  l2 = l2
  v1 = v1
  Loop <- MCLoop
  Value <- MCValue
  Blank = Blank
  Garbage = Garbage
  CapacityMark <- MCMarks
  MaxSize = 3
INVARIANTS
  TypeOK
  HeldWhileIterated
  VisitsStable
PROPERTIES
  FetchInsideBlock
  LoopEnds
CHECK_DEADLOCK FALSE
