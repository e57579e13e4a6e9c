\* One array of up to two elements.
SPECIFICATION Spec
CONSTANTS
  Value <- MCValue
  Blank = Blank
  Garbage = Garbage
  CapacityMark <- MCMarks
  Byte = 1
  CharSigned = TRUE
  FltMax = 4
  Arrays <- MCArrays
  Passed <- MCPassed
  Offsets <- MCOffsets
  MaxSize = 2
INVARIANTS
  ReadsBack
PROPERTIES
  CheckedFetch
  AccessEnds
CHECK_DEADLOCK FALSE
