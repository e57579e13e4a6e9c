\* A class that overrides one method.
SPECIFICATION Spec
CONSTANTS
  Value <- MCValue
  Blank = Blank
  Garbage = Garbage
  CapacityMark <- MCMarks
  Byte = 1
  CharSigned = TRUE
  FltMax = 4
  Arrays <- MCArrays
  Passed <- MCPassed
  Offsets <- MCOffsets
  MaxSize = 2
PROPERTIES
  GetReturns
CHECK_DEADLOCK FALSE
