SPECIFICATION SearchSpec
CONSTANTS
  CapacityMark <- MCMarks
  Sizes <- MCSizes
INVARIANTS
  SearchTypeOK
  Brackets
  ReturnsNextCapMark
PROPERTIES
  Returns
CHECK_DEADLOCK FALSE
