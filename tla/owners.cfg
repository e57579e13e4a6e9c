SPECIFICATION Spec
CONSTANTS
  s1 = s1
  a1 = a1
  a2 = a2
  r1 = r1
  r2 = r2
  u1 = u1
  i1 = i1
  Str <- MCStr
  Arr <- MCArr
  Re <- MCRe
  U8 <- MCU8
  It <- MCIt
  Literal = Literal
  Null = Null
  Undef = Undef
  Wide = 6
  MaxUser = 2
  MaxRefs = 3
SYMMETRY MCSymmetry
CONSTRAINT MCApart
INVARIANTS
  TypeOK
  CapturesValid
  CapturesReleased
  TextHeld
  ObjectHeld
CHECK_DEADLOCK FALSE
