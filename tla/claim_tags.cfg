\* A second document: a table made in passing is refused for what the first did.
SPECIFICATION Spec
CONSTANTS
    k1 = k1
    k2 = k2
    Keys = {k1, k2}
    MaxNodes = 8
    BothKeys = 5
    MaxParts = 2
SYMMETRY Symmetry
CONSTRAINT OneKeyBeyond
INVARIANTS
    ImplicitAllowed
CHECK_DEADLOCK FALSE
