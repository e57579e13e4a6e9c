\* Several documents of headers and lines, in any order and with any errors.
SPECIFICATION Spec
CONSTANTS
    k1 = k1
    k2 = k2
    Keys = {k1, k2}
    MaxNodes = 8
    BothKeys = 5
    MaxParts = 2
SYMMETRY Symmetry
CONSTRAINT OneKeyBeyond
INVARIANTS
    TypeOK
    LastElementExists
    PathsLead
PROPERTIES
    KeepsEntries
    DefinedOnce
CHECK_DEADLOCK FALSE
