\* Readers of short texts.  2147483647 stands for the 32-bit (char32_t) -1.
SPECIFICATION Spec
CONSTANTS
    INVALID_CHAR = 2147483647
    Texts <- MCTexts
    Value <- MCValue
    Stale = {1, 2147483647}
    Pushed <- MCPushed
    MaxCodes = 3
    CapacityMark <- MCMarks
    Blank = Blank
    Garbage = Garbage
INVARIANTS
    TypeOK
    OffsetsInside
    ReadsText
    HoldsText
    WalksText
PROPERTIES
    NextFollows
    PrintsWhatItHolds
    WalkEnds
