\* Short patterns, arbitrary and well written, and short words.
SPECIFICATION PhizSpec
CONSTANTS
    Char <- MCChar
    Alpha = {"a", "b"}
    Digit = {"1"}
    Patterns <- MCPatterns
    ItemLists <- MCItemLists
    UpperOf <- MCUpperOf
    Nul = "Nul"
    Words <- MCWords
    Seps <- MCSeps
INVARIANTS
    TypeOK
    ItemBetweenBrackets
    NumbersDiffer
    AsWritten
    ComesBack
CHECK_DEADLOCK FALSE
