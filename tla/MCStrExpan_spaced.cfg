SPECIFICATION Spec
CONSTANTS
    Plain <- PlainDef
    Keys <- KeysDef
    Names <- NamesDef
    Value <- ValueDef
    Size = 14
    MaxItems = 4
    MaxHeap = 2
INVARIANTS
    TypeOK
    SpacedExpands
    NothingStale
    WritesWithinLength
CHECK_DEADLOCK FALSE
