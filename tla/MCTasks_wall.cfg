SPECIFICATION Spec
CONSTANTS
    NTasks = 3
    Interval <- IntervalDef
    NoInterval <- NoIntervalDef
    Garbage <- GarbageDef
    Malformed <- MalformedDef
    Half = 16
    Boot <- BootDef
    MaxShift = 1
    MaxDown = 3
    Far = 7
INVARIANTS
    TypeOK
    Timely
    Spaced
