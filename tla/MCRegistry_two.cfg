SPECIFICATION Spec
CONSTANTS
    Devices <- DevicesDef
    MaxNorth = 2
INVARIANTS
    TypeOK
    ThreadsOnLive
    TimersHeld
    DestroyComplete
    FieldsDefined
CHECK_DEADLOCK FALSE
