SPECIFICATION Spec
CONSTANTS
    Devices <- DevicesDef
    MaxNorth = 2
INVARIANT
    StoredInside
CHECK_DEADLOCK FALSE
