SPECIFICATION FairSpec
CONSTANTS
    Procs = {p1, p2}
    Foreign = Foreign
    Dead = Dead
    None = None
    Overlap = 1
    Waits = TRUE
PROPERTY
    StopStops
CHECK_DEADLOCK FALSE
