SPECIFICATION FairSpec
CONSTANTS
    Procs = {p1, p2, p3}
    Foreign = Foreign
    Dead = Dead
    None = None
    Overlap = 1
    Waits = TRUE
INVARIANTS
    TypeOK
    AtMostOneRunning
    PidfileNamesRunning
PROPERTIES
    ImplementsSingle
    RestartAfterCrash
CHECK_DEADLOCK FALSE
