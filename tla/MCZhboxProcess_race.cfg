SPECIFICATION Spec
CONSTANTS
    Procs = {p1, p2, p3}
    Foreign = Foreign
    Dead = Dead
    None = None
    Overlap = 1
    Waits = FALSE
INVARIANT
    AtMostOneRunning
CHECK_DEADLOCK FALSE
