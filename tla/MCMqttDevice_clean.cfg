SPECIFICATION FairSpec
CONSTANTS
    NTopics = 2
    CleanSession = TRUE
    MaxFaults = 3
INVARIANTS
    TypeOK
    SubscribedUnlessMissed
    LiveNeverDisconnected
    NoRedialWhileRuning
    LoopStartedOnce
PROPERTY
    EventuallyRuning
