SPECIFICATION FairSpec
CONSTANTS
    NTopics = 2
    CleanSession = TRUE
    MaxFaults = 3
PROPERTY
    EventuallySubscribed
