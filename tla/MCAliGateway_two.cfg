SPECIFICATION FairGatewaySpec
CONSTANTS
    NTopics = 1
    CleanSession = TRUE
    MaxFaults = 1
    NSubs = 2
INVARIANTS
    GatewayTypeOK
    GatewaySubscribed
    LoginedIsCurrent
PROPERTY
    EventuallyLogined
