SPECIFICATION TimedSpec
CONSTANTS
    NTopics = 2
    CleanSession = TRUE
    MaxFaults = 4
    Latency = 9
    Keepalive = 60
    Recovery = 70
INVARIANTS
    TimerTypeOK
    RecoversInTime
