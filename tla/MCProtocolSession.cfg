SPECIFICATION Spec
CONSTANTS
    Event = {e1, e2}
    Intervals = {0, 2}
    PingTimeout = 1
    AckTimeout = 2
    MaxBlock = 1
    MaxLatency = 1
    MaxWakes = 1
    MaxTicks = 2
    MaxSilence = 3
    MaxTimeout = 99
    None = None
INVARIANTS
    TypeOK
    TimeoutInTime
    SilenceIsNoticed
PROPERTIES
    LiveNotDropped
    DeadIsNoticed
    EveryEventConcluded
