\* Two message ids of the device, no request of the cloud.
SPECIFICATION FairSpec
CONSTANTS
    MaxRetransmit = 1
    AckTimeout = 1
    Span = 4
    IdCount = 2
    Req = {}
    None = None
    CloudSpan = 2
    MaxLatency = 1
INVARIANTS
    AckedMeansReceived
    HandlerInScope
PROPERTIES
    EventuallyConcluded
    SynchronousSendReturns
