\* One request of the cloud and one message of the device.
SPECIFICATION Spec
CONSTANTS
    MaxRetransmit = 1
    AckTimeout = 1
    Span = 4
    IdCount = 1
    Req = {r1}
    None = None
    CloudSpan = 2
    MaxLatency = 1
INVARIANTS
    TypeOK
    AtMostOnce
    QuietMeansDone
PROPERTY
    ImplementsExchange
