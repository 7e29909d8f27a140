\* A host that completes its control transfers, with bus resets at any time and transfers that time out.
SPECIFICATION Spec
CONSTANTS
    Obj = {r1, r2}
    MaxActive = 2
    Aborts = FALSE
    None = None
INVARIANTS
    TypeOK
    FreedIsForgotten
    OneOwner
PROPERTIES
    ResultMeansReceived
    HandlerRunsAtTheEnd
    ImplementsService
    ThreadsLetGo
