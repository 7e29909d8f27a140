\* The host may give up a control transfer.
SPECIFICATION Spec
CONSTANTS
    Obj = {r1, r2}
    MaxActive = 2
    Aborts = TRUE
    None = None
PROPERTIES
    ResultMeansReceived
CHECK_DEADLOCK FALSE
