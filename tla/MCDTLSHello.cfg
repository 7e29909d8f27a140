SPECIFICATION Spec
CONSTANTS
    AppState = {a, b}
    MaxSessions = 2
    MaxRecords = 4
    None = None
PROPERTIES
    HelloSkippedIfUnchanged
