SPECIFICATION FairSpec
CONSTANTS
    Process = {p}
    Other = Other
    None = None
    Torn = Torn
    IdleTimeout = TRUE
    MaxStarts = 2
    MaxCalls = 2
    MaxFaults = 1
INVARIANTS
    AckedSurvives
PROPERTIES
    ShutdownStopsSync
    NoCallCutShort
    StopRequestsEnd
    EnabledIsResumed
CHECK_DEADLOCK FALSE
