SPECIFICATION FairSpec
CONSTANTS
    Caller = {c1}
    Syncer = {s1}
    Dest = {d1}
    None = None
    Garbled = Garbled
    Absent = Absent
    Mixed = Mixed
    Kept = {"path", "store"}
    Near = {d1}
    SerialCalls = TRUE
    OtherWriter = TRUE
    MaxStarts = 1
    MaxVersion = 2
    MaxFailures = 0
PROPERTIES
    CallsReturn
    ChangesReachDestinations
    SyncsQuiesce
CHECK_DEADLOCK FALSE
