SPECIFICATION FairSpec
CONSTANTS
    Caller = {c1, c2}
    Syncer = {s1}
    Dest = {d1}
    None = None
    Garbled = Garbled
    Absent = Absent
    Mixed = Mixed
    Kept = {"path"}
    Near = {}
    SerialCalls = FALSE
    OtherWriter = FALSE
    MaxStarts = 2
    MaxVersion = 1
    MaxFailures = 0
PROPERTIES
    CallsReturn
CHECK_DEADLOCK FALSE
