SPECIFICATION Spec
CONSTANTS
    Caller = {c1}
    Syncer = {s1, s2}
    Dest = {d1}
    None = None
    Garbled = Garbled
    Absent = Absent
    Mixed = Mixed
    Kept = {"path", "tilde", "store", "other"}
    Near = {}
    SerialCalls = TRUE
    OtherWriter = FALSE
    MaxStarts = 3
    MaxVersion = 2
    MaxFailures = 1
SYMMETRY Symmetry
INVARIANTS
    RunningMeansWatched
    StoppedMeansQuiet
    NoPanic
    
CHECK_DEADLOCK FALSE
