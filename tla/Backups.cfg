SPECIFICATION Spec
CONSTANTS
    Caller = {c1, c2}
    Value = {v1, v2}
    None = None
    Keep = 1
    OneKey = TRUE
    MaxIds = 3
    MaxChanges = 1
    MaxFailures = 1
    MaxCrashes = 1
SYMMETRY Symmetry
INVARIANTS
    RetainedAreRestorable
    RetentionBound
    StorageMatchesList
    RestoreKeepsWork
CHECK_DEADLOCK FALSE
