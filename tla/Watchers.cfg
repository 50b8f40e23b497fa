SPECIFICATION Spec
CONSTANTS
    Keys = {k1, k2}
    Values = {v1}
    Absent = Absent
    Events = {"config.saved", "sync.completed"}
    OfWatch = {w}
    OfConfigChange = {h}
    OfSyncComplete = {s}
    MaxNews = 3
    MaxSubs = 1
INVARIANTS
    HeardOncePerSubscription
    ExportsAreOfTheirTime
CHECK_DEADLOCK FALSE
