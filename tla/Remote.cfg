SPECIFICATION FairSpec
CONSTANTS
    Callers = {c1, c2}
    Names = {a}
    Configs = {x}
    NoServer = NoServer
    NoFile = NoFile
    Broken = Broken
    Ops = {"add", "set", "load", "backup", "restore", "previewSync", "shutdown", "subscribe"}
    MaxRetries = 1
    MaxCalls = 2
    MaxFaults = 2
INVARIANTS
    AnswersMatchEffects
    SessionOrder
PROPERTIES
    CallsReturn
CHECK_DEADLOCK FALSE
