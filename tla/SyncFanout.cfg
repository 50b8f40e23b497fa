SPECIFICATION FairSpec
CONSTANTS
    a = a
    b = b
    d = d
    Call = {a, b}
    Dest = {d, e}
    Nested = {d}
    Asked <- MCAsked
    Limit = 1
    Nothing = Nothing
    Foreign = Foreign
    Empty = Empty
    Torn = Torn
    MaxVersion = 1
    MaxFailures = 1
INVARIANTS
    ResultsComplete
    FilesAreWhole
PROPERTIES
    NeverOlder
    CallsReturn
CHECK_DEADLOCK FALSE
