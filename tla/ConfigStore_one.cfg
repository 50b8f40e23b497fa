SPECIFICATION Spec
CONSTANTS
    Engine = {e1}
    Server = {a, b}
    Payload = {x}
    Absent = Absent
    Unknown = Unknown
    None = None
    Empty = Empty
    Torn = Torn
    Paths = {"store", "file"}
    Inode = {i1, i2, i3, i4, i5}
    HalfWrites = {"tmp"}
    MaxOps = 5
    MaxFailures = 1
    MaxCrashes = 1
SYMMETRY Symmetry
INVARIANTS
    PromisesKept
    StoreParses
PROPERTIES
    SavesAreAtomic
CHECK_DEADLOCK FALSE
