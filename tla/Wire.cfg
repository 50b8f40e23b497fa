SPECIFICATION WireSpec
CONSTANTS
    Home <- MCHome
    Garbled = Garbled
    Clients = {c1, c2}
    Names = {"a", "b"}
    Composed <- MCComposed
    Said <- MCSaid
    Roots <- MCRoots
    Filters <- MCFilters
    Files <- MCFiles
    Trees <- MCTrees
    Substituted <- MCSubstituted
    NoServer = NoServer
    MaxCalls = 5
INVARIANTS
    WireTypeOK
    ServersStand
    ProjectsAsRegistered
PROPERTIES
    EchoedUpdateKeeps
    ScansFindAll
SYMMETRY Symmetry
CHECK_DEADLOCK FALSE
