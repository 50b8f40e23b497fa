SPECIFICATION LockFairSpec
CONSTANTS
    Proc = {p1, p2, p3}
    Inode = {i1, i2, i3, i4}
    Nobody = Nobody
    MaxKills = 2
INVARIANTS
    ExclusiveUntilRelease
    ServingIsReachable
PROPERTIES
    StaleFilesNeverBlock
