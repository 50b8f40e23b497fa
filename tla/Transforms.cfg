SPECIFICATION Spec
CONSTANTS
    a = a
    b = b
    plain = plain
    flagged = flagged
    variable = variable
    flat = flat
    nested = nested
    preset = preset
    custom = custom
    plainFile = plainFile
    p = p
    Name = {a, b}
    Cfg = {plain, variable}
    Off = {}
    Dest = {flat, nested, preset}
    Project = {p}
    Absent = Absent
    Unparsable = Unparsable
    Sanitize <- MCSanitize
    Bare <- MCBare
    Subst <- MCSubst
    Refused <- MCRefused
    Foreign <- MCForeign
    Kind <- MCKind
    MaxOps = 5
INVARIANTS
    FilesFollowTheServers
    PreviewIsRight
PROPERTIES
    OwnersKeepTheirs
    RoundTrip
CHECK_DEADLOCK FALSE
