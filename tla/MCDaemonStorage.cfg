CONSTANTS
    c1 = c1
    c2 = c2
    k1 = k1
    k2 = k2
    v1 = v1
    v2 = v2
    default = default
    other = other
    Exts = {default, other}
    DefaultExt = default
    NoExt = noext
    Keys = {k1, k2}
    Values = {v1, v2}
    None = none
    DefaultLimit = 2
    MaxLimit = 20
    Conns = {c1, c2}
    Dev = dev
    DevExt = default
    Client <- StorageAndSim
    Commands <- StorageCommands
    MaxCommands = 2
    MaxBuilds = 0
    MaxFaults = 1
    Leavers = {}
    Stops = FALSE
    Established = {c1, c2}
SPECIFICATION MCSpec
CHECK_DEADLOCK FALSE
INVARIANTS
    TypeOK
    ReplayMatchesItems
    ViewFollowsStore
    SuccessMeansCommitted
PROPERTY
    NoIdleDiff
