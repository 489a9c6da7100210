CONSTANTS
    c1 = c1
    c2 = c2
    k1 = k1
    k2 = k2
    v1 = v1
    v2 = v2
    default = default
    other = other
    Exts = {default, other}
    DefaultExt = default
    NoExt = noext
    Keys = {k1, k2}
    Values = {v1, v2}
    None = none
    DefaultLimit = 2
    MaxLimit = 20
    Conns = {c1, c2}
    Dev = dev
    DevExt = default
    Client <- InspectorAndSim
    Commands <- SetAndTabs
    MaxCommands = 1
    MaxBuilds = 0
    MaxFaults = 0
    Leavers = {c1, c2}
    Stops = TRUE
    Established = {c2}
SPECIFICATION MCFairSpec
ACTION_CONSTRAINT OneEnding
CHECK_DEADLOCK FALSE
PROPERTIES
    EveryCommandEnds
    GoneIsClosed
    ClosedIsForgotten
    ShutdownEndsEverything
