CONSTANTS
    Clients = {"chrome-sim", "inspector", "dev-agent", "store"}
    MaxEvents = 4
    Exts = {default, other}
    DefaultExt = default
    NoExt = noext
    Keys = {k1}
    Values = {v1}
    None = none
    DefaultLimit = 2
    MaxLimit = 3
    Calls = {a, b}
    MaxSockets = 6
    MaxFaults = 2
    Closes = TRUE
    Page = 2
    WorkingSet = 4
    Backlog = 4
    MaxRows = 7
    MaxDrops = 1
    Leaves = TRUE
    MaxBuilds = 3
    MaxBreaks = 3
SPECIFICATION ClientsFairSpec
CHECK_DEADLOCK FALSE
INVARIANTS
    OneConnection
    PagesInOrderUnlessOverrun
    TimelineIsComplete
    OlderIsOffered
    RunsLastBuild
    PagesContiguous
PROPERTIES
    CallsAreAtMostOnce
    EveryCallSettles
    ReachesDaemon
    RequestsEnd
    AgentComesBack
