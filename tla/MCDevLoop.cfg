CONSTANTS
    Root = root
    Dirs = {d1}
    NoDir = nodir
    RewalkBudget = 2
    ChanCap = 1
    Lossy = TRUE
    MaxEdits = 4
SPECIFICATION DevFairSpec
CHECK_DEADLOCK FALSE
INVARIANT
    NoChangeForgotten
PROPERTIES
    EveryChangeIsBuilt
    BuildsSettle
