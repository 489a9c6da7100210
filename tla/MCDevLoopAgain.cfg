CONSTANTS
    Root = root
    Dirs = {d1}
    NoDir = nodir
    RewalkBudget = 2
    ChanCap = 1
    Lossy = FALSE
    MaxEdits = 4
SPECIFICATION DevSpec
CHECK_DEADLOCK FALSE
INVARIANT
    NewDirectoriesAreWatched
