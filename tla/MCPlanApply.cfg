CONSTANTS
    Procs = {p1, p2}
    Inodes = {i1, i2}
    Nobody = nobody
    NoInode = noinode
    Last = 2
    Forces = {TRUE, FALSE}
    MaxEdits = 2
    MaxRuns = 3
SPECIFICATION PlanHistoriesSpec
SYMMETRY PlanSymmetry
CHECK_DEADLOCK FALSE
INVARIANTS
    ManifestsAgree
    RunOwnsManifests
    ManifestsAreRecorded
    RecordsAreFinal
PROPERTY
    OnlyAnEditHidesDrift
