CONSTANTS
    Tools = {"session", "file", "workspace", "dev"}
    Procs = {p1, p2, p3}
    Inodes = {i1, i2, i3}
    Nobody = nobody
    NoInode = noinode
    Launchers = {p1, p2}
    Sweepers = {p3}
    Probers = {p3}
    Writers = {w1, w2}
    Blocks = {b1, b2, b3}
    Careless = {w2}
    NoBlock = noblock
    MaxWrites = 4
    KnownTargets = {"chrome", "firefox"}
    Adapters = {"chrome"}
    Capabilities = {"tabs", "omnibox", "sidebarSurface"}
    Native = {"tabs", "omnibox"}
    Silent = {"omnibox"}
    Degraded = {}
    NoConfig = noconfig
    NoGraph = nograph
    Users = {u1, u2}
    NoUser = nouser
    NoPolicy = nopolicy
    CutPolicy = cutpolicy
    NoState = nostate
    AuthoredConfigs <- AuthoredTwo
    FoundReports <- FoundTwo
    MaxCommands = 3
    MaxSaves = 1
    Tree <- TreeTwo
    Infra = {".h"}
    ConfigDir <- Project
    Cwds <- CwdTwo
    DefaultOut <- OutDefault
    WrittenPaths <- Paths
    MaxExtensions = 2
    MaxBuilt = 4
SPECIFICATION HostSpec
SYMMETRY HostSymmetry
CHECK_DEADLOCK FALSE
INVARIANTS
    LocksHaveOwners
    InfoNamesHolder
    ExclusionUnlessRaced
    OneBrowserUnlessRaced
    ReadsLastWrite
    PackageIsOnRecord
    AddTargetAgrees
    BuildsStayApart
