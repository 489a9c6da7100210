CONSTANTS
    p1 = p1
    p2 = p2
    p3 = p3
    Procs = {p1, p2, p3}
    Inodes = {i1, i2, i3, i4}
    Nobody = nobody
    NoInode = noinode
    Sweepers = {}
    Probers = {}
SPECIFICATION LockSpec
SYMMETRY LockSymmetry
INVARIANT
    MutualExclusion
