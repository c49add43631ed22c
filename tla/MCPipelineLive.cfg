SPECIFICATION FairSpec
CONSTANTS
    r = r  a = a  b = b  c = c  x = x  y = y
    Dirs <- TreeDirs
    Leaves <- TreeLeaves
    Root = r
    Parent <- TreeParent
    Jobs <- MixedJobs
    Coordinator = coordinator
    FileWorkers = {f1, f2}
    DirWorkers = {d1, d2}
    EnumCap = 1
    FileCap = 1
    ReadyCap = 4
    Capacities = {1, 2}
    MaxMeddling = 1
INVARIANT AccountsBalance
PROPERTY Terminates
CHECK_DEADLOCK FALSE
