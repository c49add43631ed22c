SPECIFICATION FairSpec
CONSTANTS
    r = r  p1 = p1  p2 = p2  p3 = p3  c1 = c1  c2 = c2  c3 = c3
    Dirs <- TreeDirs
    Leaves = {}
    Root = r
    Parent <- TreeParent
    Jobs <- WideJobs
    Coordinator = coordinator
    FileWorkers = {f1}
    DirWorkers = {d1, d2}
    EnumCap = 2
    FileCap = 1
    ReadyCap = 1
    Capacities = {1}
    MaxMeddling = 0
PROPERTY CancelledRunsTerminate
CHECK_DEADLOCK FALSE
