SPECIFICATION Spec
CONSTANTS
    r = r  a = a  b = b  c = c  x = x  y = y
    Dirs <- TreeDirs
    Leaves <- TreeLeaves
    Root = r
    Parent <- TreeParent
    Jobs <- SafetyJobs
    Coordinator = coordinator
    FileWorkers = {f1, f2}
    DirWorkers = {d1}
    EnumCap = 1
    FileCap = 1
    ReadyCap = 4
    Capacities = {1, 2}
    MaxMeddling = 0
SYMMETRY Workers
INVARIANTS
    CleanRunIsExact
    CancelIsNoFailure
    RetainedStays
    RootIsDoneLast
    ReportIsTruthful
    SuccessMeansEmpty
PROPERTY CompletionSpec
CHECK_DEADLOCK FALSE
