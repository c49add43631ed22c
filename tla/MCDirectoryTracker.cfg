SPECIFICATION FairSpec
CONSTANTS
    r = r  a = a  b = b  x = x  y = y  z = z
    Dirs <- TreeDirs
    Leaves <- TreeLeaves
    Root = r
    Parent <- TreeParent
    Coordinator = coordinator
    FileWorkers = {f1}
    DirWorkers = {d1, d2}
INVARIANTS
    PendingIsOutstanding
    HandedOverOnce
    NoCompletionIsLost
    SimulationIsExact
    RootIsForgottenLast
PROPERTIES
    CompletionSpec
    EveryDirectoryIsHandedOver
CHECK_DEADLOCK FALSE
