SPECIFICATION Spec
CONSTANTS
    top = top  outer = outer  inner = inner  out = out  oute = oute  x = x  z = z  k = k  l = l  swap = swap
    turn = turn
    Holder = holder  Init1 = init  Other = other
    Top = top
    Dirs <- SomeDirs
    Files <- SomeFiles
    Links <- SomeLinks
    Destination <- SomeDestinations
    Home <- SomeHomes
    Names <- SomeNames
    None = none
    Processes = {holder, init, other, ours}
    Ours = ours
    Protected = {init}
    Foreign = {other}
    Owned = {outer, inner, x, l}
    ShareRoot <- ServerRoot
    Opens <- OpenIds
    OpenPath <- ServerPaths
    Lower <- LowerCase
    Lossy <- WellFormed
    Platforms = {"linux", "macos", "windows"}
    Spare = {out, z, swap, turn}
    Forms <- SomeForms
    Obstacles <- SomeObstacles
    Outside = {out, oute}
    MaxMeddling = 2
    MaxCalls = 3
INVARIANTS
    AnswersAreTrue
    NothingBehindALink
    ListingIsComplete
    LocksEndOnlyHolders
    ClosesOnlyItsOwn
CHECK_DEADLOCK FALSE
