SPECIFICATION Spec
CONSTANTS
    top = top  outer = outer  inner = inner  out = out  oute = oute  x = x  z = z  k = k  l = l  swap = swap
    turn = turn
    Holder = holder  Init1 = init  Other = other
    Top = top
    Dirs = {top}
    Files = {x}
    Links = {}
    Destination <- NoDestinations
    Home <- SingleHome
    Names <- SomeNames
    None = none
    Processes = {ours, other}
    Ours = ours
    Protected = {}
    Foreign = {other}
    Owned = {x, top}
    ShareRoot <- ServerRoot
    Opens <- OpenIds
    OpenPath <- ServerPaths
    Lower <- LowerCase
    Lossy <- WellFormed
    Platforms = {"linux", "macos", "windows"}
    Spare = {}
    Forms <- RelativeForms
    Obstacles <- NoObstacles
    Outside = {}
    MaxMeddling = 0
    MaxCalls = 1
INVARIANT AnswersAreTrue
CHECK_DEADLOCK FALSE
