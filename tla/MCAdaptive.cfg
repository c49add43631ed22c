SPECIFICATION CurveSpec
CONSTANTS
    Ceiling = 7
    Arguments <- AnyArguments
    Sampled = {100, 104, 110}
    Throughputs <- Shown
    Curves <- Unimodal
    Tolerance = 1
INVARIANTS
    WithinBounds
    FlatThroughputDoesNotDrift
PROPERTY ConvergesToThePeak
