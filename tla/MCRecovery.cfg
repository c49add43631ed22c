SPECIFICATION Spec
CONSTANTS
    Files = {f, g}
    Dirs = {d}
    Workers = {w1, w2}
    Options <- Option
    MaxStoredFailures = 1
SYMMETRY Permuted
INVARIANTS
    RetriesAreExact
    FailuresAreExact
    SuccessMeansGone
    CapOnlyGeneralises
CHECK_DEADLOCK FALSE
