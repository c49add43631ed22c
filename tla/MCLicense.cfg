SPECIFICATION Spec
CONSTANTS
    Licenses = {biz, ent}
    Business = {biz}
    None = none
    Procs = {p1, p2}
    MaxCommands = 3
    MaxActivations = 2
    MaxEvents = 1
    MaxMishaps = 1
SYMMETRY Processes
INVARIANTS
    CertificateHasCredentials
    SeatCanBeReleased
    RevokedIsNotUsed
PROPERTY NeverInterrupted
CHECK_DEADLOCK FALSE
