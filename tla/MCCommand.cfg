SPECIFICATION Spec
CONSTANTS
    MaxParts = 3
    Dirs <- SomeDirs
    Files <- SomeFiles
    Links <- SomeLinks
    Location <- SomeLocations
    Destination <- SomeDestinations
    FsRoot = "fs"
    ShareRoot = "share"
    Server = "srv"
    Share = "data"
    Cwd = "d"
    AgeUnits <- SomeAgeUnits
    SizeUnits <- SomeSizeUnits
    MaxDuration = 16
    MaxSize = 8
    Matched <- SomeMatches
    TrustedKeys <- Keyring
    Supported <- TheAlgorithms
    Allowed <- TheAlgorithms
    MaxSignatures = 2
    Product = "cursedelete"
    MajorVersion = 2
    Schema = 1
    OfflineLimit = {2}
    CommandLines <- AllLines
    Machines <- SomeMachines
    Attributes <- SomeAttributes
    Now = 8
    NewCandidates <- Licences
    NewCertificates <- Certificates
    NewSignatures <- SomeSignatures
    LaterTimes = {1, 2, 3, 4}
INVARIANTS
    RootIsNeverTheTarget
    FiltersDecide
    ExitCodeTellsTheTruth
    MoreNeverMeansLess
    TimeOnlyTakesAway
CHECK_DEADLOCK FALSE
