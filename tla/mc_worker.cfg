SPECIFICATION FairSpec
CONSTANTS
    Ids = {a}
    DependsOn <- NoDeps
    Budget = 2
    MaxAttempts <- SameBudget
    Key <- NoKeys
    Periodic = {}
    Nodes = {}
    Workers = {w1}
    NoWorker = NoWorker
    NoId = NoId
    NoFile = NoFile
    Torn = Torn
    Overwrites = FALSE
    MaxGrants = 2
    MaxFaults = 2
    MaxCrashes = 1
INVARIANTS TypeOK AckedIsDurable AlwaysLoadable VerdictIsTheHandlers ReservedIsRunning
PROPERTIES OvertakenStops OrphanIsReaped
CHECK_DEADLOCK FALSE
