SPECIFICATION FairSpec
CONSTANTS
    Node = {1, 2}
    TTL = 1
    NoFile = NoFile
    Torn = Torn
    Overwrites = TRUE
    Blank = Blank
    MaxFaults = 1
INVARIANTS TypeOK OneLeaderPerDocument ExclusiveWhileFresh TornOnlyByOverlap
PROPERTIES LeasesOnlyAge TakesOver SettlesOnOne
CHECK_DEADLOCK FALSE
