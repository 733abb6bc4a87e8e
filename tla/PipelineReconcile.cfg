SPECIFICATION ApartSpec
CONSTANTS
    NumUnits = 2
    MaxCandidates = 2
    MaxCards = 2
    MaxFaults = 1
    PollBatch = 1
    ReconcileBatch = 1
    Verdicts = {"passed", "failed", "malformed"}
    NewServicePerTick = FALSE
PROPERTIES
    ReconcileMakesUp
