SPECIFICATION LossySpec
CONSTANTS
    NumUnits = 1
    MaxCandidates = 2
    MaxCards = 2
    MaxFaults = 0
    PollBatch = 2
    ReconcileBatch = 1
    Verdicts = {"passed", "failed"}
    NewServicePerTick = TRUE
PROPERTIES
    FinishedJobsAdvance
