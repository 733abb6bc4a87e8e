SPECIFICATION FairSpec
CONSTANTS
    NumUnits = 1
    MaxCandidates = 3
    MaxCards = 2
    MaxFaults = 2
    PollBatch = 2
    ReconcileBatch = 1
    Verdicts = {"passed", "failed", "malformed"}
    NewServicePerTick = TRUE
PROPERTIES
    HandoffsAcceptOnce
    WellFormedJobsAdvance
INVARIANTS
    TypeOK
    OneCandidatePerCard
    IngestedOncePerCard
    LineageSound
    RecordsAreBacked
    ProcessedImpliesAdvanced
