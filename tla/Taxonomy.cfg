SPECIFICATION PartSpec
CONSTANTS
    root = root
    arts = arts
    music = music
    NumCards = 1
    Scope = {root, arts, music}
    Root = root
    Child <- Path
    MaxJobs = 5
    OperatorJobs = 2
    PollBatch = 2
    MaxFaults = 2
    Faults = {"read", "create", "answer", "crash", "reassign"}
    SessionCard = {1, 2}
    SessionScope = {s1, s2}
    NoScope = NoScope
    MaxWorkers = 1
    MaxTries = 2
    MaxTools = 2
    MaxStrangers = 1
    SchemaCard = {"card"}
    LegacyTree <- LegacyTrees
    LegacyEdits <- EditTables
    LegacyName = "Unclassified"
    SchemaLower <- Lowers
    SchemaSlug <- Slugs
    NoTarget = "none"
    MaxProposalId = 2
CHECK_DEADLOCK FALSE
INVARIANTS
    TypeOK
    RemoteJobsExclusive
    MovedIsContinued
    AnswersTakeEffect
    OutcomesAreTrue
    MigrationsKeepData
PROPERTIES
    EventsHandled
    ContinuationsDrain
