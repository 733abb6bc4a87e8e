SPECIFICATION PartSpec
CONSTANTS
    MaxProposals = 3
    MaxNodes = 2
    Ingested = 1
    MaxVersion = 3
    Request = {r1, r2, r3}
    Contended = {1, 2}
    CardText <- Texts
    Similarity <- Sim
    Phrase <- Phrases
    AllTokens <- Tokens
    TitleMentionTopK = 1
    SemanticTopK = 1
    SemanticMinStrength = 1
    CandidateLimit = 2
    RebuildPolicy <- Policies
    ChunkSize = 2
    Query <- Queries
    RrfUnit <- Unit
    MatchLimit = 2
    VectorLimit = 3
    ConnectedLimit = 1
    MaxGraphCards = 3
    MaxEdits = 1
    McpCall = {1, 2}
    Pat = {"pat"}
    UserOf <- Users
    QuotaLimit <- Quotas
    QuotaWindow <- Windows
    TokenLife = 3
    SafetyMargin = 1
    TokenCacheTtl = 1
    CallPatience = 1
    MaxCalls = 3
    MaxMcpFaults = 1
SYMMETRY Symmetry
CHECK_DEADLOCK FALSE
INVARIANTS
    TypeOK
    VersionsConsistent
    ChangesAreAudited
    SettledOnce
    BestCardsAreLinked
    AnswersAreEntitled
PROPERTIES
    ArchiveIsFinal
