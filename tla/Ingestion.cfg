SPECIFICATION PartSpec
CONSTANTS
    Call = {c1, c2}
    Key = {k1}
    NoKey = NoKey
    Card = {card1, card2}
    MaxId = 2
    MaxAttempts = 2
    Failures = {"publish", "answer", "commit", "crash", "work", "redelivery"}
    ImportRun = {1, 2}
    ShardRecords <- Shards
    ArticleText = {"a", "b"}
    NoText = "none"
    BatchSize = 2
    PoolSize = 2
    MaxImportFaults = 2
    Month = {1, 2}
    ArticleTitle = {1, 2, 3, 4, 5}
    RedirectTo <- Redirects
    TitleRejected = {}
    Disambiguation = {}
    ArticleOf <- Articles
    LeadRejected = {14}
    AlreadyProcessed = {}
    MinTextLength = 3
    MaxPages = 2
    StableMonthBonus = 2
    MonthViews = {1, 3}
    MaxTop = 2
    CorpusPage = {1, 2, 3}
    SubmissionRun = {s1, s2, s3}
    CandidateFiles <- Files
    QueryResults <- Found
    QueryLimit <- Limits
    MaxSubmissionFaults = 2
    CardText <- Texts
    Similarity <- Sim
    Phrase <- Phrases
    AllTokens <- Tokens
    TitleMentionTopK = 0
    SemanticTopK = 0
    SemanticMinStrength <- NoStrength
    CandidateLimit = 0
    RebuildPolicy = {}
    ChunkSize = 1
    Query <- Queries
    RrfUnit <- Unit
    MatchLimit = 2
    VectorLimit = 3
    ConnectedLimit = 0
    MaxGraphCards = 4
    MaxEdits = 1
CHECK_DEADLOCK FALSE
INVARIANTS
    TypeOK
    AcceptedIsQueued
    AnswersAgree
    CompletedIsImported
    SelectedBestFirst
    PagesEnterOnce
    
PROPERTIES
    KeysAcceptOnce
    AcceptedIsMaterialized
