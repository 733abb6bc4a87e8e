SPECIFICATION PartSpec
CONSTANTS
    root = root
    arts = arts
    music = music
    Card = {old1, old2, new1, new2}
    Existing = {old1, old2}
    Worker = {w1, w2}
    NoCard = NoCard
    Scope = {root, arts, music}
    Root = root
    Child <- Path
    ViewScope = {s1}
    Runner = {r1, r2}
    Viewer = {v1}
    Operator = op
    Fingerprint = {p1, p2}
    NoPrint = NoPrint
    MaxChanges = 1
    MaxLayoutFaults = 1
    Reader = {q1, q2}
    BranchSurface = {"root"}
    ViewTtl = 2
    SearchTtl = 1
    Patience = 2
    MaxCacheFaults = 1
    Name <- Names
    RootName = "Root"
    ReservedName = "Unclassified"
    SlugOf <- Slugs
    LowerOf <- Lowers
    CaseFoldOf <- CaseFolds
    AssignedCard = {1, 2}
    MaxTreeNodes = 4
CHECK_DEADLOCK FALSE
INVARIANTS
    TypeOK
    ProjectionFollowsEdges
    OneRunnerPerScope
    AnswersAreRecent
    NodesAreAddressable
    ScopesAgree
PROPERTIES
    LayoutsCatchUp
