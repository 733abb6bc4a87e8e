SPECIFICATION Spec
CONSTANTS
    MaxProposals = 1
    MaxNodes = 1
    Ingested = 1
    MaxVersion = 2
    Request = {r1, r2}
    Contended = {1}
SYMMETRY Symmetry
CHECK_DEADLOCK FALSE
INVARIANTS
    RejectedChangesNothing
