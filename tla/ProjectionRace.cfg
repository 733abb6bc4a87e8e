SPECIFICATION Spec
CONSTANTS
    root = root
    arts = arts
    music = music
    Card = {old1, old2, new1, new2}
    Existing = {old1, old2}
    Worker = {w1, w2}
    NoCard = NoCard
    Scope = {root, arts, music}
    Root = root
    Child <- Path
SYMMETRY Symmetry
CHECK_DEADLOCK FALSE
INVARIANTS
    ProjectionComplete
