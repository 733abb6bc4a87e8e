SPECIFICATION FairSpec
CONSTANTS
    root = root
    arts = arts
    music = music
    NumCards = 2
    Scope = {root, arts, music}
    Root = root
    Child <- Path
    MaxJobs = 4
    OperatorJobs = 2
    PollBatch = 2
    MaxFaults = 1
    Faults = {"answer"}
CHECK_DEADLOCK FALSE
PROPERTIES
    ContinuationsRetried
