SPECIFICATION MCSpec
CONSTANTS
    i1 = i1
    i2 = i2
    Ids <- MCIds
    MaxOpens = 2
    MaxStreams = 2
    MaxPendingUot = 1
    MaxDials = 1
    Capacity = 1
    MaxReads = 1
    SessionIds <- MCIds
    MaxNews = 2
    MaxSessions = 1
    MaxChunks = 1
    Scenarios <- AllScenes
    Commands <- MCCommands
    Assocs = {1}
    MaxSockets = 2
    Idle = 2
    MaxNow = 3
SYMMETRY Symmetry
INVARIANTS
    NoOrphans
    MuxTableExact
    Exact
    PromiseKept
    CommandsServed
PROPERTY
    FramesInOrder
\* Opens are bounded, and a connection may end.
CHECK_DEADLOCK FALSE
