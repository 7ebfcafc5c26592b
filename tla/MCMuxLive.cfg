SPECIFICATION MCSpec
CONSTANTS
    i1 = i1
    i2 = i2
    sweeper = sweeper
    Ids <- OneId
    MaxOpens = 2
    MaxStreams = 2
    MaxPendingUot = 1
    MaxDials = 1
    Capacity = 1
    MaxReads = 1
PROPERTIES
    StreamsEnd
    PoolCloses
    CloseReachesStream
    MuxSessionsEnd
\* Each component may come to rest.
CHECK_DEADLOCK FALSE
