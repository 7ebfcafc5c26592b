SPECIFICATION MCSpec
CONSTANTS
    t1 = t1
    t2 = t2
    LastId = 4
    Capacity = 2
    Tasks = {t1, t2}
    Sweeper = sweeper
    MaxSessions = 3
    PoolSize = 1
    IdleTimeout = 1
    MaxNow = 2
    MaxRequests = 3
SYMMETRY Symmetry
INVARIANTS
    OwnEvents
    StreamReachable
    CleanEndMeansFin
    Exclusive
    NotDropped
\* Requests and time are bounded; a session that is gone stops.
CHECK_DEADLOCK FALSE
