SPECIFICATION MCSpec
CONSTANTS
    s1 = s1
    s2 = s2
    up1 = up1
    down1 = down1
    up2 = up2
    none = none
    Sessions <- TwoSessions
    Tasks <- ThreeTasks
    SessionOf <- SessionOfTask
    Direction <- DirectionOfTask
    Sizes <- TrafficSizes
    Quotas <- QuotaValues
    NoQuota = none
    U64Max = 6
    MaxSets = 1
    Waiters = {up1, up2}
    Setters = {s1}
    Rates = {0, 1, 2}
    ChunkSizes = {0, 1, 2}
    Second = 2
    MaxNow = 4
    MaxWaits = 3
    MaxSwaps = 1
    MaxChunks = 2
    Keys = {up1, up2, down1}
    Ttl = 2
    Room = 2
    MaxTime = 8
INVARIANTS
    Accounting
    QuotaNotOverrun
    OneLateRecord
    RateKept
    Faithful
    Reassembly
PROPERTY
    NoReplay
\* Each component may come to rest.
CHECK_DEADLOCK FALSE
