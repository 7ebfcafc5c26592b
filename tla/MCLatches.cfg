SPECIFICATION MCSpec
CONSTANTS
    w1 = w1
    w2 = w2
    w3 = w3
    t1 = t1
    t2 = t2
    s1 = s1
    Waiters <- MCWaiters
    Triggers <- MCTriggers
    Names <- MCNames
    Files <- AllFiles
INVARIANTS
    NoLostWakeup
    StackComplete
PROPERTIES
    LatchImplemented
    WaitersReturn
    StartupSettles
\* Each component may come to rest.
CHECK_DEADLOCK FALSE
