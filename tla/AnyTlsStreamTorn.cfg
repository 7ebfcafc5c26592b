SPECIFICATION Spec
CONSTANTS
    LastId = 4
    Capacity = 2
INVARIANT
    UnfinishedFrameNotReused
CHECK_DEADLOCK FALSE
