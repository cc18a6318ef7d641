SPECIFICATION FairSpec
CONSTANTS
    Owners = {o1, o2, o3}
    Free = Free
    LeaseBeats = 3
    MaxMisses = 1
CHECK_DEADLOCK FALSE
INVARIANT HeldWhileRunning
PROPERTY DeadLeaseLapses
PROPERTY ImplementsMutex
