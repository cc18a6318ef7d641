SPECIFICATION Spec
CONSTANTS
    p1 = p1
    p2 = p2
    NoPass = NoPass
    Passes <- Pair
    Provisioned <- Every
    MaxRetries = 2
    MaxFaults = 1
    MaxPasses = 2
    Settings <- Unheld
SYMMETRY Interchangeable
CHECK_DEADLOCK FALSE
INVARIANT CompletedMeansGone
INVARIANT OneSweeper
PROPERTY SignedOffStays
