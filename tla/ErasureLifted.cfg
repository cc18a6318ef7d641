SPECIFICATION OperatorSpec
CONSTANTS
    p1 = p1
    p2 = p2
    NoPass = NoPass
    Passes <- Pair
    Provisioned <- Every
    MaxRetries = 2
    MaxFaults = 0
    MaxPasses = 2
    Settings <- ByHandle
CHECK_DEADLOCK FALSE
PROPERTY LiftedHoldUnblocks
