SPECIFICATION FairSpec
CONSTANTS
    p1 = p1
    p2 = p2
    NoPass = NoPass
    Passes <- Pair
    Provisioned <- NoAnalytics
    MaxRetries = 2
    MaxFaults = 1
    MaxPasses = 2
    Settings <- Anything
CHECK_DEADLOCK FALSE
PROPERTY SealedBeforeSwept
PROPERTY QueueLetsGo
