\* A limiter of one task, two attempts.
CONSTANTS
    w1 = w1
    w2 = w2
    Procs = {w1, w2}
    PlainIds = {1}
    BatchJobs = {"mail", "log"}
    BatchIds <- JobIds
    Limit = 1
    TasksPerWorker = 1
    BatchSize = 2
    MaxAttempts = 2
    MaxClock = 2
    Keys = {1, 2, 3, 4, 5}
    Scenarios <- Explored
SPECIFICATION FairSpec
INVARIANTS NothingLost CronAlive LimiterBounded
PROPERTIES CronOncePerOccurrence Settles
CHECK_DEADLOCK FALSE
