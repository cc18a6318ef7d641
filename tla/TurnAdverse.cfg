SPECIFICATION FairSpec
CONSTANTS
    r1 = r1
    r2 = r2
    r3 = r3
    t1 = t1
    k1 = k1
    Requests = {r1, r2}
    Threads = {t1}
    Keys = {k1}
    ThreadOf <- PairThread
    KeyOf <- PairKey
    NoKey = NoKey
    Free = Free
    IdemMayExpire = TRUE
    SwallowedErrors = TRUE
    Environments <- Adversities
    MaxDay = 2
CHECK_DEADLOCK FALSE
INVARIANT OneChargePerKey
INVARIANT BilledIsPersisted
INVARIANT ReservationsReturned
PROPERTY ThreadUnlocks
