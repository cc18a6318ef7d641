\* Two drains over pages of two rows; a row parks at its second failure.
CONSTANTS
    t1 = t1
    t2 = t2
    d1 = d1
    d2 = d2
    NoTurn = NoTurn
    Turns = {t1, t2}
    Subject = {t1}
    Drainers = {d1, d2}
    Batch = 2
    MaxRetries = 2
    Scenarios <- Explored
SPECIFICATION FairSpec
INVARIANTS NeverDropped
PROPERTIES SealStopsDelivery EventuallySettled
CHECK_DEADLOCK FALSE
