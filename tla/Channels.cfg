SPECIFICATION FairSpec
CONSTANTS
    w1 = w1
    w2 = w2
    Workers = {w1, w2}
    Nobody = Nobody
    Gone = Gone
    Session = Session
    MaxGrants = 3
    MaxFaults = 2
    Generations = 3
    Scenarios <- Explored
CHECK_DEADLOCK FALSE
INVARIANT GrantSpentOnce
INVARIANT OneTurn
INVARIANT OneReply
INVARIANT CompletedIsAnswered
PROPERTY StagesFenced
PROPERTY EventEnds
