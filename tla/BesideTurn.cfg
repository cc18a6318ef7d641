\* A window of two turns: compactions at the seventh, twelfth, ... turn.
CONSTANTS
    k1 = k1
    k2 = k2
    k3 = k3
    c1 = c1
    c2 = c2
    h1 = h1
    h2 = h2
    Compactors = {k1, k2, k3}
    ContextLimit = 2
    CompactThreshold = 6
    Scenarios <- Threads
    Callers = {c1, c2}
    Operators = {h1, h2}
    Plans <- Asked
SPECIFICATION BesideSpec
INVARIANTS SummaryExact ContextExact RunAsRecorded OncePerApproval
PROPERTIES TailStaysLive Released DecisionStands ToldIsRun Settled
CHECK_DEADLOCK FALSE
