----------------------- MODULE MCObservabilityOutbox -----------------------
\* A turn of the subject, a turn of somebody else, two overlapping drains.
EXTENDS ObservabilityOutbox

CONSTANTS t1, t2, d1, d2

\* One turn with enough failures to park it, and two turns, decodable or not,
\* in one batch or in two.
Explored ==
    {[turns |-> {t1}, readable |-> {t1}, faults |-> 2],
     [turns |-> {t2}, readable |-> {t2}, faults |-> 3],
     [turns |-> {t1, t2}, readable |-> {t1, t2}, faults |-> 0],
     [turns |-> {t1, t2}, readable |-> {t1}, faults |-> 0],
     [turns |-> {t1, t2}, readable |-> {t2}, faults |-> 0]}
=============================================================================
