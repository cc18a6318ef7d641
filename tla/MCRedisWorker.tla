--------------------------- MODULE MCRedisWorker ---------------------------
\* Two processes; each kind of job on its own, a plain job among those of one
\* and of two batch jobs, and a job that no worker knows or handles beside one that is
\* served.
EXTENDS RedisWorker

CONSTANTS w1, w2

JobIds == {[job |-> "mail", n |-> 1], [job |-> "mail", n |-> 2], [job |-> "log", n |-> 1]}

With(jobs_, unknown_, unhandled_, versions_, calls_, faults_, until_, jitter_) ==
    [jobs |-> jobs_, unknown |-> unknown_, unhandled |-> unhandled_, versions |-> versions_,
     calls |-> calls_, faults |-> faults_, until |-> until_, jitter |-> jitter_]

Explored ==
    {With({"plain"}, {}, {}, 2, 1, 1, 0, FALSE),
     With({"plain"}, {}, {}, 1, 0, 2, 0, FALSE),
     With({"mail"}, {}, {}, 0, 0, 1, 0, FALSE),
     With({"plain", "mail"}, {}, {}, 1, 0, 0, 0, FALSE),
     With({"plain", "mail", "log"}, {}, {}, 1, 0, 0, 0, FALSE),
     With({"plain", "mail"}, {"plain"}, {}, 1, 0, 0, 0, FALSE),
     With({"plain", "mail"}, {}, {"plain"}, 1, 0, 0, 0, FALSE),
     With({"cron"}, {}, {}, 0, 0, 2, 1, FALSE),
     With({"cron"}, {}, {}, 0, 0, 1, 2, FALSE),
     With({"cron"}, {}, {}, 0, 0, 0, 2, TRUE)}
=============================================================================
