---------------------------- MODULE RedisWorker ----------------------------
(***************************************************************************)
(* The background worker on a Redis queue (packages/redis-worker/src:      *)
(* queue.ts, worker.ts): delivery under a visibility timeout, retries, the *)
(* dead letter queue, batches, and cron jobs that enqueue their successor. *)
(*                                                                         *)
(* The sorted set and the item hash are one function `items`, since every  *)
(* script writes both; a score is abstracted to why the item waits.  A     *)
(* step is one script, or one handler's outcome.  Each process runs one    *)
(* worker loop (concurrency.workers = 1).                                  *)
(***************************************************************************)
EXTENDS Naturals, Sequences, FiniteSets, Functions

CONSTANTS
    Procs,
    BatchJobs,      \* the jobs whose catalog entry has a batch config
    PlainIds,       \* numbers of the ids under which clients enqueue the plain job
    BatchIds,       \* the ids under which they enqueue batch jobs
    Limit,          \* concurrency.limit
    TasksPerWorker, \* concurrency.tasksPerWorker
    BatchSize,      \* batch.maxSize, the same for every batch job
    MaxAttempts,    \* retry.maxAttempts
    MaxClock,       \* bound: cron occurrences that pass, at most
    Keys,           \* bound: deduplication keys of an id in use at a time
    Scenarios       \* jobs there are, and bounds on calls and failures

Ids == [job : {"plain"}, n : PlainIds] \cup BatchIds \cup [job : {"cron"}, n : 1 .. MaxClock + 2]

ASSUME WorkerAssumption ==
    /\ PlainIds \subseteq Nat /\ BatchIds \subseteq [job : BatchJobs, n : Nat]
    /\ Limit \in Nat \ {0} /\ TasksPerWorker \in Nat \ {0} /\ BatchSize \in Nat \ {0}
    /\ MaxAttempts \in Nat \ {0} /\ MaxClock \in Nat
    /\ IsFiniteSet(BatchJobs) /\ BatchJobs \cap {"plain", "cron"} = {}
    /\ Scenarios \subseteq [jobs : SUBSET ({"plain", "cron"} \cup BatchJobs),
                            unknown : SUBSET ({"plain"} \cup BatchJobs),
                            unhandled : SUBSET ({"plain", "cron"} \cup BatchJobs),
                            versions : Nat, calls : Nat, faults : Nat,
                            until : 0 .. MaxClock, jitter : BOOLEAN]

VARIABLES
    jobs,           \* fixed: the jobs that are enqueued,
    unknown,        \* those the catalog lacks, or whose payloads fail its schema,
    unhandled,      \* and those without a handler
    jitter,         \* fixed: jitterInMs > 0
    until,          \* fixed bound: the cron occurrences that pass
    versions,       \* payloads still to be enqueued for the plain job
    items,          \* the queue: by id, or Absent
    dlq,            \* the dead letter queue
    up,             \* processes that run
    starting,       \* the call of setupCron on its way, or NoCall
    acc,            \* the batch accumulators of a process, by job
    tasks,          \* a process's limiter: the first Limit run, the rest wait
    clock,          \* the last cron occurrence that has passed
    accepted, handled, dropped,
                    \* payloads enqueued, handled with success, and
                    \* overwritten or withdrawn under their id
    gap,            \* no cron chain yet, or one given up with its item gone;
                    \* an occurrence that reaches the queue closes the gap
    calls, faults   \* client calls and failures still to come

fixed == <<jobs, unknown, unhandled, jitter, until>>
queue == <<items, dlq, accepted, dropped>>
procs == <<up, starting, acc, tasks>>
vars == <<fixed, versions, queue, procs, clock, handled, gap, calls, faults>>

catalog == jobs \ unknown

\* An enqueueOnce of a cron occurrence, and the clock when it was computed.
NoCall == [n |-> 0, seen |-> 0]

\* Why an item's score lies in the future, or that it does not.
Waits == {"no", "hidden", "delay", "future"}

Absent == [ver |-> 0, att |-> 0, key |-> 0, waits |-> "absent"]

Present(i) == items[i] # Absent

Payload(i, e) == <<i, e.ver>>

\* What a process holds of an item it dequeued.
Delivery(i, e) == [id |-> i, ver |-> e.ver, att |-> e.att, key |-> e.key]

Accumulated(w) == UNION {Range(acc[w][j]) : j \in BatchJobs}

Held(i) == {d \in UNION {Accumulated(w) \cup UNION {tasks[w][k].all : k \in DOMAIN tasks[w]}
                          : w \in Procs} : d.id = i}

\* The deduplication keys that are not known for the id; nanoid never repeats
\* one.
Unused(i) == Keys \ ({d.key : d \in Held(i)} \cup {items[i].key, dlq[i].key})

Init ==
    /\ \E s \in Scenarios :
         /\ jobs = s.jobs /\ unknown = s.unknown /\ unhandled = s.unhandled
         /\ jitter = s.jitter /\ until = s.until /\ versions = s.versions
         /\ calls = s.calls /\ faults = s.faults
    /\ items = [i \in Ids |-> Absent]
    /\ dlq = [i \in Ids |-> Absent]
    /\ up = [w \in Procs |-> FALSE]
    /\ starting = [w \in Procs |-> NoCall]
    /\ acc = [w \in Procs |-> [j \in BatchJobs |-> << >>]]
    /\ tasks = [w \in Procs |-> << >>]
    /\ clock = 0
    /\ accepted = {} /\ handled = {} /\ dropped = {}
    /\ gap = TRUE

Fault == faults > 0 /\ faults' = faults - 1

Call == calls > 0 /\ calls' = calls - 1

\* A cron delivery whose item is no longer in the queue.
Orphaned(d) == d.id.job = "cron" /\ ~Present(d.id)

Working(i) == Held(i) # {}

----------------------------------------------------------------------------
(* The scripts of queue.ts.                                                *)

\* enqueueItem: whatever is stored under the id is overwritten.
enqueueItem(i, ver, att, waits) ==
    /\ Unused(i) # {}
    /\ items' = [items EXCEPT ![i] = [ver |-> ver, att |-> att, waits |-> waits,
                                      key |-> CHOOSE k \in Unused(i) : TRUE]]
    /\ accepted' = accepted \cup {<<i, ver>>}
    /\ dropped' = IF Present(i) /\ items[i].ver # ver
                    THEN dropped \cup {Payload(i, items[i])} ELSE dropped
    /\ UNCHANGED dlq

\* enqueueItemOnce: HSETNX, then ZADD NX.
enqueueItemOnce(i, ver, waits) ==
    IF Present(i) THEN UNCHANGED queue ELSE enqueueItem(i, ver, 0, waits)

ackItem_ById(d) ==
    /\ items' = [items EXCEPT ![d.id] = Absent]
    /\ UNCHANGED <<dlq, accepted, dropped>>

\* ackItem with a deduplication key: an item enqueued since is left alone.
ackItem(d) ==
    /\ items' = IF items[d.id].key = d.key THEN [items EXCEPT ![d.id] = Absent] ELSE items
    /\ UNCHANGED <<dlq, accepted, dropped>>

\* moveToDeadLetterQueue takes what is stored under the id, whichever enqueue
\* it is from, in place of an older dead letter.
moveToDeadLetterQueue(i) ==
    /\ Present(i)
    /\ dlq' = [dlq EXCEPT ![i] = items[i]]
    /\ items' = [items EXCEPT ![i] = Absent]
    /\ dropped' = IF dlq[i] # Absent /\ dlq[i].ver # items[i].ver
                    THEN dropped \cup {Payload(i, dlq[i])} ELSE dropped
    /\ UNCHANGED accepted

\* redriveFromDeadLetterQueue: back as it was, attempt and key included.
redriveFromDeadLetterQueue(i) ==
    /\ dlq[i] # Absent
    /\ items' = [items EXCEPT ![i] = [dlq[i] EXCEPT !.waits = "no"]]
    /\ dlq' = [dlq EXCEPT ![i] = Absent]
    /\ dropped' = IF Present(i) /\ items[i].ver # dlq[i].ver
                    THEN dropped \cup {Payload(i, items[i])} ELSE dropped
    /\ UNCHANGED accepted
----------------------------------------------------------------------------
(* Clients of the queue.                                                   *)

\* enqueue: a plain job with a new payload each time, a batch job once under
\* each id.
Enqueue(i) ==
    /\ i.job \in jobs \ {"cron"}
    /\ IF i.job = "plain"
         THEN /\ versions > 0 /\ versions' = versions - 1
              /\ enqueueItem(i, versions, 0, "no")
         ELSE /\ <<i, 0>> \notin accepted
              /\ enqueueItem(i, 0, 0, "no")
              /\ UNCHANGED versions
    /\ UNCHANGED <<procs, clock, handled, gap, calls, faults>>

\* reschedule: ZADD XX, also while a process works on the item.
Reschedule(i) ==
    /\ Call /\ Present(i) /\ i.job # "cron"
    /\ items' = [items EXCEPT ![i].waits = "delay"]
    /\ UNCHANGED <<dlq, accepted, dropped, versions, procs, clock, handled, gap, faults>>

\* Worker.ack, by id alone: the job is withdrawn.
AckById(i) ==
    /\ Call /\ Present(i) /\ i.job # "cron"
    /\ items' = [items EXCEPT ![i] = Absent]
    /\ dropped' = dropped \cup {Payload(i, items[i])}
    /\ UNCHANGED <<dlq, accepted, versions, procs, clock, handled, gap, faults>>

\* handleRedriveMessage, in a process that is subscribed.
Redrive(i) ==
    /\ Call /\ \E w \in Procs : up[w]
    /\ redriveFromDeadLetterQueue(i)
    /\ UNCHANGED <<versions, procs, clock, handled, gap, faults>>

Due_NotHidden(i) ==
    /\ Present(i) /\ items[i].waits = "delay"
    /\ items' = [items EXCEPT ![i].waits = "no"]
    /\ UNCHANGED <<dlq, accepted, dropped, versions, procs, clock, handled, gap, calls, faults>>

\* An item's time comes.  That of a delivery in progress is a handler that
\* outlives the visibility timeout; a cron occurrence may be early by jitter.
Due(i) ==
    /\ Present(i)
    /\ \/ items[i].waits = "delay" /\ UNCHANGED faults
       \/ items[i].waits = "hidden" /\ IF Working(i) THEN Fault ELSE UNCHANGED faults
       \/ /\ items[i].waits = "future"
          /\ i.n <= clock \/ (jitter /\ i.n <= clock + 1)
          /\ UNCHANGED faults
    /\ items' = [items EXCEPT ![i].waits = "no"]
    /\ UNCHANGED <<dlq, accepted, dropped, versions, procs, clock, handled, gap, calls>>

ClockAdvances ==
    /\ clock < until /\ "cron" \in jobs
    /\ clock' = clock + 1
    /\ UNCHANGED <<versions, queue, procs, handled, gap, calls, faults>>
----------------------------------------------------------------------------
(* Cron.                                                                   *)

calculateNextScheduledAt_Past(last) == IF last = 0 THEN clock + 1 ELSE last + 1

\* calculateNextScheduledAt: the occurrence after `last`, or after now when
\* that one has passed; 0 stands for no last occurrence.
calculateNextScheduledAt(last) ==
    IF last = 0 \/ last + 1 <= clock THEN clock + 1 ELSE last + 1

\* enqueueCronJob computes the occurrence and then calls Redis, which may take
\* its time: the call is on its way,
cronCall(last) == [n |-> calculateNextScheduledAt(last), seen |-> clock]

\* and arrives.
enqueueCronJob(c) ==
    enqueueItemOnce([job |-> "cron", n |-> c.n], 0, "future") /\ gap' = FALSE

\* start: the worker loop, the redrive subscription, and setupCron, which
\* computes the occurrence to enqueue
Start(w) ==
    /\ ~up[w]
    /\ up' = [up EXCEPT ![w] = TRUE]
    /\ starting' = [starting EXCEPT ![w] = IF "cron" \in catalog THEN cronCall(0) ELSE NoCall]
    /\ UNCHANGED <<versions, queue, acc, tasks, clock, handled, gap, calls, faults>>

\* and waits for nothing: a call that fails, executed or not, is logged.
SetupCron(w) ==
    /\ starting[w] # NoCall
    /\ starting' = [starting EXCEPT ![w] = NoCall]
    /\ \/ enqueueCronJob(starting[w]) /\ UNCHANGED faults
       \/ Fault /\ (enqueueCronJob(starting[w]) \/ UNCHANGED <<queue, gap>>)
    /\ UNCHANGED <<versions, up, acc, tasks, clock, handled, calls>>
----------------------------------------------------------------------------
(* The worker loop.                                                        *)

Task(ds) == [at |-> "run", all |-> ds, todo |-> ds, call |-> NoCall]

\* The lists of at most n different elements of a set.
Lists(S, n) == UNION {Injection(1 .. m, S) : m \in 0 .. n}

\* The elements of a set as a list.
Listed(S) == CHOOSE s \in Injection(1 .. Cardinality(S), S) : TRUE

\* What dequeue returns of the items: their ids, payloads, attempts and keys.
Received(ids) == [k \in DOMAIN ids |-> Delivery(ids[k], items[ids[k]])]

Ready == {i \in Ids : Present(i) /\ items[i].waits = "no"}

\* The items of the catalog's jobs; dequeue skips the others, which stay hidden.
Known(ids) == {i \in ids : i.job \in catalog}

\* The orders in which dequeued items join the accumulators of their jobs.
Orders(ids) ==
    {b \in [BatchJobs -> Lists(Known(ids), BatchSize)] :
        \A j \in BatchJobs : Range(b[j]) = {i \in Known(ids) : i.job = j}}

\* Items routed to the limiter one by one, or to the accumulator of their job,
\* which is flushed as one task when it reaches its size.  The limiter has room
\* for them all, so that the order of these tasks tells nothing.
Route(w, ids, b) ==
    LET batch(j) == acc[w][j] \o Received(b[j])
        full     == {j \in BatchJobs : Len(batch(j)) >= BatchSize}
        flushes  == {Task(Range(SubSeq(batch(j), 1, BatchSize))) : j \in full}
        singles  == {Task({Delivery(i, items[i])}) : i \in {h \in Known(ids) : h.job \notin BatchJobs}}
    IN  /\ acc' = [acc EXCEPT ![w] = [j \in BatchJobs |->
                       IF j \in full THEN SubSeq(batch(j), BatchSize + 1, Len(batch(j))) ELSE batch(j)]]
        /\ tasks' = [tasks EXCEPT ![w] = @ \o Listed(singles \cup flushes)]

\* dequeueItems: the first `count` due items are hidden for their visibility
\* timeout.
dequeue(ids) ==
    /\ items' = [i \in Ids |-> IF i \in ids THEN [items[i] EXCEPT !.waits = "hidden"] ELSE items[i]]
    /\ UNCHANGED <<dlq, accepted, dropped>>

maxDequeueCount == IF catalog \cap BatchJobs # {} THEN BatchSize ELSE TasksPerWorker

taskCount(w) ==
    IF maxDequeueCount <= Limit - Len(tasks[w]) THEN maxDequeueCount ELSE Limit - Len(tasks[w])

\* The items a dequeue of `count` takes.
Dequeues(count) ==
    {S \in SUBSET Ready : /\ IsFiniteSet(S)
                          /\ Cardinality(S) = count \/ (Cardinality(S) < count /\ S = Ready)}

Poll_AtCapacity(w) ==
    /\ up[w] /\ Ready # {}
    /\ \E ids \in Dequeues(maxDequeueCount) : dequeue(ids) /\ \E b \in Orders(ids) : Route(w, ids, b)
    /\ UNCHANGED <<versions, up, starting, clock, handled, gap, calls, faults>>

\* One round of runWorkerLoop below capacity.
Poll(w) ==
    /\ up[w] /\ Len(tasks[w]) < Limit /\ Ready # {}
    /\ \E ids \in Dequeues(taskCount(w)) : dequeue(ids) /\ \E b \in Orders(ids) : Route(w, ids, b)
    /\ UNCHANGED <<versions, up, starting, clock, handled, gap, calls, faults>>

\* The reply of the dequeue is lost: the items stay hidden, nobody has them.
PollFails(w) ==
    /\ up[w] /\ Len(tasks[w]) < Limit /\ Ready # {} /\ Fault
    /\ \E ids \in Dequeues(taskCount(w)) : dequeue(ids)
    /\ UNCHANGED <<versions, procs, clock, handled, gap, calls>>

\* flushTimedOutBatches, before the capacity check of the round.
FlushTimedOut(w, j) ==
    /\ up[w] /\ acc[w][j] # << >>
    /\ tasks' = [tasks EXCEPT ![w] = Append(@, Task(Range(acc[w][j])))]
    /\ acc' = [acc EXCEPT ![w][j] = << >>]
    /\ UNCHANGED <<versions, queue, up, starting, clock, handled, gap, calls, faults>>

\* The process dies, or shuts down: stop closes the connection without waiting
\* for the handlers, whose later calls fail.
Crash(w) ==
    /\ up[w] /\ Fault
    /\ up' = [up EXCEPT ![w] = FALSE]
    /\ starting' = [starting EXCEPT ![w] = NoCall]
    /\ acc' = [acc EXCEPT ![w] = [j \in BatchJobs |-> << >>]]
    /\ tasks' = [tasks EXCEPT ![w] = << >>]
    /\ gap' = (gap \/ \E k \in DOMAIN tasks[w] : \E d \in tasks[w][k].all : Orphaned(d))
    /\ UNCHANGED <<versions, queue, clock, handled, calls>>
----------------------------------------------------------------------------
(* processItem and processBatch.                                           *)

Active(w) == {k \in DOMAIN tasks[w] : k <= Limit}

Goto(w, k, at, todo, call) ==
    tasks' = [tasks EXCEPT ![w][k] = [at |-> at, all |-> @.all, todo |-> todo, call |-> call]]

Without(s, k) == SubSeq(s, 1, k - 1) \o SubSeq(s, k + 1, Len(s))

Finish(w, k) == tasks' = [tasks EXCEPT ![w] = Without(@, k)]

\* The rest of a stage, or what follows it; before "cron" and "dead" the call of
\* rescheduleCronJob is computed.
Done(w, k, d, next) ==
    LET left == tasks[w][k].todo \ {d}
    IN  \/ left # {} /\ Goto(w, k, tasks[w][k].at, left, NoCall)
        \/ left = {} /\ next = "end" /\ Finish(w, k)
        \/ left = {} /\ next # "end" /\ Goto(w, k, next, tasks[w][k].all, cronCall(d.id.n))

\* The handler succeeds or throws.  Without one the task ends there, and the
\* items stay hidden.
Handle(w, k) ==
    /\ tasks[w][k].at = "run"
    /\ IF \E d \in tasks[w][k].all : d.id.job \in unhandled
         THEN /\ Finish(w, k)
              /\ gap' = (gap \/ \E d \in tasks[w][k].all : Orphaned(d))
              /\ UNCHANGED handled
         ELSE /\ \/ /\ handled' = handled \cup {Payload(d.id, d) : d \in tasks[w][k].all}
                    /\ Goto(w, k, "ack", tasks[w][k].all, NoCall)
                 \/ Goto(w, k, "fail", tasks[w][k].all, NoCall) /\ UNCHANGED handled
              /\ UNCHANGED gap
    /\ UNCHANGED <<versions, queue, up, starting, acc, clock, calls, faults>>

\* On success every item is acknowledged.  A failed call, which Redis may have
\* executed all the same, fails the whole task.
Ack(w, k, d) ==
    /\ tasks[w][k].at = "ack"
    /\ \/ /\ ackItem(d)
          /\ Done(w, k, d, IF d.id.job = "cron" THEN "cron" ELSE "end")
          /\ UNCHANGED faults
       \/ /\ Fault /\ Goto(w, k, "fail", tasks[w][k].all, NoCall)
          /\ ackItem(d) \/ UNCHANGED queue
    /\ UNCHANGED <<versions, up, starting, acc, clock, handled, gap, calls>>

\* The call of rescheduleCronJob after the ack ("cron"), or after the dead
\* letter move ("dead"), where its failure is logged and the task ends.
RescheduleCron(w, k) ==
    /\ tasks[w][k].at \in {"cron", "dead"}
    /\ \/ /\ enqueueCronJob(tasks[w][k].call)
          /\ Finish(w, k)
          /\ UNCHANGED faults
       \/ /\ Fault
          /\ \/ tasks[w][k].at = "cron" /\ Goto(w, k, "fail", tasks[w][k].all, NoCall)
             \/ tasks[w][k].at = "dead" /\ Finish(w, k)
          /\ \/ enqueueCronJob(tasks[w][k].call)
             \/ gap' = (gap \/ tasks[w][k].at = "dead") /\ UNCHANGED queue
    /\ UNCHANGED <<versions, up, starting, acc, clock, handled, calls>>

\* calculateNextRetryDelay: none once the attempts are used up.
Retries(d) == d.att + 1 < MaxAttempts

AfterRequeue_Ends(d) == "end"

\* A cron job goes on to its next occurrence after the dead letter move.
AfterRequeue(d) == IF d.id.job = "cron" /\ ~Retries(d) THEN "dead" ELSE "end"

\* A failed item is enqueued again under its id, or moved to the dead letter
\* queue.
Requeue(d) ==
    \/ Retries(d) /\ enqueueItem(d.id, d.ver, d.att + 1, "delay")
    \/ ~Retries(d) /\ moveToDeadLetterQueue(d.id)

\* The move throws when nothing is stored under the id; a call whose reply is
\* lost fails whether or not Redis executed it, and so does a move that was
\* executed and is resent.  The item is then given up.
Fail(w, k, d) ==
    /\ tasks[w][k].at = "fail"
    /\ \/ /\ Requeue(d)
          /\ Done(w, k, d, AfterRequeue(d))
          /\ UNCHANGED <<gap, faults>>
       \/ /\ \/ ~Retries(d) /\ ~Present(d.id) /\ UNCHANGED <<queue, faults>>
             \/ Fault /\ (Requeue(d) \/ UNCHANGED queue)
          /\ Done(w, k, d, "end")
          /\ gap' = (gap \/ Orphaned(d)')
    /\ UNCHANGED <<versions, up, starting, acc, clock, handled, calls>>

TaskStep(w, k) ==
    \/ Handle(w, k)
    \/ RescheduleCron(w, k)
    \/ \E d \in tasks[w][k].todo : Ack(w, k, d) \/ Fail(w, k, d)
----------------------------------------------------------------------------
ProcStep(w) ==
    \/ Start(w) \/ SetupCron(w) \/ Poll(w) \/ PollFails(w) \/ Crash(w)
    \/ \E j \in BatchJobs : FlushTimedOut(w, j)
    \/ \E k \in Active(w) : TaskStep(w, k)

Next ==
    /\ \/ \E i \in Ids : Enqueue(i) \/ Reschedule(i) \/ AckById(i) \/ Redrive(i) \/ Due(i)
       \/ ClockAdvances
       \/ \E w \in Procs : ProcStep(w)
    /\ UNCHANGED fixed

Spec == Init /\ [][Next]_vars

\* A job whose items a worker can take and handle.
Served(job) == job \in catalog \ unhandled

TaskOf(w, k, served) == \E d \in tasks[w][k].all : Served(d.id.job) = served

\* The system does not stop while a process can be restarted or, for a served
\* job, a batch can be flushed, a task can go on, a score can come due or a call
\* can arrive; nor does a process stop at a task without a handler.  A due item
\* is dequeued in the end, since dequeueItems goes by score and every item it
\* takes gets a later one.
FairSpec ==
    /\ Spec
    /\ WF_vars(/\ \/ \E i \in Ids : Served(i.job) /\ Due(i)
                  \/ \E w \in Procs : \/ Start(w) \/ SetupCron(w)
                                      \/ \E j \in BatchJobs : Served(j) /\ FlushTimedOut(w, j)
                                      \/ \E k \in Active(w) : TaskOf(w, k, TRUE) /\ TaskStep(w, k)
               /\ UNCHANGED fixed)
    /\ \A w \in Procs :
         WF_vars((\E k \in Active(w) : TaskOf(w, k, FALSE) /\ TaskStep(w, k)) /\ UNCHANGED fixed)
    /\ SF_vars(/\ \E w \in Procs : Poll(w)
               /\ \E i \in Ready : Served(i.job) /\ items'[i] # items[i]
               /\ UNCHANGED fixed)
----------------------------------------------------------------------------
(* Properties.                                                             *)

Entries == [ver : Nat, att : 0 .. MaxAttempts - 1, key : Keys, waits : Waits]

Deliveries == [id : Ids, ver : Nat, att : 0 .. MaxAttempts - 1, key : Keys]

\* Attempt numbers stay below the maximum in the queue, in the dead letter
\* queue and in every process, and a task's pending items are among its own.
WorkerTypeOK ==
    /\ \A i \in Ids : items[i] = Absent \/ items[i] \in Entries
    /\ \A i \in Ids : dlq[i] = Absent \/ dlq[i] \in Entries
    /\ \A w \in Procs :
         /\ Accumulated(w) \subseteq Deliveries
         /\ \A k \in DOMAIN tasks[w] :
              /\ tasks[w][k].at \in {"run", "ack", "cron", "dead", "fail"}
              /\ tasks[w][k].all \subseteq Deliveries
              /\ tasks[w][k].todo \subseteq tasks[w][k].all /\ tasks[w][k].todo # {}
    /\ clock \in 0 .. MaxClock

\* A payload that was enqueued is in the queue or in the dead letter queue
\* until a handler has succeeded on it, or it was overwritten or withdrawn
\* under its id: no crash, timeout, retry, redrive or acknowledgement of an
\* older enqueue (the deduplication key of ackItem) loses it.
NothingLost ==
    accepted \subseteq handled \cup dropped
                 \cup {Payload(i, items[i]) : i \in {j \in Ids : Present(j)}}
                 \cup {Payload(i, dlq[i]) : i \in {j \in Ids : dlq[j] # Absent}}

\* Unless a process gave up a cron delivery whose item was gone (it died, or the
\* reply of the dead letter move or of the call after it was lost), some
\* occurrence of the job is queued or in a task that will enqueue the next one:
\* success, retries, timeouts and dead letter moves all keep the chain going.
CronAlive ==
    "cron" \in jobs /\ ~gap =>
        \/ \E i \in Ids : i.job = "cron" /\ Present(i)
        \/ \E w \in Procs : \E k \in DOMAIN tasks[w] :
             \E d \in tasks[w][k].all : d.id.job = "cron"

\* A call of enqueueCronJob that an occurrence overtook on its way to Redis.
Overtaken(c) == c.seen < clock

InFlight(n) ==
    {c \in {starting[w] : w \in Procs} \cup UNION {{tasks[w][k].call : k \in DOMAIN tasks[w]} : w \in Procs} :
        c.n = n}

\* Without jitter an occurrence that was handled is never enqueued anew by
\* enqueueCronJob, of overlapping deliveries or of processes that start, except
\* by a call that was on its way to Redis while an occurrence passed.
CronOncePerOccurrence ==
    [][\A i \in Ids :
         /\ i.job = "cron" /\ ~jitter /\ <<i, 0>> \in handled
         /\ items[i] = Absent /\ items'[i] # Absent /\ items'[i].waits = "future"
         => \E c \in InFlight(i.n) : Overtaken(c)]_vars

\* The limiter never holds more than its limit and one batch for each batch job
\* of the catalog, those flushTimedOutBatches hands over at capacity.
LimiterBounded ==
    \A w \in Procs : Len(tasks[w]) <= Limit + Cardinality(catalog \cap BatchJobs)

\* Once clients and failures cease, the queue drains: every item of a served job
\* whose time can come is handled and acknowledged, or dead, and stays so, also
\* beside items of unknown or unhandled jobs, which are redelivered for ever.
Settles == <>[](\A i \in Ids : Present(i) /\ Served(i.job) => items[i].waits = "future")
=============================================================================
