-------------------------- MODULE RedisWorker_proofs --------------------------
(***************************************************************************)
(* Proofs about RedisWorker, for any number of processes, ids, calls and   *)
(* failures, and any limits: no payload is lost, the cron chain goes on,   *)
(* no prompt call enqueues an occurrence again, the limiter stays bounded.  *)
(***************************************************************************)
EXTENDS RedisWorker, FiniteSetTheorems, TLAPS

----------------------------------------------------------------------------
Stages == {"run", "ack", "cron", "dead", "fail"}

CallStates == [n : Nat, seen : Nat]

TaskStates == [at : Stages, all : SUBSET Deliveries, todo : SUBSET Deliveries, call : CallStates]

AccStates == [BatchJobs -> Seq(Deliveries)]

Types ==
    /\ jobs \in SUBSET ({"plain", "cron"} \cup BatchJobs)
    /\ unknown \in SUBSET ({"plain"} \cup BatchJobs) /\ unhandled \in SUBSET ({"plain", "cron"} \cup BatchJobs)
    /\ until \in 0 .. MaxClock /\ jitter \in BOOLEAN /\ versions \in Nat
    /\ items \in [Ids -> Entries \cup {Absent}]
    /\ dlq \in [Ids -> Entries \cup {Absent}]
    /\ up \in [Procs -> BOOLEAN]
    /\ starting \in [Procs -> CallStates]
    /\ acc \in [Procs -> AccStates]
    /\ tasks \in [Procs -> Seq(TaskStates)]
    /\ clock \in 0 .. MaxClock
    /\ accepted \subseteq Ids \X Nat /\ handled \subseteq Ids \X Nat
    /\ gap \in BOOLEAN /\ calls \in Nat /\ faults \in Nat

\* The last occurrence that may be delivered: jitter makes one early.
Now == IF jitter THEN clock + 1 ELSE clock

Passed(i) == i.job = "cron" => i.n <= Now

\* What is stored under an id is of a job of the catalog, and a cron occurrence
\* leaves "future" only when its time has come.
IdOK(i) ==
    /\ Present(i) => i.job \in jobs /\ (items[i].waits # "future" => Passed(i))
    /\ dlq[i] # Absent => i.job \in jobs /\ Passed(i)
    /\ Present(i) /\ dlq[i] # Absent => items[i].key # dlq[i].key

\* A key stands for one payload: an entry with the key of a delivery in hand
\* has its payload.
DeliveryOK(d) ==
    /\ d.id.job \in catalog /\ Passed(d.id)
    /\ Present(d.id) /\ items[d.id].key = d.key => items[d.id].ver = d.ver
    /\ dlq[d.id] # Absent /\ dlq[d.id].key = d.key => dlq[d.id].ver = d.ver

\* A call of enqueueCronJob is for an occurrence that lay ahead when the call
\* was computed.
CallOK(c) ==
    /\ "cron" \in jobs /\ c.n \in 1 .. MaxClock + 2
    /\ c.seen \in Nat /\ c.seen < c.n /\ c.seen <= clock

\* A task is one item or a batch, acknowledges what was handled, and goes on to
\* the next occurrence only of a cron job.
TaskOK(t) ==
    /\ t.todo \subseteq t.all /\ t.todo # {}
    /\ \A d \in t.all : DeliveryOK(d) /\ (d.id.job \notin BatchJobs => t.all = {d})
    /\ t.at = "ack" => \A d \in t.all : Payload(d.id, d) \in handled
    /\ t.at \in {"cron", "dead"} => CallOK(t.call) /\ \A d \in t.all : d.id.job = "cron"

\* The batch jobs of which some items are accumulated.
Filled(a) == {j \in BatchJobs : a[j] # << >>}

\* An accumulator is short of a batch, and its items are of its job.
AccOK(a) ==
    \A j \in BatchJobs : /\ Len(a[j]) < BatchSize
                         /\ \A k \in 1 .. Len(a[j]) : DeliveryOK(a[j][k]) /\ a[j][k].id.job = j

\* The limiter is past its limit by no more than the accumulators that have
\* been flushed since.
RoomFor(n, a) == n + Cardinality(Filled(a)) <= Limit + Cardinality(catalog \cap BatchJobs)

ProcOK(w) ==
    /\ AccOK(acc[w])
    /\ \A k \in 1 .. Len(tasks[w]) : TaskOK(tasks[w][k])
    /\ RoomFor(Len(tasks[w]), acc[w])

StartsOK == \A w \in Procs : starting[w] = NoCall \/ CallOK(starting[w])

HandledOK == \A x \in handled : Passed(x[1])

\* The inductive invariant.
WorkerInv ==
    /\ Types
    /\ \A i \in Ids : IdOK(i)
    /\ \A w \in Procs : ProcOK(w)
    /\ StartsOK
    /\ HandledOK
    /\ NothingLost
    /\ CronAlive

----------------------------------------------------------------------------
(* The queue.                                                              *)

InHand(d) == d \in Held(d.id)

Safe(x) ==
    \/ x \in handled \cup dropped
    \/ Present(x[1]) /\ items[x[1]].ver = x[2]
    \/ dlq[x[1]] # Absent /\ dlq[x[1]].ver = x[2]

QueueInv ==
    /\ Types
    /\ \A i \in Ids : IdOK(i)
    /\ \A x \in accepted : Safe(x)

\* What a step on the queue has to leave behind.
QueueKept ==
    /\ items' \in [Ids -> Entries \cup {Absent}]
    /\ dlq' \in [Ids -> Entries \cup {Absent}]
    /\ accepted' \subseteq Ids \X Nat
    /\ \A i \in Ids : IdOK(i)'
    /\ \A d \in Deliveries : InHand(d) /\ DeliveryOK(d) => DeliveryOK(d)'
    /\ \A x \in accepted' : Safe(x)'

Still == UNCHANGED <<jobs, unknown, jitter, clock>> /\ handled \subseteq handled'

\* The number in an id: of a job, or of a cron occurrence.
LEMMA IdNumber == ASSUME NEW i \in Ids PROVE i.n \in Nat
<1>1. PlainIds \subseteq Nat /\ BatchIds \subseteq [job : BatchJobs, n : Nat] /\ 1 .. MaxClock + 2 \subseteq Nat
  BY WorkerAssumption
<1>2. i.n \in PlainIds \/ i \in BatchIds \/ i.n \in 1 .. MaxClock + 2
  BY DEF Ids
<1> QED
  BY <1>1, <1>2, Zenon

\* NothingLost, payload by payload.
LEMMA EachIsSafe ==
    ASSUME accepted \subseteq Ids \X Nat
    PROVE  NothingLost <=> \A x \in accepted : Safe(x)
<1>1. ASSUME NEW x \in accepted
      PROVE  /\ x \in {Payload(i, items[i]) : i \in {j \in Ids : Present(j)}} <=> Present(x[1]) /\ items[x[1]].ver = x[2]
             /\ x \in {Payload(i, dlq[i]) : i \in {j \in Ids : dlq[j] # Absent}} <=> dlq[x[1]] # Absent /\ dlq[x[1]].ver = x[2]
  <2>1. PICK i \in Ids, v \in Nat : x = <<i, v>>
    OBVIOUS
  <2> QED
    BY <2>1 DEF Payload
<1> QED
  BY <1>1 DEF NothingLost, Safe

\* The queue is left alone.
LEMMA QueueStill ==
    ASSUME QueueInv, Still, UNCHANGED queue
    PROVE  QueueKept
BY DEF QueueInv, Types, Still, queue, QueueKept, IdOK, DeliveryOK, catalog, Passed, Now, Present, Safe

\* enqueueItem: the new key is unlike those in hand and the dead letter's.
LEMMA EnqueueKept ==
    ASSUME QueueInv, Still, NEW i \in Ids, NEW v \in Nat, NEW a \in 0 .. MaxAttempts - 1, NEW s \in Waits,
           i.job \in jobs, s # "future" => Passed(i), enqueueItem(i, v, a, s)
    PROVE  QueueKept
<1>1. PICK k \in Unused(i) : items' = [items EXCEPT ![i] = [ver |-> v, att |-> a, waits |-> s, key |-> k]]
  BY Zenon DEF enqueueItem
<1> DEFINE e == [ver |-> v, att |-> a, waits |-> s, key |-> k]
<1>2. e \in Entries /\ e # Absent
  BY <1>1, Zenon DEF Unused, Entries, Absent, Waits
<1>3. /\ items' = [items EXCEPT ![i] = e] /\ dlq' = dlq
      /\ items \in [Ids -> Entries \cup {Absent}] /\ dlq \in [Ids -> Entries \cup {Absent}]
      /\ accepted' = accepted \cup {<<i, v>>} /\ accepted \subseteq Ids \X Nat
      /\ jobs' = jobs /\ jitter' = jitter /\ clock' = clock
  BY <1>1, Zenon DEF enqueueItem, QueueInv, Types, Still
<1>4. e.key # dlq[i].key /\ \A d \in Deliveries : InHand(d) /\ d.id = i => d.key # e.key
  BY <1>1, Zenon DEF Unused, InHand
<1>5. items'[i] = e /\ \A j \in Ids : j # i => items'[j] = items[j]
  BY <1>3
<1> HIDE DEF e
<1>6. items' \in [Ids -> Entries \cup {Absent}]
  BY <1>2, <1>3
<1>7. \A j \in Ids : IdOK(j)'
  BY <1>3, <1>4, <1>5 DEF e, QueueInv, IdOK, Present, Passed, Now
<1>8. \A d \in Deliveries : InHand(d) /\ DeliveryOK(d) => DeliveryOK(d)'
  BY <1>3, <1>4, <1>5 DEF Deliveries, DeliveryOK, catalog, Present, Passed, Now, Still
<1>9. \A x \in accepted' : Safe(x)'
  <2> SUFFICES ASSUME NEW x \in accepted' PROVE Safe(x)'
    OBVIOUS
  <2>1. CASE x = <<i, v>>
    BY <2>1, <1>2, <1>5 DEF e, Safe, Present
  <2>2. CASE x \in accepted /\ x # <<i, v>>
    <3>1. PICK j \in Ids, u \in Nat : x = <<j, u>>
      BY <2>2, <1>3
    <3>2. Safe(x)
      BY <2>2 DEF QueueInv
    <3>3. dropped' = IF Present(i) /\ items[i].ver # v THEN dropped \cup {<<i, items[i].ver>>} ELSE dropped
      BY DEF enqueueItem, Payload
    <3> QED
      BY <2>2, <3>1, <3>2, <3>3, <1>2, <1>3, <1>5 DEF e, Safe, Present, Still
  <2> QED
    BY <2>1, <2>2, <1>3
<1> QED
  BY <1>3, <1>6, <1>7, <1>8, <1>9 DEF QueueKept

\* An entry is removed whose payload was handled or withdrawn: ackItem, AckById.
LEMMA RemoveKept ==
    ASSUME QueueInv, Still, NEW i \in Ids, items' = [items EXCEPT ![i] = Absent],
           UNCHANGED <<dlq, accepted>>, dropped \subseteq dropped',
           Present(i) => Payload(i, items[i]) \in handled' \cup dropped'
    PROVE  QueueKept
<1>1. /\ items' = [items EXCEPT ![i] = Absent] /\ dlq' = dlq
      /\ items \in [Ids -> Entries \cup {Absent}] /\ dlq \in [Ids -> Entries \cup {Absent}]
      /\ accepted' = accepted /\ accepted \subseteq Ids \X Nat
      /\ jobs' = jobs /\ jitter' = jitter /\ clock' = clock
  BY DEF QueueInv, Types, Still
<1>2. items'[i] = Absent /\ \A j \in Ids : j # i => items'[j] = items[j]
  BY <1>1
<1>3. items' \in [Ids -> Entries \cup {Absent}]
  BY <1>1
<1>4. \A j \in Ids : IdOK(j)'
  BY <1>1, <1>2 DEF QueueInv, IdOK, Present, Passed, Now
<1>5. \A d \in Deliveries : InHand(d) /\ DeliveryOK(d) => DeliveryOK(d)'
  BY <1>1, <1>2 DEF Deliveries, DeliveryOK, catalog, Present, Passed, Now, Still
<1>6. \A x \in accepted' : Safe(x)'
  <2> SUFFICES ASSUME NEW x \in accepted PROVE Safe(x)'
    BY <1>1, Zenon
  <2>1. PICK j \in Ids, u \in Nat : x = <<j, u>>
    BY <1>1
  <2> QED
    BY <2>1, <1>1, <1>2 DEF QueueInv, Safe, Present, Payload, Still
<1> QED
  BY <1>1, <1>3, <1>4, <1>5, <1>6, Zenon DEF QueueKept

\* The acknowledgement of a delivery whose payload was handled.
LEMMA AckKept ==
    ASSUME QueueInv, Still, NEW d \in Deliveries, DeliveryOK(d), Payload(d.id, d) \in handled, ackItem(d)
    PROVE  QueueKept
<1>1. d.id \in Ids
  BY DEF Deliveries
<1>2. CASE items[d.id].key = d.key
  BY <1>1, <1>2, RemoveKept, Zenon DEF ackItem, DeliveryOK, Payload, Still
<1>3. CASE items[d.id].key # d.key
  BY <1>3, QueueStill DEF ackItem, queue
<1> QED
  BY <1>2, <1>3

\* moveToDeadLetterQueue.
LEMMA DeadLetterKept ==
    ASSUME QueueInv, Still, NEW i \in Ids, Passed(i), moveToDeadLetterQueue(i)
    PROVE  QueueKept
<1>1. /\ items' = [items EXCEPT ![i] = Absent] /\ dlq' = [dlq EXCEPT ![i] = items[i]]
      /\ items \in [Ids -> Entries \cup {Absent}] /\ dlq \in [Ids -> Entries \cup {Absent}]
      /\ accepted' = accepted /\ accepted \subseteq Ids \X Nat /\ Present(i)
      /\ jobs' = jobs /\ jitter' = jitter /\ clock' = clock
  BY DEF QueueInv, Types, Still, moveToDeadLetterQueue
<1>2. /\ items'[i] = Absent /\ \A j \in Ids : j # i => items'[j] = items[j]
      /\ dlq'[i] = items[i] /\ \A j \in Ids : j # i => dlq'[j] = dlq[j]
  BY <1>1
<1>3. items' \in [Ids -> Entries \cup {Absent}] /\ dlq' \in [Ids -> Entries \cup {Absent}]
  BY <1>1
<1>4. \A j \in Ids : IdOK(j)'
  BY <1>1, <1>2 DEF QueueInv, IdOK, Present, Passed, Now
<1>5. \A d \in Deliveries : InHand(d) /\ DeliveryOK(d) => DeliveryOK(d)'
  BY <1>1, <1>2 DEF Deliveries, DeliveryOK, catalog, Present, Passed, Now, Still
<1>6. \A x \in accepted' : Safe(x)'
  <2> SUFFICES ASSUME NEW x \in accepted PROVE Safe(x)'
    BY <1>1
  <2>1. PICK j \in Ids, u \in Nat : x = <<j, u>>
    BY <1>1
  <2>2. dropped' = IF dlq[i] # Absent /\ dlq[i].ver # items[i].ver THEN dropped \cup {<<i, dlq[i].ver>>} ELSE dropped
    BY DEF moveToDeadLetterQueue, Payload
  <2>3. Safe(x)
    BY DEF QueueInv
  <2> QED
    BY <2>1, <2>2, <2>3, <1>1, <1>2 DEF Safe, Present, Still
<1> QED
  BY <1>1, <1>3, <1>4, <1>5, <1>6 DEF QueueKept

\* redriveFromDeadLetterQueue.
LEMMA RedriveKept ==
    ASSUME QueueInv, Still, NEW i \in Ids, redriveFromDeadLetterQueue(i)
    PROVE  QueueKept
<1> DEFINE e == [dlq[i] EXCEPT !.waits = "no"]
<1>1. /\ items' = [items EXCEPT ![i] = e] /\ dlq' = [dlq EXCEPT ![i] = Absent]
      /\ items \in [Ids -> Entries \cup {Absent}] /\ dlq \in [Ids -> Entries \cup {Absent}]
      /\ accepted' = accepted /\ accepted \subseteq Ids \X Nat /\ dlq[i] # Absent
      /\ jobs' = jobs /\ jitter' = jitter /\ clock' = clock
  BY DEF QueueInv, Types, Still, redriveFromDeadLetterQueue
<1>2. e \in Entries /\ e # Absent /\ e.ver = dlq[i].ver /\ e.key = dlq[i].key /\ e.waits = "no"
  BY <1>1 DEF Entries, Absent, Waits
<1> HIDE DEF e
<1>3. /\ items'[i] = e /\ \A j \in Ids : j # i => items'[j] = items[j]
      /\ dlq'[i] = Absent /\ \A j \in Ids : j # i => dlq'[j] = dlq[j]
  BY <1>1
<1>4. items' \in [Ids -> Entries \cup {Absent}] /\ dlq' \in [Ids -> Entries \cup {Absent}]
  BY <1>1, <1>2
<1>5. \A j \in Ids : IdOK(j)'
  BY <1>1, <1>2, <1>3 DEF QueueInv, IdOK, Present, Passed, Now
<1>6. \A d \in Deliveries : InHand(d) /\ DeliveryOK(d) => DeliveryOK(d)'
  BY <1>1, <1>2, <1>3 DEF Deliveries, DeliveryOK, catalog, Present, Passed, Now, Still
<1>7. \A x \in accepted' : Safe(x)'
  <2> SUFFICES ASSUME NEW x \in accepted PROVE Safe(x)'
    BY <1>1
  <2>1. PICK j \in Ids, u \in Nat : x = <<j, u>>
    BY <1>1
  <2>2. dropped' = IF Present(i) /\ items[i].ver # dlq[i].ver THEN dropped \cup {<<i, items[i].ver>>} ELSE dropped
    BY DEF redriveFromDeadLetterQueue, Payload
  <2>3. Safe(x)
    BY DEF QueueInv
  <2> QED
    BY <2>1, <2>2, <2>3, <1>1, <1>2, <1>3 DEF Safe, Present, Still
<1> QED
  BY <1>1, <1>4, <1>5, <1>6, <1>7 DEF QueueKept

\* The scores of items change: a reschedule, a due time, a dequeue.
Rescored(i) ==
    \/ items'[i] = items[i]
    \/ \E s \in Waits : Present(i) /\ items'[i] = [items[i] EXCEPT !.waits = s] /\ (s # "future" => Passed(i))

\* ... which keeps the queue's invariant: the entries are those they were.
LEMMA RescoreKept ==
    ASSUME QueueInv, Still, UNCHANGED <<dlq, accepted, dropped>>,
           items' = [i \in Ids |-> items'[i]], \A i \in Ids : Rescored(i)
    PROVE  QueueKept
<1>1. /\ dlq' = dlq /\ accepted' = accepted /\ dropped' = dropped
      /\ items \in [Ids -> Entries \cup {Absent}] /\ dlq \in [Ids -> Entries \cup {Absent}]
      /\ accepted \subseteq Ids \X Nat
      /\ jobs' = jobs /\ jitter' = jitter /\ clock' = clock
  BY DEF QueueInv, Types, Still
<1>2. ASSUME NEW i \in Ids
      PROVE  /\ items'[i] \in Entries \cup {Absent}
             /\ items'[i] = Absent <=> items[i] = Absent
             /\ items'[i].ver = items[i].ver /\ items'[i].key = items[i].key
             /\ items'[i] = items[i] \/ (items'[i].waits # "future" => Passed(i))
  <2>1. CASE items'[i] = items[i]
    BY <2>1, <1>1
  <2>2. ASSUME NEW s \in Waits, Present(i), items'[i] = [items[i] EXCEPT !.waits = s], s # "future" => Passed(i)
        PROVE  /\ items'[i] \in Entries /\ items'[i] # Absent /\ items[i] # Absent
               /\ items'[i].ver = items[i].ver /\ items'[i].key = items[i].key
               /\ items'[i].waits = s
    BY <2>2, <1>1 DEF Present, Entries, Absent, Waits
  <2> QED
    BY <2>1, <2>2 DEF Rescored
<1>3. items' \in [Ids -> Entries \cup {Absent}]
  BY <1>2
<1>4. \A j \in Ids : IdOK(j)'
  BY <1>1, <1>2 DEF QueueInv, IdOK, Present, Passed, Now
<1>5. \A d \in Deliveries : InHand(d) /\ DeliveryOK(d) => DeliveryOK(d)'
  BY <1>1, <1>2 DEF Deliveries, DeliveryOK, catalog, Present, Passed, Now, Still
<1>6. \A x \in accepted' : Safe(x)'
  <2> SUFFICES ASSUME NEW x \in accepted PROVE Safe(x)'
    BY <1>1
  <2>1. PICK j \in Ids, u \in Nat : x = <<j, u>>
    BY <1>1
  <2> QED
    BY <2>1, <1>1, <1>2 DEF QueueInv, Safe, Present, Still
<1> QED
  BY <1>1, <1>3, <1>4, <1>5, <1>6 DEF QueueKept

\* The occurrence that enqueueCronJob computes after one that has passed.
LEMMA CronCall ==
    ASSUME Types, Still, "cron" \in jobs, NEW n \in Nat, n <= Now, NEW c, c = cronCall(n)
    PROVE  c \in CallStates /\ CallOK(c) /\ CallOK(c)'
<1>1. clock \in Nat /\ clock <= MaxClock /\ MaxClock \in Nat
  BY WorkerAssumption DEF Types
<1>2. c.n = calculateNextScheduledAt(n) /\ c.seen = clock /\ c = [n |-> c.n, seen |-> c.seen]
  BY Zenon DEF cronCall
<1>3. c.n \in 1 .. MaxClock + 2 /\ c.n \in Nat /\ clock < c.n
  BY <1>1, <1>2 DEF calculateNextScheduledAt, Now
<1>4. c \in CallStates
  BY <1>1, <1>2, <1>3, Zenon DEF CallStates
<1>5. clock <= clock
  BY <1>1
<1> QED
  BY <1>1, <1>2, <1>3, <1>4, <1>5, Zenon DEF CallOK, Still

\* enqueueCronJob: the occurrence is in the queue, and nothing leaves it.
LEMMA CronKept ==
    ASSUME QueueInv, Still, NEW c, CallOK(c), enqueueCronJob(c)
    PROVE  /\ QueueKept
           /\ \E i \in Ids : i.job = "cron" /\ Present(i)'
           /\ \A i \in Ids : Present(i) => Present(i)'
           /\ \A i \in Ids : items'[i] = items[i] \/ (i.job = "cron" /\ i.n = c.n)
<1> DEFINE i == [job |-> "cron", n |-> c.n]
<1>1. MaxAttempts \in Nat \ {0} /\ c.n \in 1 .. MaxClock + 2 /\ "cron" \in jobs
  BY WorkerAssumption, Zenon DEF CallOK
<1>3. i \in Ids /\ i.job = "cron" /\ i.n = c.n /\ i.job \in jobs
  BY <1>1 DEF Ids
<1>4. enqueueItemOnce(i, 0, "future")
  BY Zenon DEF enqueueCronJob
<1> HIDE DEF i
<1>5. CASE Present(i)
  BY <1>3, <1>4, <1>5, QueueStill DEF enqueueItemOnce, queue, Present
<1>6. CASE ~Present(i)
  <2>1. enqueueItem(i, 0, 0, "future")
    BY <1>4, <1>6 DEF enqueueItemOnce
  <2>2. QueueKept
    BY <2>1, <1>1, <1>3, EnqueueKept DEF Waits
  <2> DEFINE k == CHOOSE k \in Unused(i) : TRUE
  <2>3. items' = [items EXCEPT ![i] = [ver |-> 0, att |-> 0, waits |-> "future", key |-> k]]
    BY <2>1, Zenon DEF enqueueItem
  <2> HIDE DEF k
  <2>4. items \in [Ids -> Entries \cup {Absent}]
    BY DEF QueueInv, Types
  <2> QED
    BY <2>2, <2>3, <2>4, <1>3, Zenon DEF Present, Absent
<1> QED
  BY <1>5, <1>6, Zenon

----------------------------------------------------------------------------
(* Sequences.                                                              *)

\* Concatenation.
LEMMA ConcatFacts ==
    ASSUME NEW S, NEW s \in Seq(S), NEW t \in Seq(S)
    PROVE  /\ s \o t \in Seq(S) /\ Len(s \o t) = Len(s) + Len(t)
           /\ \A j \in 1 .. Len(s) + Len(t) : (s \o t)[j] = IF j <= Len(s) THEN s[j] ELSE t[j - Len(s)]
           /\ s \o << >> = s
<1>1. s \o t \in Seq(S) /\ Len(s \o t) = Len(s) + Len(t)
  OBVIOUS
<1>2. \A j \in 1 .. Len(s) + Len(t) : (s \o t)[j] = IF j <= Len(s) THEN s[j] ELSE t[j - Len(s)]
  OBVIOUS
<1>3. s \o << >> = s
  OBVIOUS
<1> QED
  BY <1>1, <1>2, <1>3, Zenon

\* A part of a sequence.
LEMMA SubSeqFacts ==
    ASSUME NEW S, NEW s \in Seq(S), NEW m \in 1 .. Len(s) + 1
    PROVE  /\ SubSeq(s, m, Len(s)) \in Seq(S) /\ Len(SubSeq(s, m, Len(s))) = Len(s) - m + 1
           /\ \A j \in 1 .. Len(s) - m + 1 : SubSeq(s, m, Len(s))[j] = s[m + j - 1]
OBVIOUS

\* Without keeps the other elements.
LEMMA WithoutEffect ==
    ASSUME NEW S, NEW s \in Seq(S), NEW k \in 1 .. Len(s)
    PROVE  /\ Without(s, k) \in Seq(S)
           /\ Len(Without(s, k)) = Len(s) - 1
           /\ \A j \in 1 .. Len(s) - 1 : Without(s, k)[j] = IF j < k THEN s[j] ELSE s[j + 1]
<1> DEFINE a == SubSeq(s, 1, k - 1)
           b == SubSeq(s, k + 1, Len(s))
<1>1. a \in Seq(S) /\ Len(a) = k - 1 /\ \A j \in 1 .. k - 1 : a[j] = s[j]
  OBVIOUS
<1>2. b \in Seq(S) /\ Len(b) = Len(s) - k /\ \A j \in 1 .. Len(s) - k : b[j] = s[k + j]
  OBVIOUS
<1>3. Without(s, k) = a \o b
  BY DEF Without
<1> HIDE DEF a, b
<1>4. /\ a \o b \in Seq(S) /\ Len(a \o b) = Len(s) - 1
      /\ \A j \in 1 .. Len(s) - 1 : (a \o b)[j] = IF j <= k - 1 THEN a[j] ELSE b[j - (k - 1)]
  <2>1. Len(a) + Len(b) = Len(s) - 1
    BY <1>1, <1>2
  <2>2. /\ a \o b \in Seq(S) /\ Len(a \o b) = Len(a) + Len(b)
        /\ \A j \in 1 .. Len(a) + Len(b) : (a \o b)[j] = IF j <= Len(a) THEN a[j] ELSE b[j - Len(a)]
    BY <1>1, <1>2, ConcatFacts, Zenon
  <2> QED
    BY <1>1, <2>1, <2>2, Zenon
<1>5. ASSUME NEW j \in 1 .. Len(s) - 1 PROVE (a \o b)[j] = IF j < k THEN s[j] ELSE s[j + 1]
  <2>1. CASE j < k
    BY <1>1, <1>4, <2>1
  <2>2. CASE ~(j < k)
    <3>1. (a \o b)[j] = b[j - (k - 1)] /\ j - (k - 1) \in 1 .. Len(s) - k
      BY <1>4, <2>2
    <3> QED
      BY <1>2, <2>2, <3>1
  <2> QED
    BY <2>1, <2>2, Zenon
<1> QED
  BY <1>3, <1>4, <1>5, Zenon

----------------------------------------------------------------------------
(* The processes.                                                          *)

ProcsKept ==
    /\ acc' \in [Procs -> AccStates]
    /\ tasks' \in [Procs -> Seq(TaskStates)]
    /\ \A w \in Procs : ProcOK(w)'

\* The deliveries of accumulators and tasks are in hand.
LEMMA AllInHand ==
    ASSUME Types, NEW w \in Procs
    PROVE  /\ \A j \in BatchJobs : \A k \in 1 .. Len(acc[w][j]) : InHand(acc[w][j][k]) /\ acc[w][j][k] \in Deliveries
           /\ \A k \in 1 .. Len(tasks[w]) : \A d \in tasks[w][k].all : InHand(d) /\ d \in Deliveries
<1>1. tasks[w] \in Seq(TaskStates)
  BY Zenon DEF Types
<1> DEFINE has(v) == Accumulated(v) \cup UNION {tasks[v][k].all : k \in DOMAIN tasks[v]}
<1>2. \A d \in has(w) : InHand(d)
  BY DEF InHand, Held
<1>3. ASSUME NEW j \in BatchJobs, NEW k \in 1 .. Len(acc[w][j])
      PROVE  acc[w][j][k] \in has(w) /\ acc[w][j][k] \in Deliveries
  <2>1. PICK s : s = acc[w][j]
    BY Zenon
  <2>2. s \in Seq(Deliveries)
    BY <2>1, Zenon DEF Types, AccStates
  <2>3. s[k] \in Deliveries /\ k \in DOMAIN s
    BY <1>3, <2>1, <2>2
  <2>4. s[k] \in Range(acc[w][j])
    BY <2>1, <2>3, Zenon DEF Range
  <2> QED
    BY <2>1, <2>3, <2>4, Zenon DEF Accumulated
<1>4. ASSUME NEW k \in 1 .. Len(tasks[w]), NEW d \in tasks[w][k].all PROVE d \in has(w) /\ d \in Deliveries
  <2>1. k \in DOMAIN tasks[w] /\ tasks[w][k] \in TaskStates
    BY <1>1
  <2> QED
    BY <2>1 DEF TaskStates
<1> HIDE DEF has
<1> QED
  BY <1>2, <1>3, <1>4, Zenon

\* A task that is left alone.
LEMMA TaskStays ==
    ASSUME Types, QueueKept, Still, NEW t \in TaskStates, TaskOK(t), \A d \in t.all : InHand(d)
    PROVE  TaskOK(t)'
<1>1. CallOK(t.call) => CallOK(t.call)'
  BY Zenon DEF CallOK, Still
<1> QED
  BY <1>1, Zenon DEF QueueKept, Still, TaskStates, TaskOK

\* The accumulators and the tasks of a process after a step.
LEMMA ProcBecomes ==
    ASSUME NEW w \in Procs, NEW a, NEW q, acc'[w] = a, tasks'[w] = q,
           AccOK(a)', \A k \in 1 .. Len(q) : TaskOK(q[k])', RoomFor(Len(q), a)'
    PROVE  ProcOK(w)'
BY Zenon DEF ProcOK, AccOK, RoomFor, Filled

\* The bound on the limiter depends on the catalog alone.
LEMMA RoomStays ==
    ASSUME Still, NEW n, NEW a
    PROVE  RoomFor(n, a)' <=> RoomFor(n, a)
BY Zenon DEF Still, RoomFor, Filled, catalog

\* What a process held is as good after a step on the queue.
LEMMA HeldStays ==
    ASSUME Types, QueueKept, Still, NEW w \in Procs, ProcOK(w)
    PROVE  /\ \A a : a = acc[w] => AccOK(a)'
           /\ \A k \in 1 .. Len(tasks[w]) : \A t : t = tasks[w][k] => t \in TaskStates /\ TaskOK(t)'
<1>1. ASSUME NEW a, a = acc[w], NEW j \in BatchJobs, NEW k \in 1 .. Len(a[j])
      PROVE  DeliveryOK(a[j][k])' /\ a[j][k].id.job = j
  <2>1. PICK d : d = a[j][k]
    BY Zenon
  <2>2. d \in Deliveries /\ InHand(d) /\ DeliveryOK(d) /\ d.id.job = j
    BY <1>1, <2>1, AllInHand, Zenon DEF ProcOK, AccOK
  <2>3. DeliveryOK(d)'
    BY <2>2, Zenon DEF QueueKept
  <2> QED
    BY <2>1, <2>2, <2>3, Zenon
<1>2. ASSUME NEW a, a = acc[w] PROVE AccOK(a)'
  BY <1>1, <1>2, Zenon DEF ProcOK, AccOK
<1>3. ASSUME NEW k \in 1 .. Len(tasks[w]), NEW t, t = tasks[w][k] PROVE t \in TaskStates /\ TaskOK(t)'
  <2>1. t \in TaskStates
    BY <1>3 DEF Types
  <2>2. TaskOK(t) /\ \A d \in t.all : InHand(d)
    BY <1>3, AllInHand, Zenon DEF ProcOK
  <2> QED
    BY <2>1, <2>2, TaskStays, Zenon
<1> QED
  BY <1>2, <1>3, Zenon

\* A process that is left alone.
LEMMA ProcStays ==
    ASSUME Types, QueueKept, Still, NEW w \in Procs, ProcOK(w), acc'[w] = acc[w], tasks'[w] = tasks[w]
    PROVE  ProcOK(w)'
<1>1. PICK a, q : a = acc[w] /\ q = tasks[w]
  BY Zenon
<1>2. acc'[w] = a /\ tasks'[w] = q /\ AccOK(a)'
  BY <1>1, HeldStays, Zenon
<1>3. \A k \in 1 .. Len(q) : TaskOK(q[k])'
  BY <1>1, HeldStays, Zenon
<1>4. RoomFor(Len(q), a)'
  BY <1>1, RoomStays, Zenon DEF ProcOK
<1> QED
  BY <1>2, <1>3, <1>4, ProcBecomes, Zenon

\* Fewer tasks leave as much room.
LEMMA RoomGrows ==
    ASSUME Types, NEW w \in Procs, ProcOK(w), NEW m \in Nat, m <= Len(tasks[w])
    PROVE  RoomFor(m, acc[w])
<1>1. Len(tasks[w]) \in Nat
  BY DEF Types
<1>2. IsFiniteSet(BatchJobs) /\ Filled(acc[w]) \in SUBSET BatchJobs /\ catalog \cap BatchJobs \in SUBSET BatchJobs
  BY WorkerAssumption, Zenon DEF Filled
<1>3. Cardinality(Filled(acc[w])) \in Nat /\ Cardinality(catalog \cap BatchJobs) \in Nat /\ Limit \in Nat
  BY <1>2, FS_Subset, FS_CardinalityType, WorkerAssumption
<1>4. Len(tasks[w]) + Cardinality(Filled(acc[w])) <= Limit + Cardinality(catalog \cap BatchJobs)
  BY Zenon DEF ProcOK, RoomFor
<1>5. m + Cardinality(Filled(acc[w])) <= Limit + Cardinality(catalog \cap BatchJobs)
  BY <1>1, <1>3, <1>4
<1> QED
  BY <1>5, Zenon DEF RoomFor

\* Only one process's limiter changes, and holds no more tasks.
LEMMA TasksMove ==
    ASSUME Types, QueueKept, Still, \A v \in Procs : ProcOK(v), NEW w \in Procs, NEW q \in Seq(TaskStates),
           acc' = acc, tasks' = [tasks EXCEPT ![w] = q], Len(q) <= Len(tasks[w]),
           \A k \in 1 .. Len(q) : TaskOK(q[k])'
    PROVE  ProcsKept
<1>1. acc \in [Procs -> AccStates] /\ tasks \in [Procs -> Seq(TaskStates)]
  BY Zenon DEF Types
<1>2. tasks' \in [Procs -> Seq(TaskStates)] /\ tasks'[w] = q /\ \A v \in Procs : v # w => tasks'[v] = tasks[v]
  BY <1>1
<1>3. ASSUME NEW v \in Procs, v # w PROVE ProcOK(v)'
  BY <1>2, <1>3, ProcStays
<1>4. ProcOK(w)'
  <2>1. PICK a : a = acc[w]
    BY Zenon
  <2>2. acc'[w] = a /\ AccOK(a)'
    BY <2>1, HeldStays, Zenon
  <2>3. Len(q) \in Nat
    OBVIOUS
  <2>4. RoomFor(Len(q), a)'
    BY <2>1, <2>3, RoomGrows, RoomStays, Zenon
  <2> QED
    BY <2>2, <2>4, <1>2, ProcBecomes, Zenon
<1> QED
  BY <1>1, <1>2, <1>3, <1>4, Zenon DEF ProcsKept

\* A task's next stage.
LEMMA GotoKept ==
    ASSUME Types, QueueKept, Still, \A v \in Procs : ProcOK(v), NEW w \in Procs, NEW k \in 1 .. Len(tasks[w]),
           NEW at \in Stages, NEW todo, todo \subseteq tasks[w][k].all, todo # {},
           at = "ack" => \A d \in tasks[w][k].all : Payload(d.id, d) \in handled',
           NEW call \in CallStates,
           at \in {"cron", "dead"} => CallOK(call)' /\ \A d \in tasks[w][k].all : d.id.job = "cron",
           acc' = acc, Goto(w, k, at, todo, call)
    PROVE  ProcsKept
<1>1. tasks \in [Procs -> Seq(TaskStates)] /\ tasks[w] \in Seq(TaskStates)
  BY DEF Types
<1>2. PICK t : t = [at |-> at, all |-> tasks[w][k].all, todo |-> todo, call |-> call]
  BY Zenon
<1>3. PICK q : q = [tasks[w] EXCEPT ![k] = t]
  BY Zenon
<1>4. tasks' = [tasks EXCEPT ![w] = q]
  BY <1>1, <1>2, <1>3, Zenon DEF Goto
<1>5. q \in Seq(TaskStates) /\ Len(q) = Len(tasks[w]) /\ Len(q) <= Len(tasks[w])
  <2>1. tasks[w][k] \in TaskStates
    BY <1>1
  <2>2. tasks[w][k].all \subseteq Deliveries
    BY <2>1 DEF TaskStates
  <2>3. t \in TaskStates
    BY <1>2, <2>2 DEF TaskStates
  <2> QED
    BY <1>1, <1>3, <2>3
<1>6. t.at = at /\ t.todo = todo /\ t.all = tasks[w][k].all /\ t.call = call
  BY <1>2, Zenon
<1>7. PICK u : u = tasks[w][k]
  BY Zenon
<1>8. u \in TaskStates /\ TaskOK(u)'
  BY <1>7, HeldStays, Zenon
<1>9. TaskOK(t)'
  BY <1>6, <1>7, <1>8 DEF TaskOK
<1>10. ASSUME NEW j \in 1 .. Len(q) PROVE TaskOK(q[j])'
  <2>1. CASE j = k
    <3>1. q[j] = t
      BY <1>1, <1>3, <2>1
    <3> QED
      BY <1>9, <3>1
  <2>2. CASE j # k
    <3>1. q[j] = tasks[w][j] /\ j \in 1 .. Len(tasks[w])
      BY <1>1, <1>3, <1>5, <2>2
    <3> QED
      BY <3>1, HeldStays
  <2> QED
    BY <2>1, <2>2
<1> QED
  BY <1>4, <1>5, <1>10, TasksMove, Zenon

\* The end of a task.
LEMMA FinishKept ==
    ASSUME Types, QueueKept, Still, \A v \in Procs : ProcOK(v), NEW w \in Procs, NEW k \in 1 .. Len(tasks[w]),
           acc' = acc, Finish(w, k)
    PROVE  ProcsKept
<1>1. tasks \in [Procs -> Seq(TaskStates)] /\ tasks[w] \in Seq(TaskStates) /\ Len(tasks[w]) \in Nat
  BY DEF Types
<1>2. PICK q : q = Without(tasks[w], k)
  BY Zenon
<1>3. /\ q \in Seq(TaskStates) /\ Len(q) = Len(tasks[w]) - 1
      /\ \A j \in 1 .. Len(tasks[w]) - 1 : q[j] = IF j < k THEN tasks[w][j] ELSE tasks[w][j + 1]
  BY <1>1, <1>2, WithoutEffect, Zenon
<1>4. tasks' = [tasks EXCEPT ![w] = q]
  BY <1>2 DEF Finish
<1>5. ASSUME NEW j \in 1 .. Len(q) PROVE TaskOK(q[j])'
  <2>1. PICK i \in 1 .. Len(tasks[w]) : q[j] = tasks[w][i]
    <3>1. CASE j < k
      BY <1>1, <1>3, <3>1
    <3>2. CASE ~(j < k)
      <4>1. j + 1 \in 1 .. Len(tasks[w]) /\ q[j] = tasks[w][j + 1]
        BY <1>1, <1>3, <3>2
      <4> QED
        BY <4>1
    <3> QED
      BY <3>1, <3>2, Zenon
  <2> QED
    BY <2>1, HeldStays, Zenon
<1>6. Len(q) <= Len(tasks[w])
  BY <1>1, <1>3
<1> QED
  BY <1>3, <1>4, <1>5, <1>6, TasksMove, Zenon

\* The rest of a stage, the next stage or the end of the task.
LEMMA DoneKept ==
    ASSUME Types, QueueKept, Still, \A v \in Procs : ProcOK(v), NEW w \in Procs, NEW k \in 1 .. Len(tasks[w]),
           tasks[w][k].at \in {"ack", "fail"},
           NEW d \in tasks[w][k].todo, NEW next \in {"end", "cron", "dead"},
           next # "end" => d.id.job = "cron", acc' = acc, Done(w, k, d, next)
    PROVE  ProcsKept
<1>1. PICK t : t = tasks[w][k]
  BY Zenon
<1>2. t \in TaskStates /\ TaskOK(t) /\ t.at \in Stages /\ d \in t.all /\ d \in Deliveries
  <2>1. t \in TaskStates
    BY <1>1 DEF Types
  <2>2. TaskOK(t)
    BY <1>1, Zenon DEF ProcOK
  <2> QED
    BY <1>1, <2>1, <2>2, Zenon DEF TaskStates, TaskOK
<1>3. next # "end" => \A e \in t.all : e.id.job = "cron"
  <2>1. "cron" \notin BatchJobs
    BY WorkerAssumption
  <2> QED
    BY <1>2, <2>1, Zenon DEF TaskOK
<1>4. CASE t.todo \ {d} # {} /\ Goto(w, k, t.at, t.todo \ {d}, NoCall)
  <2>1. t.at = "ack" => \A e \in t.all : Payload(e.id, e) \in handled'
    BY <1>2 DEF TaskOK, Still
  <2>2. t.todo \ {d} \subseteq t.all /\ t.at \notin {"cron", "dead"}
    BY <1>1, <1>2, Zenon DEF TaskOK
  <2>3. NoCall \in CallStates
    BY DEF NoCall, CallStates
  <2> QED
    BY <1>1, <1>2, <1>4, <2>1, <2>2, <2>3, GotoKept, Zenon
<1>5. CASE Finish(w, k)
  BY <1>5, FinishKept
<1>6. CASE next # "end" /\ Goto(w, k, next, t.all, cronCall(d.id.n))
  <2>1. next \in Stages /\ next # "ack" /\ t.all # {} /\ t.all \subseteq t.all
    BY <1>2, <1>6 DEF Stages
  <2>2. (next = "ack" => \A e \in t.all : Payload(e.id, e) \in handled')
    BY <2>1, Zenon
  <2>3. next \in {"cron", "dead"} => \A e \in t.all : e.id.job = "cron"
    BY <1>3, <1>6, Zenon
  <2>4. PICK c : c = cronCall(d.id.n)
    BY Zenon
  <2>5. DeliveryOK(d) /\ d.id.job = "cron" /\ d.id \in Ids
    BY <1>2, <1>6, Zenon DEF TaskOK, Deliveries
  <2>6. "cron" \in jobs /\ d.id.n <= Now /\ d.id.n \in Nat
    BY <2>5, IdNumber, Zenon DEF DeliveryOK, Passed, catalog
  <2>7. c \in CallStates /\ CallOK(c)'
    BY <2>4, <2>6, CronCall, Zenon
  <2> QED
    BY <1>1, <1>6, <2>1, <2>2, <2>3, <2>4, <2>7, GotoKept, Zenon
<1> QED
  BY <1>1, <1>4, <1>5, <1>6, Zenon DEF Done

----------------------------------------------------------------------------
(* The cron chain.                                                         *)

CronQueued == \E i \in Ids : i.job = "cron" /\ Present(i)

HasCron(q) == \E k \in 1 .. Len(q) : \E d \in q[k].all : d.id.job = "cron"

CronInTask == \E w \in Procs : HasCron(tasks[w])

\* A change of stage keeps the deliveries of every task.
LEMMA GotoCron ==
    ASSUME Types, NEW w \in Procs, NEW k \in 1 .. Len(tasks[w]), NEW at, NEW todo, NEW call, Goto(w, k, at, todo, call)
    PROVE  /\ CronInTask => CronInTask'
           /\ (\E d \in tasks[w][k].all : d.id.job = "cron") => CronInTask'
<1>1. tasks \in [Procs -> Seq(TaskStates)] /\ tasks[w] \in Seq(TaskStates)
  BY DEF Types
<1>2. tasks'[w] = [tasks[w] EXCEPT ![k] = [at |-> at, all |-> tasks[w][k].all, todo |-> todo, call |-> call]]
  BY <1>1 DEF Goto
<1>3. \A v \in Procs : v # w => tasks'[v] = tasks[v]
  BY <1>1 DEF Goto
<1>4. Len(tasks'[w]) = Len(tasks[w]) /\ \A j \in 1 .. Len(tasks[w]) : tasks'[w][j].all = tasks[w][j].all
  BY <1>1, <1>2
<1> QED
  BY <1>3, <1>4 DEF CronInTask, HasCron

\* The end of a task that is not of a cron job.
LEMMA FinishCron ==
    ASSUME Types, NEW w \in Procs, NEW k \in 1 .. Len(tasks[w]), Finish(w, k),
           \A d \in tasks[w][k].all : d.id.job # "cron"
    PROVE  CronInTask => CronInTask'
<1>1. tasks \in [Procs -> Seq(TaskStates)] /\ tasks[w] \in Seq(TaskStates) /\ Len(tasks[w]) \in Nat
  BY DEF Types
<1>2. tasks'[w] = Without(tasks[w], k) /\ \A v \in Procs : v # w => tasks'[v] = tasks[v]
  BY <1>1, Zenon DEF Finish
<1>3. /\ Len(tasks'[w]) = Len(tasks[w]) - 1
      /\ \A j \in 1 .. Len(tasks[w]) - 1 : tasks'[w][j] = IF j < k THEN tasks[w][j] ELSE tasks[w][j + 1]
  BY <1>1, <1>2, WithoutEffect
<1>4. ASSUME HasCron(tasks[w]) PROVE HasCron(tasks'[w])
  <2>1. PICK j \in 1 .. Len(tasks[w]) : \E d \in tasks[w][j].all : d.id.job = "cron"
    BY <1>4 DEF HasCron
  <2>2. j # k
    BY <2>1, Zenon
  <2>3. PICK i \in 1 .. Len(tasks[w]) - 1 : tasks'[w][i] = tasks[w][j]
    <3>1. CASE j < k
      <4>1. j \in 1 .. Len(tasks[w]) - 1 /\ tasks'[w][j] = tasks[w][j]
        BY <1>1, <1>3, <3>1
      <4> QED
        BY <4>1
    <3>2. CASE j > k
      <4>1. j - 1 \in 1 .. Len(tasks[w]) - 1 /\ tasks'[w][j - 1] = tasks[w][j]
        BY <1>1, <1>3, <3>2
      <4> QED
        BY <4>1, Zenon
    <3>3. j \in Int /\ k \in Int
      BY <1>1
    <3>4. j < k \/ j > k
      BY <2>2, <3>3
    <3> QED
      BY <3>1, <3>2, <3>4, Zenon
  <2> QED
    BY <1>3, <2>1, <2>3, Zenon DEF HasCron
<1> QED
  BY <1>2, <1>4, Zenon DEF CronInTask

\* A stage of a task goes on: with a cron delivery the task does too, unless it
\* ends there.
LEMMA DoneCron ==
    ASSUME Types, NEW w \in Procs, NEW k \in 1 .. Len(tasks[w]), TaskOK(tasks[w][k]),
           NEW d \in tasks[w][k].todo, NEW next, Done(w, k, d, next)
    PROVE  /\ d.id.job # "cron" => (CronInTask => CronInTask')
           /\ d.id.job = "cron" /\ next # "end" => CronInTask'
<1>1. PICK t : t = tasks[w][k] /\ TaskOK(t)
  BY Zenon
<1>0. "cron" \notin BatchJobs
  BY WorkerAssumption
<1>2. d \in t.all /\ (d.id.job # "cron" => \A e \in t.all : e.id.job # "cron")
  BY <1>0, <1>1, Zenon DEF TaskOK
<1>3. d.id.job = "cron" => t.todo \ {d} = {}
  BY <1>0, <1>1, <1>2, Zenon DEF TaskOK
<1>4. CASE t.todo \ {d} # {} /\ Goto(w, k, t.at, t.todo \ {d}, NoCall)
  BY <1>1, <1>2, <1>3, <1>4, GotoCron, Zenon
<1>5. CASE next = "end" /\ Finish(w, k)
  BY <1>1, <1>2, <1>5, FinishCron
<1>6. CASE Goto(w, k, next, t.all, cronCall(d.id.n))
  BY <1>1, <1>2, <1>6, GotoCron, Zenon
<1> QED
  BY <1>1, <1>4, <1>5, <1>6, Zenon DEF Done

----------------------------------------------------------------------------
(* The worker loop.                                                        *)

\* What a poll takes fits the limiter.
LEMMA PollCount ==
    ASSUME Types, NEW w \in Procs, NEW ids \in Dequeues(taskCount(w))
    PROVE  /\ ids \in SUBSET Ready /\ IsFiniteSet(ids)
           /\ Cardinality(ids) \in Nat /\ Len(tasks[w]) + Cardinality(ids) <= Limit
<1>1. ids \in SUBSET Ready /\ IsFiniteSet(ids) /\ (Cardinality(ids) = taskCount(w) \/ Cardinality(ids) < taskCount(w))
  BY Zenon DEF Dequeues
<1>2. Cardinality(ids) \in Nat
  BY <1>1, FS_CardinalityType, Zenon
<1>3. Len(tasks[w]) \in Nat /\ Limit \in Nat /\ BatchSize \in Nat /\ TasksPerWorker \in Nat
  BY WorkerAssumption DEF Types
<1>4. PICK m \in Nat : m = maxDequeueCount
  BY <1>3, Zenon DEF maxDequeueCount
<1>5. taskCount(w) = IF m <= Limit - Len(tasks[w]) THEN m ELSE Limit - Len(tasks[w])
  BY <1>4, Zenon DEF taskCount
<1>6. Len(tasks[w]) + Cardinality(ids) <= Limit
  BY <1>1, <1>2, <1>3, <1>5
<1> QED
  BY <1>1, <1>2, <1>6, Zenon

\* A finite set as a list.
LEMMA ListedFacts ==
    ASSUME NEW S, IsFiniteSet(S), NEW s, s = Listed(S)
    PROVE  s \in Seq(S) /\ Len(s) = Cardinality(S) /\ Cardinality(S) \in Nat
<1>1. Cardinality(S) \in Nat /\ Bijection(1 .. Cardinality(S), S) # {}
  BY FS_CardinalityType, Zenon DEF ExistsBijection
<1>2. Injection(1 .. Cardinality(S), S) # {}
  BY <1>1, Zenon DEF Bijection
<1>3. s \in Injection(1 .. Cardinality(S), S)
  BY <1>2, Zenon DEF Listed
<1>4. s \in [1 .. Cardinality(S) -> S]
  BY <1>3, Zenon DEF Injection
<1> QED
  BY <1>1, <1>4

\* What dequeueItems hands out, once the items are hidden.
LEMMA Dequeued ==
    ASSUME QueueInv, Still, NEW ids \in SUBSET Ready, dequeue(ids)
    PROVE  /\ QueueKept
           /\ \A i \in Ids : Present(i)' <=> Present(i)
           /\ \A i \in Known(ids) : \A d : d = Delivery(i, items[i]) => d \in Deliveries /\ DeliveryOK(d)' /\ d.id = i
<1>1. items \in [Ids -> Entries \cup {Absent}] /\ ids \subseteq Ids
  BY DEF QueueInv, Types, Ready
<1>2. ASSUME NEW i \in ids PROVE items[i] \in Entries /\ i.job \in jobs /\ Passed(i)
  BY <1>1 DEF QueueInv, IdOK, Ready, Present
<1>3. items' = [i \in Ids |-> IF i \in ids THEN [items[i] EXCEPT !.waits = "hidden"] ELSE items[i]]
  BY DEF dequeue
<1>4. items' = [i \in Ids |-> items'[i]]
  BY <1>3
<1>5. ASSUME NEW i \in Ids PROVE Rescored(i)
  <2>1. CASE i \in ids
    <3>1. items'[i] = [items[i] EXCEPT !.waits = "hidden"] /\ Present(i) /\ Passed(i) /\ "hidden" \in Waits
      BY <1>2, <1>3, <2>1 DEF Ready, Waits
    <3> QED
      BY <3>1 DEF Rescored
  <2>2. CASE i \notin ids
    BY <1>3, <2>2 DEF Rescored
  <2> QED
    BY <2>1, <2>2
<1>6. QueueKept
  BY <1>4, <1>5, RescoreKept DEF dequeue
<1>7. ASSUME NEW i \in Ids PROVE Present(i)' <=> Present(i)
  BY <1>1, <1>2, <1>3 DEF Present, Absent, Ready
<1>8. ASSUME NEW i \in Known(ids), NEW d, d = Delivery(i, items[i])
      PROVE  d \in Deliveries /\ DeliveryOK(d)' /\ d.id = i
  <2>0. i \in ids /\ i.job \in catalog
    BY <1>8, Zenon DEF Known
  <2>1. d.id = i /\ d.ver = items[i].ver /\ d.att = items[i].att /\ d.key = items[i].key /\ i \in Ids
    BY <1>1, <1>8, <2>0 DEF Delivery
  <2>2. d \in Deliveries
    BY <1>2, <1>8, <1>1, <2>0 DEF Delivery, Deliveries, Entries
  <2>3. /\ items'[i].key = items[i].key /\ items'[i].ver = items[i].ver
        /\ Present(i) /\ (dlq[i] # Absent => items[i].key # dlq[i].key)
    BY <1>1, <1>2, <1>3, <2>0 DEF Entries, QueueInv, IdOK, Ready
  <2>4. Passed(i)' /\ catalog' = catalog /\ dlq' = dlq
    BY <1>2, <2>0 DEF Passed, Now, Still, dequeue, catalog
  <2> QED
    BY <2>0, <2>1, <2>2, <2>3, <2>4, Zenon DEF DeliveryOK, Present
<1> QED
  BY <1>6, <1>7, <1>8

\* One process's accumulators and limiter change, and its tasks stay.
LEMMA ProcGrows ==
    ASSUME Types, QueueKept, Still, \A v \in Procs : ProcOK(v), NEW w \in Procs,
           NEW a \in AccStates, NEW q \in Seq(TaskStates),
           acc' = [acc EXCEPT ![w] = a], tasks' = [tasks EXCEPT ![w] = tasks[w] \o q],
           AccOK(a)', \A k \in 1 .. Len(q) : TaskOK(q[k])', RoomFor(Len(tasks[w]) + Len(q), a)
    PROVE  ProcsKept /\ (CronInTask => CronInTask')
<1>1. acc \in [Procs -> AccStates] /\ tasks \in [Procs -> Seq(TaskStates)] /\ tasks[w] \in Seq(TaskStates)
  BY Zenon DEF Types
<1>2. PICK p : p = tasks[w] \o q
  BY Zenon
<1>3. /\ p \in Seq(TaskStates) /\ Len(p) = Len(tasks[w]) + Len(q)
      /\ \A k \in 1 .. Len(tasks[w]) + Len(q) : p[k] = IF k <= Len(tasks[w]) THEN tasks[w][k] ELSE q[k - Len(tasks[w])]
  BY <1>1, <1>2, ConcatFacts, Zenon
<1>4. acc'[w] = a /\ tasks'[w] = p /\ \A v \in Procs : v # w => acc'[v] = acc[v] /\ tasks'[v] = tasks[v]
  BY <1>1, <1>2, Zenon
<1>5. acc' \in [Procs -> AccStates] /\ tasks' \in [Procs -> Seq(TaskStates)]
  BY <1>1, <1>2, <1>3, Zenon
<1>6. ASSUME NEW k \in 1 .. Len(p) PROVE TaskOK(p[k])'
  <2>1. CASE k <= Len(tasks[w])
    <3>1. p[k] = tasks[w][k] /\ k \in 1 .. Len(tasks[w])
      BY <1>1, <1>3, <2>1
    <3> QED
      BY <3>1, HeldStays, Zenon
  <2>2. CASE ~(k <= Len(tasks[w]))
    <3>1. p[k] = q[k - Len(tasks[w])] /\ k - Len(tasks[w]) \in 1 .. Len(q)
      BY <1>1, <1>3, <2>2
    <3>2. PICK j \in 1 .. Len(q) : p[k] = q[j]
      BY <3>1, Zenon
    <3> QED
      BY <3>2, Zenon
  <2> QED
    BY <2>1, <2>2, Zenon
<1>7. ProcOK(w)'
  <2>1. RoomFor(Len(p), a)'
    BY <1>3, RoomStays, Zenon
  <2> QED
    BY <1>4, <1>6, <2>1, ProcBecomes, Zenon
<1>8. ASSUME NEW v \in Procs, v # w PROVE ProcOK(v)'
  BY <1>4, <1>8, ProcStays, Zenon
<1>9. HasCron(tasks[w]) => HasCron(p)
  <2>1. Len(tasks[w]) \in Nat /\ Len(q) \in Nat
    BY <1>1
  <2>2. \A k \in 1 .. Len(tasks[w]) : k \in 1 .. Len(p) /\ p[k] = tasks[w][k]
    BY <1>3, <2>1
  <2> QED
    BY <2>2, Zenon DEF HasCron
<1>10. CronInTask => CronInTask'
  <2>1. \A v \in Procs : HasCron(tasks[v]) => HasCron(tasks'[v])
    BY <1>4, <1>9, Zenon
  <2> QED
    BY <2>1, Zenon DEF CronInTask
<1> QED
  BY <1>5, <1>7, <1>8, <1>10, Zenon DEF ProcsKept

\* Accumulators hold items of the catalog's jobs: there is room for a limiter
\* within its limit.
LEMMA RoomWithin ==
    ASSUME Still, NEW a \in AccStates, AccOK(a)', NEW n \in Nat, n <= Limit
    PROVE  RoomFor(n, a)
<1>1. ASSUME NEW j \in Filled(a) PROVE j \in catalog \cap BatchJobs
  <2>1. j \in BatchJobs /\ a[j] # << >> /\ a[j] \in Seq(Deliveries)
    BY Zenon DEF Filled, AccStates
  <2>2. PICK s \in Seq(Deliveries) : s = a[j] /\ s # << >>
    BY <2>1, Zenon
  <2>3. 1 \in 1 .. Len(s)
    BY <2>2
  <2>4. DeliveryOK(a[j][1])' /\ a[j][1].id.job = j
    BY <2>1, <2>2, <2>3, Zenon DEF AccOK
  <2>5. a[j][1].id.job \in catalog'
    BY <2>4, Zenon DEF DeliveryOK
  <2> QED
    BY <2>1, <2>4, <2>5, Zenon DEF Still, catalog
<1>2. IsFiniteSet(catalog \cap BatchJobs) /\ Filled(a) \in SUBSET (catalog \cap BatchJobs)
  <2>1. catalog \cap BatchJobs \in SUBSET BatchJobs /\ IsFiniteSet(BatchJobs)
    BY WorkerAssumption, Zenon
  <2> QED
    BY <1>1, <2>1, FS_Subset, Zenon
<1>3. IsFiniteSet(Filled(a)) /\ Cardinality(Filled(a)) <= Cardinality(catalog \cap BatchJobs)
  BY <1>2, FS_Subset, Zenon
<1>4. Cardinality(Filled(a)) \in Nat /\ Cardinality(catalog \cap BatchJobs) \in Nat /\ Limit \in Nat
  BY <1>2, <1>3, FS_CardinalityType, WorkerAssumption, Zenon
<1>5. n + Cardinality(Filled(a)) <= Limit + Cardinality(catalog \cap BatchJobs)
  BY <1>3, <1>4
<1> QED
  BY <1>5, Zenon DEF RoomFor

\* A task of fresh deliveries: one item, or some of a batch.
LEMMA NewTask ==
    ASSUME NEW D \in SUBSET Deliveries, D # {}, \A d \in D : DeliveryOK(d)',
           (\A d \in D : d.id.job \in BatchJobs) \/ (\E d : D = {d})
    PROVE  \A t : t = Task(D) => t \in TaskStates /\ TaskOK(t)'
<1> SUFFICES ASSUME NEW t, t = Task(D) PROVE t \in TaskStates /\ TaskOK(t)'
  OBVIOUS
<1>1. t.at = "run" /\ t.all = D /\ t.todo = D /\ t \in TaskStates
  BY DEF Task, TaskStates, Stages, NoCall, CallStates
<1> QED
  BY <1>1, Zenon DEF TaskOK

\* The deliveries of a poll.
LEMMA ReceivedFacts ==
    ASSUME QueueInv, Still, NEW ids \in SUBSET Ready, dequeue(ids), NEW s \in Seq(Known(ids)), NEW r, r = Received(s)
    PROVE  /\ r \in Seq(Deliveries) /\ Len(r) = Len(s)
           /\ \A k \in 1 .. Len(r) : DeliveryOK(r[k])' /\ r[k].id = s[k]
<1>1. Len(s) \in Nat /\ DOMAIN s = 1 .. Len(s) /\ \A k \in 1 .. Len(s) : s[k] \in Known(ids)
  OBVIOUS
<1>2. r = [k \in 1 .. Len(s) |-> Delivery(s[k], items[s[k]])]
  BY <1>1, Zenon DEF Received
<1>3. ASSUME NEW k \in 1 .. Len(s)
      PROVE  r[k] \in Deliveries /\ DeliveryOK(r[k])' /\ r[k].id = s[k]
  <2>1. PICK i, d : i \in Known(ids) /\ i = s[k] /\ d = r[k]
    BY <1>1, Zenon
  <2>2. d = Delivery(i, items[i])
    BY <1>2, <2>1, Zenon
  <2>3. d \in Deliveries /\ DeliveryOK(d)' /\ d.id = i
    BY <2>1, <2>2, Dequeued, Zenon
  <2> QED
    BY <2>1, <2>3, Zenon
<1>4. r \in [1 .. Len(s) -> Deliveries]
  BY <1>2, <1>3, Zenon
<1>5. r \in Seq(Deliveries) /\ Len(r) = Len(s)
  BY <1>1, <1>4
<1> QED
  BY <1>3, <1>5, Zenon

\* Deliveries of a batch job.
BatchOf(j, s) == s \in Seq(Deliveries) /\ \A k \in 1 .. Len(s) : DeliveryOK(s[k]) /\ s[k].id.job = j

\* A full accumulator: what is left of it.
LEMMA BatchRest ==
    ASSUME NEW j \in BatchJobs, NEW batch, BatchOf(j, batch)', Len(batch) >= BatchSize,
           NEW tail, tail = SubSeq(batch, BatchSize + 1, Len(batch))
    PROVE  BatchOf(j, tail)' /\ Len(tail) = Len(batch) - BatchSize
<1>0. batch \in Seq(Deliveries) /\ \A k \in 1 .. Len(batch) : DeliveryOK(batch[k])' /\ batch[k].id.job = j
  BY Zenon DEF BatchOf
<1>1. BatchSize \in Nat \ {0} /\ Len(batch) \in Nat
  BY <1>0, WorkerAssumption
<1>2. /\ tail \in Seq(Deliveries) /\ Len(tail) = Len(batch) - BatchSize
      /\ \A k \in 1 .. Len(tail) : tail[k] = batch[BatchSize + k]
  <2>1. PICK m \in 1 .. Len(batch) + 1 : m = BatchSize + 1
    BY <1>0, <1>1
  <2>2. tail = SubSeq(batch, m, Len(batch))
    BY <2>1, Zenon
  <2>3. /\ tail \in Seq(Deliveries) /\ Len(tail) = Len(batch) - m + 1
        /\ \A k \in 1 .. Len(batch) - m + 1 : tail[k] = batch[m + k - 1]
    BY <1>0, <2>2, SubSeqFacts, Zenon
  <2>4. Len(tail) = Len(batch) - BatchSize
    BY <1>1, <2>1, <2>3
  <2>5. ASSUME NEW k \in 1 .. Len(tail) PROVE tail[k] = batch[BatchSize + k]
    <3>1. k \in 1 .. Len(batch) - m + 1 /\ m + k - 1 = BatchSize + k
      BY <1>1, <2>1, <2>4
    <3> QED
      BY <2>3, <3>1, Zenon
  <2> QED
    BY <2>3, <2>4, <2>5, Zenon
<1>3. ASSUME NEW k \in 1 .. Len(tail) PROVE DeliveryOK(tail[k])' /\ tail[k].id.job = j
  <2>1. BatchSize + k \in 1 .. Len(batch)
    BY <1>1, <1>2
  <2>2. PICK m \in 1 .. Len(batch) : tail[k] = batch[m]
    BY <1>2, <2>1
  <2> QED
    BY <1>0, <2>2, Zenon
<1> QED
  BY <1>2, <1>3, Zenon DEF BatchOf

\* A full accumulator: what is flushed, the deliveries of a new task.
LEMMA BatchTask ==
    ASSUME NEW j \in BatchJobs, NEW batch, BatchOf(j, batch)', Len(batch) >= BatchSize,
           NEW t, t = Task(Range(SubSeq(batch, 1, BatchSize)))
    PROVE  t \in TaskStates /\ TaskOK(t)'
<1>0. batch \in Seq(Deliveries) /\ \A k \in 1 .. Len(batch) : DeliveryOK(batch[k])' /\ batch[k].id.job = j
  BY Zenon DEF BatchOf
<1>1. BatchSize \in Nat \ {0} /\ Len(batch) \in Nat
  BY <1>0, WorkerAssumption
<1>2. PICK D : D = Range(SubSeq(batch, 1, BatchSize))
  BY Zenon
<1>3. PICK head : head = SubSeq(batch, 1, BatchSize)
  BY Zenon
<1>4. head \in Seq(Deliveries) /\ Len(head) = BatchSize /\ \A k \in 1 .. BatchSize : head[k] = batch[k]
  BY <1>0, <1>1, <1>3
<1>5. D = {head[k] : k \in 1 .. BatchSize}
  <2>1. DOMAIN head = 1 .. BatchSize
    BY <1>1, <1>4
  <2> QED
    BY <1>2, <1>3, <2>1, Zenon DEF Range
<1>6. \A k \in 1 .. BatchSize : k \in 1 .. Len(batch)
  BY <1>1
<1>7. \A d \in D : \E k \in 1 .. Len(batch) : d = batch[k]
  BY <1>4, <1>5, <1>6, Zenon
<1>8. D # {} /\ D \subseteq Deliveries
  <2>1. 1 \in 1 .. BatchSize
    BY <1>1
  <2>2. \A k \in 1 .. BatchSize : batch[k] \in Deliveries
    BY <1>0, <1>6
  <2> QED
    BY <1>4, <1>5, <2>1, <2>2, Zenon
<1>9. \A d \in D : DeliveryOK(d)' /\ d.id.job = j
  BY <1>0, <1>7, Zenon
<1>10. t = Task(D) /\ D \in SUBSET Deliveries
  BY <1>2, <1>8, Zenon
<1> QED
  BY <1>8, <1>9, <1>10, NewTask, Zenon

\* An accumulator after a poll.
LEMMA BatchFacts ==
    ASSUME QueueInv, Still, QueueKept, NEW w \in Procs, ProcOK(w), NEW ids \in SUBSET Ready, dequeue(ids),
           NEW b \in Orders(ids), NEW j \in BatchJobs
    PROVE  \A batch : batch = acc[w][j] \o Received(b[j]) =>
             /\ BatchOf(j, batch)' /\ Len(batch) \in Nat /\ Len(batch) < 2 * BatchSize
             /\ Len(batch) >= BatchSize => \E i \in Known(ids) : i.job = j
<1>1. PICK s, r, old : s = b[j] /\ r = Received(s) /\ old = acc[w][j]
  BY Zenon
<1>2. s \in Seq(Known(ids)) /\ Len(s) <= BatchSize /\ Len(s) \in Nat /\ \A k \in 1 .. Len(s) : s[k] \in Known(ids) /\ s[k].job = j
  <2>1. s \in Lists(Known(ids), BatchSize) /\ Range(s) = {i \in Known(ids) : i.job = j}
    BY <1>1, Zenon DEF Orders
  <2>2. PICK m \in 0 .. BatchSize : s \in Injection(1 .. m, Known(ids))
    BY <2>1, Zenon DEF Lists
  <2>3. s \in [1 .. m -> Known(ids)] /\ m \in Nat /\ m <= BatchSize
    BY <2>2, WorkerAssumption DEF Injection
  <2>4. s \in Seq(Known(ids)) /\ Len(s) = m /\ DOMAIN s = 1 .. m
    BY <2>3
  <2>5. \A k \in 1 .. m : s[k] \in Range(s)
    BY <2>4, Zenon DEF Range
  <2> QED
    BY <2>1, <2>3, <2>4, <2>5, Zenon
<1>3. /\ r \in Seq(Deliveries) /\ Len(r) = Len(s)
      /\ \A k \in 1 .. Len(r) : DeliveryOK(r[k])' /\ r[k].id = s[k]
  <2>1. s \in Seq(Known(ids)) /\ r = Received(s)
    BY <1>1, <1>2, Zenon
  <2> QED
    BY <2>1, ReceivedFacts, Zenon
<1>4. old \in Seq(Deliveries) /\ Types
  BY <1>1, Zenon DEF QueueInv, Types, AccStates
<1>5. Len(old) < BatchSize /\ \A k \in 1 .. Len(old) : DeliveryOK(old[k])' /\ old[k].id.job = j
  <2>1. PICK a : a = acc[w] /\ AccOK(a)'
    BY <1>4, HeldStays, Zenon
  <2> QED
    BY <1>1, <2>1, Zenon DEF AccOK
<1>0. PICK batch : batch = old \o r
  BY Zenon
<1>6. /\ batch \in Seq(Deliveries) /\ Len(batch) = Len(old) + Len(r)
      /\ \A k \in 1 .. Len(old) + Len(r) : batch[k] = IF k <= Len(old) THEN old[k] ELSE r[k - Len(old)]
  <2>1. batch = old \o r /\ old \in Seq(Deliveries) /\ r \in Seq(Deliveries)
    BY <1>0, <1>3, <1>4, Zenon
  <2> QED
    BY <2>1, ConcatFacts, Zenon
<1>7. Len(old) \in Nat /\ Len(r) \in Nat /\ BatchSize \in Nat \ {0}
  BY <1>3, <1>4, WorkerAssumption
<1>8. ASSUME NEW k \in 1 .. Len(batch) PROVE DeliveryOK(batch[k])' /\ batch[k].id.job = j
  <2>1. CASE k <= Len(old)
    <3>1. batch[k] = old[k] /\ k \in 1 .. Len(old)
      BY <1>6, <1>7, <2>1
    <3> QED
      BY <1>5, <3>1, Zenon
  <2>2. CASE ~(k <= Len(old))
    <3>1. batch[k] = r[k - Len(old)] /\ k - Len(old) \in 1 .. Len(r)
      BY <1>6, <1>7, <2>2
    <3>2. PICK m \in 1 .. Len(r) : batch[k] = r[m]
      BY <3>1, Zenon
    <3> QED
      BY <1>2, <1>3, <3>2, Zenon
  <2> QED
    BY <2>1, <2>2, Zenon
<1>9. Len(batch) < 2 * BatchSize
  BY <1>2, <1>3, <1>5, <1>6, <1>7
<1>10. ASSUME Len(batch) >= BatchSize PROVE \E i \in Known(ids) : i.job = j
  <2>1. 1 \in 1 .. Len(s)
    BY <1>2, <1>3, <1>5, <1>6, <1>7, <1>10
  <2> QED
    BY <1>2, <2>1, Zenon
<1> QED
  <2>1. BatchOf(j, batch)'
    BY <1>6, <1>8, Zenon DEF BatchOf
  <2>2. Len(batch) \in Nat
    BY <1>6, <1>7
  <2> QED
    BY <1>0, <1>1, <1>9, <1>10, <2>1, <2>2, Zenon

\* Route: the items of a poll become tasks or join the accumulators.
LEMMA RouteKept ==
    ASSUME QueueInv, Still, \A v \in Procs : ProcOK(v), NEW w \in Procs,
           NEW ids \in Dequeues(taskCount(w)), dequeue(ids), NEW b \in Orders(ids), Route(w, ids, b)
    PROVE  ProcsKept /\ (CronInTask => CronInTask')
<1>0. PICK B : B = [j \in BatchJobs |-> acc[w][j] \o Received(b[j])]
  BY Zenon
<1> DEFINE full == {j \in BatchJobs : Len(B[j]) >= BatchSize}
           flush(j) == Task(Range(SubSeq(B[j], 1, BatchSize)))
           single(i) == Task({Delivery(i, items[i])})
           N == {single(i) : i \in {h \in Known(ids) : h.job \notin BatchJobs}} \cup {flush(j) : j \in full}
           left(j) == IF j \in full THEN SubSeq(B[j], BatchSize + 1, Len(B[j])) ELSE B[j]
<1>1. Types
  BY Zenon DEF QueueInv
<1>2. /\ ids \in SUBSET Ready /\ IsFiniteSet(ids)
      /\ Cardinality(ids) \in Nat /\ Len(tasks[w]) + Cardinality(ids) <= Limit
  BY <1>1, PollCount, Zenon
<1>3. QueueKept
  BY <1>2, Dequeued, Zenon
<1>4. PICK a, q : /\ a = [j \in BatchJobs |-> left(j)] /\ q = Listed(N)
                  /\ acc' = [acc EXCEPT ![w] = a] /\ tasks' = [tasks EXCEPT ![w] = tasks[w] \o q]
  <2>1. \A j \in BatchJobs : B[j] = acc[w][j] \o Received(b[j])
    BY <1>0, Zenon
  <2>2. full = {j \in BatchJobs : Len(acc[w][j] \o Received(b[j])) >= BatchSize}
    BY <2>1, Zenon
  <2>3. {flush(j) : j \in full} = {Task(Range(SubSeq(acc[w][j] \o Received(b[j]), 1, BatchSize))) : j \in full}
    BY <2>1, Zenon
  <2>4. [j \in BatchJobs |-> left(j)]
          = [j \in BatchJobs |->
               IF j \in full
                 THEN SubSeq(acc[w][j] \o Received(b[j]), BatchSize + 1, Len(acc[w][j] \o Received(b[j])))
                 ELSE acc[w][j] \o Received(b[j])]
    BY <2>1, Zenon
  <2> QED
    BY <2>2, <2>3, <2>4, Zenon DEF Route
<1>5. ASSUME NEW j \in BatchJobs, NEW e, e = B[j]
      PROVE  /\ BatchOf(j, e)' /\ Len(e) \in Nat /\ Len(e) < 2 * BatchSize
             /\ j \in full => \E i \in Known(ids) : i.job = j
  <2>1. e = acc[w][j] \o Received(b[j])
    BY <1>0, <1>5, Zenon
  <2>2. ProcOK(w) /\ ids \in SUBSET Ready
    BY <1>2, Zenon
  <2>3. /\ BatchOf(j, e)' /\ Len(e) \in Nat /\ Len(e) < 2 * BatchSize
        /\ Len(e) >= BatchSize => \E i \in Known(ids) : i.job = j
    BY <1>3, <2>1, <2>2, BatchFacts, Zenon
  <2> QED
    BY <1>5, <2>3, Zenon
<1>6. ASSUME NEW j \in BatchJobs, NEW l, l = left(j)
      PROVE  BatchOf(j, l)' /\ Len(l) < BatchSize
  <2>1. PICK e : e = B[j]
    BY Zenon
  <2>2. BatchOf(j, e)' /\ Len(e) \in Nat /\ Len(e) < 2 * BatchSize
    BY <1>5, <2>1, Zenon
  <2>3. /\ Len(e) >= BatchSize => l = SubSeq(e, BatchSize + 1, Len(e))
        /\ ~(Len(e) >= BatchSize) => l = e
    BY <1>6, <2>1, Zenon
  <2> HIDE DEF full, left
  <2>4. BatchSize \in Nat \ {0}
    BY WorkerAssumption
  <2>5. CASE Len(e) >= BatchSize
    <3>1. BatchOf(j, l)' /\ Len(l) = Len(e) - BatchSize
      BY <2>2, <2>3, <2>5, BatchRest, Zenon
    <3>2. Len(l) < BatchSize
      BY <2>2, <2>4, <3>1
    <3> QED
      BY <3>1, <3>2, Zenon
  <2>6. CASE ~(Len(e) >= BatchSize)
    <3>1. Len(e) < BatchSize
      BY <2>2, <2>4, <2>6
    <3> QED
      BY <2>2, <2>3, <2>6, <3>1, Zenon
  <2> QED
    BY <2>5, <2>6, Zenon
<1>7. ASSUME NEW t \in N PROVE t \in TaskStates /\ TaskOK(t)'
  <2>1. CASE \E i \in Known(ids) : t = single(i)
    <3>0. PICK i \in Known(ids) : t = single(i)
      BY <2>1, Zenon
    <3>1. PICK d : t = Task({d}) /\ d = Delivery(i, items[i])
      BY <3>0, Zenon
    <3>2. d \in Deliveries /\ DeliveryOK(d)'
      BY <1>2, <3>1, Dequeued, Zenon
    <3>3. {d} \in SUBSET Deliveries /\ {d} # {} /\ (\A e \in {d} : DeliveryOK(e)') /\ \E e : {d} = {e}
      BY <3>2, Zenon
    <3> QED
      BY <3>1, <3>3, NewTask, Zenon
  <2>2. CASE \E j \in full : t = flush(j)
    <3>0. PICK j \in full : t = flush(j)
      BY <2>2, Zenon
    <3>1. PICK e : e = B[j] /\ t = Task(Range(SubSeq(e, 1, BatchSize))) /\ Len(e) >= BatchSize /\ j \in BatchJobs
      BY <3>0, Zenon
    <3>2. BatchOf(j, e)'
      BY <1>5, <3>1, Zenon
    <3> QED
      BY <3>1, <3>2, BatchTask, Zenon
  <2> QED
    BY <2>1, <2>2, Zenon
<1>8. IsFiniteSet(N) /\ Cardinality(N) \in Nat /\ Len(tasks[w]) + Cardinality(N) <= Limit
  <2> DEFINE X == {i \in Known(ids) : i.job \notin BatchJobs \/ i.job \in full}
             f == [i \in X |-> IF i.job \in BatchJobs THEN flush(i.job) ELSE single(i)]
  <2>1. X \in SUBSET ids
    BY Zenon DEF Known
  <2>2. IsFiniteSet(X) /\ Cardinality(X) <= Cardinality(ids)
    BY <1>2, <2>1, FS_Subset, Zenon
  <2>3. f \in [X -> N]
    <3>1. ASSUME NEW i \in X PROVE f[i] \in N
      <4>1. CASE i.job \in BatchJobs
        <5>1. f[i] = flush(i.job) /\ i.job \in full
          BY <4>1, Zenon
        <5> QED
          BY <5>1, Zenon
      <4>2. CASE i.job \notin BatchJobs
        <5>1. f[i] = single(i) /\ i \in {h \in Known(ids) : h.job \notin BatchJobs}
          BY <4>2, Zenon
        <5> QED
          BY <5>1, Zenon
      <4> QED
        BY <4>1, <4>2, Zenon
    <3> QED
      BY <3>1, Zenon
  <2>4. ASSUME NEW t \in N PROVE \E i \in X : f[i] = t
    <3>1. CASE \E i \in {h \in Known(ids) : h.job \notin BatchJobs} : t = single(i)
      <4>1. PICK i \in Known(ids) : i.job \notin BatchJobs /\ t = single(i)
        BY <3>1, Zenon
      <4>2. i \in X
        BY <4>1, Zenon
      <4>3. f[i] = single(i)
        BY <4>1, <4>2, Zenon
      <4> QED
        BY <4>1, <4>2, <4>3, Zenon
    <3>2. CASE \E j \in full : t = flush(j)
      <4>1. PICK j \in full : t = flush(j)
        BY <3>2, Zenon
      <4>2. PICK i \in Known(ids) : i.job = j
        BY <1>5, <4>1, Zenon
      <4>3. i \in X /\ i.job \in BatchJobs
        BY <4>1, <4>2, Zenon
      <4>4. f[i] = flush(i.job)
        BY <4>3, Zenon
      <4> QED
        BY <4>1, <4>2, <4>3, <4>4, Zenon
    <3> QED
      BY <3>1, <3>2, Zenon
  <2>5. f \in Surjection(X, N)
    BY <2>3, <2>4, Zenon DEF Surjection
  <2> HIDE DEF X, f, N
  <2>6. IsFiniteSet(N) /\ Cardinality(N) <= Cardinality(X)
    BY <2>2, <2>5, FS_Surjection, Zenon
  <2>7. Cardinality(N) \in Nat /\ Cardinality(X) \in Nat
    BY <2>2, <2>6, FS_CardinalityType, Zenon
  <2>8. Len(tasks[w]) \in Nat /\ Limit \in Nat
    BY <1>1, WorkerAssumption DEF Types
  <2>9. Len(tasks[w]) + Cardinality(N) <= Limit
    BY <1>2, <2>2, <2>6, <2>7, <2>8
  <2> QED
    BY <2>6, <2>7, <2>9, Zenon
<1>9. a \in AccStates /\ AccOK(a)'
  <2>1. \A j \in BatchJobs : a[j] = left(j)
    BY <1>4, Zenon
  <2> HIDE DEF full, left
  <2>2. ASSUME NEW j \in BatchJobs
        PROVE  /\ a[j] \in Seq(Deliveries) /\ Len(a[j]) < BatchSize
               /\ \A k \in 1 .. Len(a[j]) : DeliveryOK(a[j][k])' /\ a[j][k].id.job = j
    BY <1>6, <2>1, Zenon DEF BatchOf
  <2>3. a \in AccStates
    BY <1>4, <2>1, <2>2, Zenon DEF AccStates
  <2> QED
    BY <2>2, <2>3, Zenon DEF AccOK
<1> HIDE DEF N
<1>10. q \in Seq(N) /\ Len(q) = Cardinality(N)
  BY <1>4, <1>8, ListedFacts, Zenon
<1>11. q \in Seq(TaskStates) /\ \A k \in 1 .. Len(q) : q[k] \in N
  BY <1>7, <1>10
<1>12. \A k \in 1 .. Len(q) : TaskOK(q[k])'
  BY <1>7, <1>11, Zenon
<1>13. RoomFor(Len(tasks[w]) + Len(q), a)
  <2>1. Len(tasks[w]) \in Nat
    BY <1>1 DEF Types
  <2>2. Len(tasks[w]) + Len(q) \in Nat /\ Len(tasks[w]) + Len(q) <= Limit
    BY <1>8, <1>10, <2>1
  <2> QED
    BY <1>9, <2>2, RoomWithin, Zenon
<1> QED
  BY <1>1, <1>3, <1>4, <1>9, <1>11, <1>12, <1>13, ProcGrows, Zenon

\* flushTimedOutBatches: an accumulator becomes a task.
LEMMA FlushKept ==
    ASSUME Types, QueueKept, Still, \A v \in Procs : ProcOK(v), NEW w \in Procs, NEW j \in BatchJobs, FlushTimedOut(w, j)
    PROVE  ProcsKept /\ (CronInTask => CronInTask')
<1>1. PICK b, D, old : old = acc[w] /\ b = old[j] /\ D = Range(b)
  BY Zenon
<1>2. /\ old \in AccStates /\ b \in Seq(Deliveries) /\ b # << >>
      /\ tasks[w] \in Seq(TaskStates) /\ acc \in [Procs -> AccStates]
  BY <1>1, Zenon DEF FlushTimedOut, Types, AccStates
<1>3. AccOK(old)'
  BY <1>1, HeldStays, Zenon
<1>4. \A k \in 1 .. Len(b) : DeliveryOK(b[k])' /\ b[k].id.job = j
  BY <1>1, <1>3, Zenon DEF AccOK
<1>5. D = {b[k] : k \in 1 .. Len(b)}
  <2>1. DOMAIN b = 1 .. Len(b)
    BY <1>2
  <2>2. D = {b[k] : k \in DOMAIN b}
    BY <1>1, Zenon DEF Range
  <2> QED
    BY <2>1, <2>2, Zenon
<1>6. D \in SUBSET Deliveries /\ D # {} /\ (\A d \in D : DeliveryOK(d)') /\ \A d \in D : d.id.job \in BatchJobs
  <2>1. 1 \in 1 .. Len(b) /\ \A k \in 1 .. Len(b) : b[k] \in Deliveries
    BY <1>2
  <2> QED
    BY <1>4, <1>5, <2>1, Zenon
<1>7. PICK t : t = Task(D)
  BY Zenon
<1>8. t \in TaskStates /\ TaskOK(t)'
  BY <1>6, <1>7, NewTask, Zenon
<1>9. PICK a, q : a = [old EXCEPT ![j] = << >>] /\ q = <<t>>
  BY Zenon
<1>10. q \in Seq(TaskStates) /\ Len(q) = 1 /\ \A k \in 1 .. Len(q) : q[k] = t
  BY <1>8, <1>9
<1>11. acc' = [acc EXCEPT ![w] = a] /\ tasks' = [tasks EXCEPT ![w] = tasks[w] \o q]
  <2>0. PICK s \in Seq(TaskStates) : s = tasks[w]
    BY <1>2, Zenon
  <2>1. Append(s, t) = s \o <<t>>
    BY <1>8
  <2>2. tasks' = [tasks EXCEPT ![w] = Append(tasks[w], t)]
    BY <1>1, <1>7, Zenon DEF FlushTimedOut
  <2>3. acc' = [acc EXCEPT ![w][j] = << >>]
    BY Zenon DEF FlushTimedOut
  <2> QED
    BY <1>1, <1>9, <2>0, <2>1, <2>2, <2>3, Zenon
<1>12. a[j] = << >> /\ a \in AccStates /\ \A i \in BatchJobs : i # j => a[i] = old[i]
  <2>1. << >> \in Seq(Deliveries)
    OBVIOUS
  <2> QED
    BY <1>2, <1>9, <2>1, Zenon DEF AccStates
<1>13. AccOK(a)'
  <2>1. ASSUME NEW i \in BatchJobs
        PROVE  Len(a[i]) < BatchSize /\ \A k \in 1 .. Len(a[i]) : DeliveryOK(a[i][k])' /\ a[i][k].id.job = i
    <3>1. CASE i = j
      <4>1. Len(a[i]) = 0 /\ 1 .. Len(a[i]) = {} /\ Len(a[i]) < BatchSize
        BY <1>12, <3>1, WorkerAssumption
      <4> QED
        BY <4>1, Zenon
    <3>2. CASE i # j
      BY <1>3, <1>12, <3>2, Zenon DEF AccOK
    <3> QED
      BY <3>1, <3>2, Zenon
  <2> QED
    BY <2>1, Zenon DEF AccOK
<1>14. RoomFor(Len(tasks[w]) + Len(q), a)
  <2>1. Filled(a) = Filled(old) \ {j} /\ j \in Filled(old)
    BY <1>1, <1>2, <1>12, Zenon DEF Filled
  <2>2. IsFiniteSet(BatchJobs) /\ Filled(old) \in SUBSET BatchJobs /\ catalog \cap BatchJobs \in SUBSET BatchJobs
    BY WorkerAssumption, Zenon DEF Filled
  <2>3. IsFiniteSet(Filled(old)) /\ IsFiniteSet(catalog \cap BatchJobs)
    BY <2>2, FS_Subset, Zenon
  <2>4. Cardinality(Filled(a)) = Cardinality(Filled(old)) - 1
    BY <2>1, <2>3, FS_RemoveElement, Zenon
  <2>5. /\ Cardinality(Filled(old)) \in Nat /\ Cardinality(catalog \cap BatchJobs) \in Nat
        /\ Limit \in Nat /\ Len(tasks[w]) \in Nat
    BY <1>2, <2>3, FS_CardinalityType, WorkerAssumption
  <2>6. Len(tasks[w]) + Cardinality(Filled(old)) <= Limit + Cardinality(catalog \cap BatchJobs)
    BY <1>1, Zenon DEF ProcOK, RoomFor
  <2>7. (Len(tasks[w]) + Len(q)) + Cardinality(Filled(a)) <= Limit + Cardinality(catalog \cap BatchJobs)
    BY <1>10, <2>4, <2>5, <2>6
  <2> QED
    BY <2>7, Zenon DEF RoomFor
<1>15. \A k \in 1 .. Len(q) : TaskOK(q[k])'
  BY <1>8, <1>10, Zenon
<1> QED
  BY <1>10, <1>11, <1>12, <1>13, <1>14, <1>15, ProcGrows, Zenon

\* Empty accumulators.
LEMMA NothingAccumulated ==
    ASSUME NEW a, a = [j \in BatchJobs |-> << >>]
    PROVE  a \in AccStates /\ AccOK(a) /\ AccOK(a)' /\ RoomFor(0, a) /\ RoomFor(0, a)'
<1>1. << >> \in Seq(Deliveries) /\ Len(<< >>) = 0 /\ 0 < BatchSize /\ 1 .. 0 = {}
  BY WorkerAssumption
<1>2. a \in AccStates /\ \A j \in BatchJobs : a[j] = << >>
  BY <1>1, Zenon DEF AccStates
<1>3. AccOK(a) /\ AccOK(a)'
  BY <1>1, <1>2, Zenon DEF AccOK
<1>4. Filled(a) = {}
  BY <1>2, Zenon DEF Filled
<1>5. Cardinality(Filled(a)) = 0
  BY <1>4, FS_EmptySet, Zenon
<1>6. ASSUME NEW C \in SUBSET BatchJobs PROVE 0 + Cardinality(Filled(a)) <= Limit + Cardinality(C)
  <2>1. Cardinality(C) \in Nat /\ Limit \in Nat
    BY FS_Subset, FS_CardinalityType, WorkerAssumption, Zenon
  <2> QED
    BY <1>5, <2>1
<1>7. catalog \cap BatchJobs \in SUBSET BatchJobs /\ catalog' \cap BatchJobs \in SUBSET BatchJobs
  BY Zenon
<1>8. RoomFor(0, a)
  BY <1>6, <1>7, Zenon DEF RoomFor
<1>9. RoomFor(0, a)'
  <2>1. 0 + Cardinality(Filled(a)) <= Limit + Cardinality(catalog' \cap BatchJobs)
    BY <1>6, <1>7, Zenon
  <2> QED
    BY <2>1, Zenon DEF RoomFor, Filled
<1> QED
  BY <1>2, <1>3, <1>8, <1>9, Zenon

\* A process that dies holds nothing.
LEMMA CrashKept ==
    ASSUME Types, QueueKept, Still, \A v \in Procs : ProcOK(v), NEW w \in Procs, Crash(w)
    PROVE  ProcsKept
<1>1. acc \in [Procs -> AccStates] /\ tasks \in [Procs -> Seq(TaskStates)]
  BY Zenon DEF Types
<1>2. PICK a, q : a = [j \in BatchJobs |-> << >>] /\ q = << >>
  BY Zenon
<1>3. q \in Seq(TaskStates) /\ Len(q) = 0 /\ \A k \in 1 .. Len(q) : TaskOK(q[k])'
  BY <1>2
<1>4. a \in AccStates /\ AccOK(a)' /\ RoomFor(Len(q), a)'
  BY <1>2, <1>3, NothingAccumulated, Zenon
<1>5. acc' = [acc EXCEPT ![w] = a] /\ tasks' = [tasks EXCEPT ![w] = q]
  BY <1>2, Zenon DEF Crash
<1>6. /\ acc'[w] = a /\ tasks'[w] = q /\ \A v \in Procs : v # w => acc'[v] = acc[v] /\ tasks'[v] = tasks[v]
      /\ acc' \in [Procs -> AccStates] /\ tasks' \in [Procs -> Seq(TaskStates)]
  BY <1>1, <1>3, <1>4, <1>5, Zenon
<1>7. ProcOK(w)'
  BY <1>3, <1>4, <1>6, ProcBecomes, Zenon
<1>8. ASSUME NEW v \in Procs, v # w PROVE ProcOK(v)'
  BY <1>6, <1>8, ProcStays, Zenon
<1> QED
  BY <1>6, <1>7, <1>8, Zenon DEF ProcsKept

\* No process changes.
LEMMA ProcsStill ==
    ASSUME Types, QueueKept, Still, \A v \in Procs : ProcOK(v), acc' = acc, tasks' = tasks
    PROVE  ProcsKept /\ (CronInTask => CronInTask')
<1>1. \A w \in Procs : ProcOK(w)'
  BY ProcStays, Zenon
<1> QED
  BY <1>1, Zenon DEF ProcsKept, Types, CronInTask, HasCron

\* CronAlive, in terms of the queue and the tasks.
LEMMA CronNow ==
    ASSUME Types
    PROVE  CronAlive <=> ("cron" \in jobs /\ ~gap => CronQueued \/ CronInTask)
<1>1. \A w \in Procs : DOMAIN tasks[w] = 1 .. Len(tasks[w])
  BY DEF Types
<1> QED
  BY <1>1, Zenon DEF CronAlive, CronQueued, CronInTask, HasCron

\* The same after a step.
LEMMA CronThen ==
    ASSUME ProcsKept
    PROVE  CronAlive' <=> ("cron" \in jobs' /\ ~gap' => CronQueued' \/ CronInTask')
<1>1. \A w \in Procs : DOMAIN tasks'[w] = 1 .. Len(tasks'[w])
  BY DEF ProcsKept
<1> QED
  BY <1>1, Zenon DEF CronAlive, CronQueued, CronInTask, HasCron

----------------------------------------------------------------------------
(* The steps.                                                              *)

\* A cron occurrence is enqueued for the future before its time, unless by a
\* call that was overtaken.
NewFuture ==
    \A i \in Ids : i.job = "cron" /\ items[i] = Absent /\ items'[i] # Absent /\ items'[i].waits = "future" =>
        i.n > clock \/ \E c \in InFlight(i.n) : Overtaken(c)

StepKept == QueueKept /\ ProcsKept /\ CronAlive' /\ NewFuture

\* WorkerInv holds of the queue.
LEMMA QueuePart ==
    ASSUME WorkerInv
    PROVE  QueueInv
BY EachIsSafe, Zenon DEF WorkerInv, QueueInv, Types

\* A step on the queue alone that removes no cron item.
LEMMA QueueOnly ==
    ASSUME WorkerInv, Still, QueueKept, NewFuture, UNCHANGED <<acc, tasks>>, gap => gap',
           \A i \in Ids : i.job = "cron" /\ Present(i) => Present(i)'
    PROVE  StepKept
<1>1. Types /\ (\A w \in Procs : ProcOK(w)) /\ CronAlive
  BY Zenon DEF WorkerInv
<1>2. ProcsKept /\ (CronInTask => CronInTask')
  BY <1>1, ProcsStill, Zenon
<1>3. CronQueued => CronQueued'
  BY Zenon DEF CronQueued
<1>4. CronAlive'
  BY <1>1, <1>2, <1>3, CronNow, CronThen, Zenon DEF Still, Types
<1> QED
  BY <1>2, <1>4, Zenon DEF StepKept

\* Clients: enqueue.
LEMMA EnqueueStep ==
    ASSUME WorkerInv, Still, NEW i \in Ids, Enqueue(i)
    PROVE  StepKept
<1>1. PICK v \in Nat : enqueueItem(i, v, 0, "no")
  BY Zenon DEF Enqueue, WorkerInv, Types
<1>2. i.job \in jobs /\ i.job # "cron" /\ Passed(i)
  BY Zenon DEF Enqueue, Passed
<1>3. 0 \in 0 .. MaxAttempts - 1 /\ "no" \in Waits
  BY WorkerAssumption DEF Waits
<1>4. QueueKept
  BY <1>1, <1>2, <1>3, QueuePart, EnqueueKept, Zenon
<1>5. items' = [items EXCEPT ![i] = items'[i]] /\ \A j \in Ids : j # i => items'[j] = items[j]
  BY <1>1, Zenon DEF enqueueItem, WorkerInv, Types
<1> QED
  BY <1>2, <1>4, <1>5, QueueOnly, Zenon DEF NewFuture, Present, Enqueue, procs

\* Clients: reschedule, ack and redrive, and the time that comes.
LEMMA ClientStep ==
    ASSUME WorkerInv, Still, NEW i \in Ids, Reschedule(i) \/ AckById(i) \/ Redrive(i) \/ Due(i)
    PROVE  StepKept
<1>1. items \in [Ids -> Entries \cup {Absent}] /\ dlq \in [Ids -> Entries \cup {Absent}] /\ QueueInv /\ IdOK(i)
  BY QueuePart, Zenon DEF WorkerInv, Types
<1>2. ASSUME NEW s \in Waits, items' = [items EXCEPT ![i].waits = s], Present(i), s # "future" => Passed(i),
             UNCHANGED <<dlq, accepted, dropped>>, UNCHANGED <<acc, tasks, gap>>
      PROVE  StepKept
  <2>0. PICK e : e = [items[i] EXCEPT !.waits = s]
    BY Zenon
  <2>1. items' = [j \in Ids |-> items'[j]] /\ \A j \in Ids : j # i => items'[j] = items[j]
    <3>1. items' = [items EXCEPT ![i] = e]
      BY <1>2, <2>0, Zenon
    <3>2. e \in Entries
      BY <1>1, <1>2, <2>0, Zenon DEF Present, Entries
    <3>3. items \in [Ids -> Entries \cup {Absent}]
      BY <1>1, Zenon
    <3>4. items' \in [Ids -> Entries \cup {Absent}] /\ \A j \in Ids : j # i => items'[j] = items[j]
      BY <3>1, <3>2, <3>3, Zenon
    <3> QED
      BY <3>4, Zenon
  <2>2. items'[i] = [items[i] EXCEPT !.waits = s]
    BY <1>1, <1>2, Zenon
  <2>3. \A j \in Ids : Rescored(j)
    BY <1>2, <2>1, <2>2, Zenon DEF Rescored
  <2>4. QueueKept
    BY <1>1, <1>2, <2>1, <2>3, RescoreKept, Zenon
  <2>5. items'[i] # Absent
    BY <1>1, <1>2, <2>2, Zenon DEF Present, Absent, Entries, Waits
  <2> QED
    BY <1>2, <2>1, <2>4, <2>5, QueueOnly, Zenon DEF NewFuture, Present
<1>3. CASE Reschedule(i)
  BY <1>2, <1>3, Zenon DEF Reschedule, Waits, Passed, procs
<1>4. CASE AckById(i)
  <2>1. items' = [items EXCEPT ![i] = Absent] /\ i.job # "cron" /\ \A j \in Ids : j # i => items'[j] = items[j]
    BY <1>1, <1>4, Zenon DEF AckById
  <2>2. /\ UNCHANGED <<dlq, accepted>> /\ dropped \subseteq dropped'
        /\ Payload(i, items[i]) \in handled' \cup dropped'
    BY <1>4, Zenon DEF AckById
  <2>3. QueueKept
    BY <1>1, <2>1, <2>2, RemoveKept, Zenon
  <2> QED
    BY <1>4, <2>1, <2>3, QueueOnly, Zenon DEF AckById, NewFuture, Present, procs
<1>5. CASE Redrive(i)
  <2>1. redriveFromDeadLetterQueue(i)
    BY <1>5, Zenon DEF Redrive
  <2>2. QueueKept
    BY <1>1, <2>1, RedriveKept, Zenon
  <2>3. items'[i] = [dlq[i] EXCEPT !.waits = "no"] /\ dlq[i] \in Entries /\ \A j \in Ids : j # i => items'[j] = items[j]
    BY <1>1, <2>1, Zenon DEF redriveFromDeadLetterQueue
  <2>4. items'[i] # Absent /\ items'[i].waits = "no"
    BY <2>3 DEF Absent, Entries
  <2>5. ASSUME NEW j \in Ids
        PROVE  items'[j] = items[j] \/ (items'[j] # Absent /\ items'[j].waits # "future")
    <3>1. CASE j = i
      BY <2>4, <3>1, Zenon
    <3>2. CASE j # i
      BY <2>3, <3>2, Zenon
    <3> QED
      BY <3>1, <3>2, Zenon
  <2>6. NewFuture /\ \A j \in Ids : Present(j) => Present(j)'
    BY <2>5, Zenon DEF NewFuture, Present
  <2>7. UNCHANGED <<acc, tasks>> /\ gap' = gap
    BY <1>5, Zenon DEF Redrive, procs
  <2> QED
    BY <2>2, <2>6, <2>7, QueueOnly, Zenon
<1>6. CASE Due(i)
  <2>1. Passed(i)
    <3>1. CASE items[i].waits = "future"
      <4>1. i.n <= clock \/ (jitter /\ i.n <= clock + 1)
        BY <1>6, <3>1, Zenon DEF Due
      <4>2. clock \in Nat /\ i.n \in Nat
        BY WorkerAssumption, IdNumber DEF WorkerInv, Types
      <4> QED
        BY <4>1, <4>2 DEF Passed, Now
    <3>2. CASE items[i].waits # "future"
      BY <1>1, <1>6, <3>2, Zenon DEF Due, IdOK
    <3> QED
      BY <3>1, <3>2, Zenon
  <2> QED
    BY <1>2, <1>6, <2>1, Zenon DEF Due, Waits, procs
<1> QED
  BY <1>3, <1>4, <1>5, <1>6, Zenon

\* The arrival of a call of enqueueCronJob: it is on time or overtaken.
LEMMA ArrivalKept ==
    ASSUME QueueInv, Still, NEW c, CallOK(c), c \in InFlight(c.n), enqueueCronJob(c)
    PROVE  QueueKept /\ NewFuture /\ CronQueued'
<1>1. /\ QueueKept /\ \E i \in Ids : i.job = "cron" /\ Present(i)'
      /\ \A i \in Ids : items'[i] = items[i] \/ (i.job = "cron" /\ i.n = c.n)
  BY CronKept, Zenon
<1>2. c.n > clock \/ Overtaken(c)
  <2>1. clock \in Nat /\ c.seen \in Nat /\ c.n \in Nat /\ c.seen < c.n /\ c.seen <= clock
    BY WorkerAssumption DEF QueueInv, Types, CallOK
  <2> QED
    BY <2>1 DEF Overtaken
<1>3. NewFuture
  BY <1>1, <1>2, Zenon DEF NewFuture
<1> QED
  BY <1>1, <1>3, Zenon DEF CronQueued

\* start.
LEMMA StartStep ==
    ASSUME WorkerInv, Still, NEW w \in Procs, Start(w)
    PROVE  StepKept
<1>1. QueueKept
  BY QueuePart, QueueStill, Zenon DEF Start
<1> QED
  BY <1>1, QueueOnly, Zenon DEF Start, NewFuture, Present, queue

\* The call of setupCron.
LEMMA SetupCronStep ==
    ASSUME WorkerInv, Still, NEW w \in Procs, SetupCron(w)
    PROVE  StepKept
<1>1. QueueInv /\ Types /\ (\A v \in Procs : ProcOK(v)) /\ UNCHANGED <<acc, tasks>>
  BY QueuePart, Zenon DEF WorkerInv, SetupCron
<1>2. CASE UNCHANGED <<queue, gap>>
  <2>1. QueueKept
    BY <1>1, <1>2, QueueStill, Zenon
  <2> QED
    BY <1>1, <1>2, <2>1, QueueOnly, Zenon DEF NewFuture, Present, queue
<1>3. CASE enqueueCronJob(starting[w])
  <2>1. PICK c : c = starting[w]
    BY Zenon
  <2>2. CallOK(c) /\ c \in InFlight(c.n)
    BY <2>1, Zenon DEF SetupCron, WorkerInv, StartsOK, InFlight
  <2>3. QueueKept /\ NewFuture /\ CronQueued'
    BY <1>1, <1>3, <2>1, <2>2, ArrivalKept, Zenon
  <2>4. ProcsKept
    BY <1>1, <2>3, ProcsStill, Zenon
  <2> QED
    BY <2>3, <2>4, CronThen, Zenon DEF StepKept
<1> QED
  BY <1>2, <1>3, Zenon DEF SetupCron

\* The worker loop.
LEMMA LoopStep ==
    ASSUME WorkerInv, Still, NEW w \in Procs,
           Poll(w) \/ PollFails(w) \/ \E j \in BatchJobs : FlushTimedOut(w, j)
    PROVE  StepKept
<1>1. QueueInv /\ Types /\ (\A v \in Procs : ProcOK(v)) /\ CronAlive
  BY QueuePart, Zenon DEF WorkerInv
<1>2. ASSUME NEW ids \in SUBSET Ready, dequeue(ids)
      PROVE  QueueKept /\ NewFuture /\ (CronQueued => CronQueued') /\ \A i \in Ids : Present(i)' <=> Present(i)
  <2>1. QueueKept /\ \A i \in Ids : Present(i)' <=> Present(i)
    BY <1>1, <1>2, Dequeued, Zenon
  <2> QED
    BY <2>1, Zenon DEF NewFuture, CronQueued, Present
<1>3. CASE Poll(w)
  <2>1. PICK ids \in Dequeues(taskCount(w)) : dequeue(ids) /\ \E b \in Orders(ids) : Route(w, ids, b)
    BY <1>3, Zenon DEF Poll
  <2>2. ProcsKept /\ (CronInTask => CronInTask')
    BY <1>1, <2>1, RouteKept, Zenon
  <2>3. ids \in SUBSET Ready
    BY <1>1, PollCount, Zenon
  <2>4. QueueKept /\ NewFuture /\ (CronQueued => CronQueued')
    BY <1>2, <2>1, <2>3, Zenon
  <2>5. CronAlive'
    BY <1>1, <1>3, <2>2, <2>4, CronNow, CronThen, Zenon DEF Still, Poll
  <2> QED
    BY <2>2, <2>4, <2>5, Zenon DEF StepKept
<1>4. CASE PollFails(w)
  <2>0. PICK ids \in Dequeues(taskCount(w)) : dequeue(ids)
    BY <1>4, Zenon DEF PollFails
  <2>1. ids \in SUBSET Ready
    BY <1>1, PollCount, Zenon
  <2>2. QueueKept /\ NewFuture /\ \A i \in Ids : Present(i)' <=> Present(i)
    BY <1>2, <2>0, <2>1, Zenon
  <2> QED
    BY <1>4, <2>2, QueueOnly, Zenon DEF PollFails, procs
<1>5. CASE \E j \in BatchJobs : FlushTimedOut(w, j)
  <2>0. PICK j \in BatchJobs : FlushTimedOut(w, j)
    BY <1>5, Zenon
  <2>1. QueueKept
    BY <1>1, <2>0, QueueStill, Zenon DEF FlushTimedOut
  <2>2. ProcsKept /\ (CronInTask => CronInTask')
    BY <1>1, <2>0, <2>1, FlushKept, Zenon
  <2>3. NewFuture /\ (CronQueued => CronQueued')
    BY <2>0, Zenon DEF FlushTimedOut, queue, NewFuture, CronQueued, Present
  <2>4. CronAlive'
    BY <1>1, <2>0, <2>2, <2>3, CronNow, CronThen, Zenon DEF Still, FlushTimedOut
  <2> QED
    BY <2>1, <2>2, <2>3, <2>4, Zenon DEF StepKept
<1> QED
  BY <1>3, <1>4, <1>5, Zenon

\* A crash breaks the cron chain only when a delivery it gives up was the last.
LEMMA CrashStep ==
    ASSUME WorkerInv, Still, NEW w \in Procs, Crash(w)
    PROVE  StepKept
<1>1. QueueInv /\ Types /\ (\A v \in Procs : ProcOK(v)) /\ CronAlive
  BY QueuePart, Zenon DEF WorkerInv
<1>2. QueueKept
  BY <1>1, QueueStill, Zenon DEF Crash
<1>3. ProcsKept
  BY <1>1, <1>2, CrashKept, Zenon
<1>4. NewFuture /\ (CronQueued => CronQueued')
  BY Zenon DEF Crash, queue, NewFuture, CronQueued, Present
<1>5. ASSUME ~gap', CronInTask PROVE CronQueued' \/ CronInTask'
  <2>1. PICK v \in Procs : HasCron(tasks[v])
    BY <1>5, Zenon DEF CronInTask
  <2>2. CASE v = w
    <3>1. PICK k \in 1 .. Len(tasks[w]) : \E d \in tasks[w][k].all : d.id.job = "cron"
      BY <2>1, <2>2, Zenon DEF HasCron
    <3>2. PICK d \in tasks[w][k].all : d.id.job = "cron"
      BY <3>1, Zenon
    <3>3. k \in DOMAIN tasks[w]
      BY <1>1 DEF Types
    <3>4. ~Orphaned(d)
      BY <1>5, <3>3, Zenon DEF Crash
    <3>5. d.id \in Ids
      BY <1>1, AllInHand, Zenon DEF Deliveries
    <3> QED
      BY <3>2, <3>4, <3>5, Zenon DEF Orphaned, CronQueued, Crash, queue, Present
  <2>3. CASE v # w
    <3>1. tasks'[v] = tasks[v]
      BY <1>1, <2>3, Zenon DEF Crash, Types
    <3> QED
      BY <2>1, <3>1, Zenon DEF CronInTask, HasCron
  <2> QED
    BY <2>2, <2>3, Zenon
<1>6. gap => gap'
  BY Zenon DEF Crash
<1>7. CronAlive'
  BY <1>1, <1>3, <1>4, <1>5, <1>6, CronNow, CronThen, Zenon DEF Still
<1> QED
  BY <1>2, <1>3, <1>4, <1>7, Zenon DEF StepKept

\* A task and the delivery it works on.
LEMMA TaskFacts ==
    ASSUME WorkerInv, NEW w \in Procs, NEW k \in 1 .. Len(tasks[w])
    PROVE  /\ Types /\ QueueInv /\ (\A v \in Procs : ProcOK(v)) /\ CronAlive
           /\ tasks[w][k] \in TaskStates /\ TaskOK(tasks[w][k])
           /\ tasks[w][k].all # {} /\ tasks[w][k].all \subseteq tasks[w][k].all
           /\ \A d \in tasks[w][k].all : d \in Deliveries /\ d.id \in Ids /\ DeliveryOK(d)
           /\ tasks[w][k].todo \subseteq tasks[w][k].all
<1>1. Types /\ QueueInv /\ (\A v \in Procs : ProcOK(v)) /\ CronAlive
  BY QueuePart, Zenon DEF WorkerInv
<1>2. tasks[w][k] \in TaskStates
  BY <1>1 DEF Types
<1>3. TaskOK(tasks[w][k])
  BY <1>1, Zenon DEF ProcOK
<1>4. PICK t : t = tasks[w][k]
  BY Zenon
<1>5. t.all # {} /\ t.todo \subseteq t.all /\ \A d \in t.all : d \in Deliveries /\ d.id \in Ids /\ DeliveryOK(d)
  BY <1>2, <1>3, <1>4, Zenon DEF TaskStates, TaskOK, Deliveries
<1> QED
  BY <1>1, <1>2, <1>3, <1>4, <1>5, Zenon

\* No call.
LEMMA NoCallTyped == NoCall \in CallStates
BY DEF NoCall, CallStates

\* The handler's outcome.
LEMMA HandleStep ==
    ASSUME WorkerInv, Still, NEW w \in Procs, NEW k \in 1 .. Len(tasks[w]), Handle(w, k)
    PROVE  StepKept /\ handled' \subseteq Ids \X Nat /\ \A x \in handled' : Passed(x[1])
<1> DEFINE t == tasks[w][k]
<1>1. /\ Types /\ QueueInv /\ (\A v \in Procs : ProcOK(v)) /\ CronAlive
      /\ t.all # {} /\ t.all \subseteq t.all /\ \A d \in t.all : d \in Deliveries /\ d.id \in Ids /\ DeliveryOK(d)
  BY TaskFacts, Zenon
<1>2. QueueKept
  BY <1>1, QueueStill, Zenon DEF Handle
<1>3. NewFuture /\ (CronQueued => CronQueued') /\ \A i \in Ids : Present(i)' <=> Present(i)
  BY Zenon DEF Handle, queue, NewFuture, CronQueued, Present
<1>4. CASE \E d \in t.all : d.id.job \in unhandled
  <2>1. Finish(w, k) /\ handled' = handled /\ acc' = acc /\ gap' = (gap \/ \E d \in t.all : Orphaned(d))
    BY <1>4, Zenon DEF Handle
  <2>2. ProcsKept
    BY <1>1, <1>2, <2>1, FinishKept, Zenon
  <2>3. ASSUME ~gap', CronInTask PROVE CronQueued' \/ CronInTask'
    <3>1. CASE \A d \in t.all : d.id.job # "cron"
      BY <1>1, <2>1, <2>3, <3>1, FinishCron, Zenon
    <3>2. CASE \E d \in t.all : d.id.job = "cron"
      <4>1. PICK d \in t.all : d.id.job = "cron"
        BY <3>2, Zenon
      <4>2. Present(d.id) /\ d.id \in Ids
        BY <1>1, <2>1, <2>3, <4>1, Zenon DEF Orphaned
      <4> QED
        BY <1>3, <4>1, <4>2, Zenon DEF CronQueued
    <3> QED
      BY <3>1, <3>2, Zenon
  <2>4. CronAlive'
    BY <1>1, <1>3, <2>1, <2>2, <2>3, CronNow, CronThen, Zenon DEF Still
  <2>5. handled' \subseteq Ids \X Nat /\ \A x \in handled' : Passed(x[1])
    BY <2>1, Zenon DEF WorkerInv, Types, HandledOK
  <2> QED
    BY <1>2, <1>3, <2>2, <2>4, <2>5, Zenon DEF StepKept
<1>5. CASE ~\E d \in t.all : d.id.job \in unhandled
  <2>1. PICK at \in {"ack", "fail"} : /\ Goto(w, k, at, t.all, NoCall)
                                      /\ at = "ack" => handled' = handled \cup {Payload(d.id, d) : d \in t.all}
                                      /\ at = "fail" => handled' = handled
    BY <1>5, Zenon DEF Handle
  <2>2. gap' = gap /\ acc' = acc
    BY <1>5, Zenon DEF Handle
  <2>3. ProcsKept
    <3>1. at = "ack" => \A d \in t.all : Payload(d.id, d) \in handled'
      BY <2>1, Zenon
    <3>2. at \in Stages /\ at \notin {"cron", "dead"} /\ NoCall \in CallStates
      BY NoCallTyped, Zenon DEF Stages
    <3> QED
      BY <1>1, <1>2, <2>1, <2>2, <3>1, <3>2, GotoKept, Zenon
  <2>4. CronInTask => CronInTask'
    BY <1>1, <2>1, GotoCron, Zenon
  <2>5. CronAlive'
    BY <1>1, <1>3, <2>2, <2>3, <2>4, CronNow, CronThen, Zenon DEF Still
  <2>6. handled' \subseteq Ids \X Nat /\ \A x \in handled' : Passed(x[1])
    <3>1. ASSUME NEW d \in t.all PROVE Payload(d.id, d) \in Ids \X Nat /\ Passed(Payload(d.id, d)[1])
      BY <1>1, Zenon DEF Payload, Deliveries, DeliveryOK
    <3>2. handled \subseteq Ids \X Nat /\ \A x \in handled : Passed(x[1])
      BY Zenon DEF WorkerInv, Types, HandledOK
    <3>3. \A x \in handled' : x \in handled \/ \E d \in t.all : x = Payload(d.id, d)
      BY <2>1, Zenon
    <3> QED
      BY <3>1, <3>2, <3>3, Zenon
  <2> QED
    BY <1>2, <1>3, <2>3, <2>5, <2>6, Zenon DEF StepKept
<1> QED
  BY <1>4, <1>5, Zenon

\* The acknowledgement.
LEMMA AckStep ==
    ASSUME WorkerInv, Still, NEW w \in Procs, NEW k \in 1 .. Len(tasks[w]), NEW d \in tasks[w][k].todo, Ack(w, k, d)
    PROVE  StepKept
<1> DEFINE t == tasks[w][k]
<1>1. /\ Types /\ QueueInv /\ (\A v \in Procs : ProcOK(v)) /\ CronAlive /\ TaskOK(t)
      /\ t.all # {} /\ t.all \subseteq t.all /\ d \in t.all /\ d \in Deliveries /\ d.id \in Ids /\ DeliveryOK(d)
  BY TaskFacts, Zenon
<1>2. Payload(d.id, d) \in handled
  BY <1>1, Zenon DEF Ack, TaskOK
<1>3. ackItem(d) \/ UNCHANGED queue
  BY Zenon DEF Ack
<1>4. QueueKept
  BY <1>1, <1>2, <1>3, AckKept, QueueStill, Zenon
<1>5. \A i \in Ids : items'[i] = items[i] \/ (i = d.id /\ items'[i] = Absent)
  BY <1>1, <1>3, Zenon DEF ackItem, queue, Types
<1>6. NewFuture /\ (d.id.job # "cron" => (CronQueued => CronQueued'))
  BY <1>5, Zenon DEF NewFuture, CronQueued, Present
<1>7. acc' = acc /\ gap' = gap
  BY Zenon DEF Ack
<1>8. ProcsKept /\ (d.id.job # "cron" => (CronInTask => CronInTask')) /\ (d.id.job = "cron" => CronInTask')
  <2>1. CASE Done(w, k, d, IF d.id.job = "cron" THEN "cron" ELSE "end")
    <3>1. PICK next \in {"end", "cron", "dead"} : /\ Done(w, k, d, next)
                                                  /\ next # "end" <=> d.id.job = "cron"
      BY <2>1, Zenon
    <3>2. ProcsKept
      BY <1>1, <1>4, <1>7, <3>1, DoneKept, Zenon DEF Ack
    <3> QED
      BY <1>1, <3>1, <3>2, DoneCron, Zenon
  <2>2. CASE Goto(w, k, "fail", t.all, NoCall)
    <3>1. "fail" \in Stages /\ "fail" # "ack" /\ "fail" \notin {"cron", "dead"} /\ NoCall \in CallStates
      BY NoCallTyped, Zenon DEF Stages
    <3>2. ProcsKept
      BY <1>1, <1>4, <1>7, <2>2, <3>1, GotoKept, Zenon
    <3> QED
      BY <1>1, <2>2, <3>2, GotoCron, Zenon
  <2> QED
    BY <2>1, <2>2, Zenon DEF Ack
<1>9. CronAlive'
  BY <1>1, <1>6, <1>7, <1>8, CronNow, CronThen, Zenon DEF Still
<1> QED
  BY <1>4, <1>6, <1>8, <1>9, Zenon DEF StepKept

\* rescheduleCronJob.
LEMMA RescheduleCronStep ==
    ASSUME WorkerInv, Still, NEW w \in Procs, NEW k \in 1 .. Len(tasks[w]), RescheduleCron(w, k)
    PROVE  StepKept
<1> DEFINE t == tasks[w][k]
<1>1. /\ Types /\ QueueInv /\ (\A v \in Procs : ProcOK(v)) /\ CronAlive /\ TaskOK(t)
      /\ t.all # {} /\ t.all \subseteq t.all
  BY TaskFacts, Zenon
<1>2. PICK c : c = t.call
  BY Zenon
<1>3. CallOK(c) /\ \E d \in t.all : d.id.job = "cron"
  BY <1>1, <1>2, Zenon DEF RescheduleCron, TaskOK
<1>4. c \in InFlight(c.n)
  <2>1. k \in DOMAIN tasks[w]
    BY <1>1 DEF Types
  <2>2. c \in {tasks[w][i].call : i \in DOMAIN tasks[w]}
    BY <1>2, <2>1, Zenon
  <2>3. c \in UNION {{tasks[v][i].call : i \in DOMAIN tasks[v]} : v \in Procs}
    BY <2>2, Zenon
  <2> QED
    BY <2>3, Zenon DEF InFlight
<1>5. ASSUME enqueueCronJob(c) PROVE QueueKept /\ NewFuture /\ CronQueued'
  BY <1>1, <1>3, <1>4, <1>5, ArrivalKept, Zenon
<1>6. ASSUME UNCHANGED queue PROVE QueueKept /\ NewFuture
  BY <1>1, <1>6, QueueStill, Zenon DEF NewFuture, queue
<1>7. QueueKept /\ NewFuture /\ acc' = acc
  BY <1>2, <1>5, <1>6, Zenon DEF RescheduleCron
<1>8. CASE Finish(w, k) /\ (enqueueCronJob(c) \/ gap' = TRUE)
  <2>1. ProcsKept
    BY <1>1, <1>7, <1>8, FinishKept, Zenon
  <2>2. CronAlive'
    BY <1>5, <1>8, <2>1, CronThen, Zenon
  <2> QED
    BY <1>7, <2>1, <2>2, Zenon DEF StepKept
<1>9. CASE Goto(w, k, "fail", t.all, NoCall)
  <2>1. "fail" \in Stages /\ "fail" # "ack" /\ "fail" \notin {"cron", "dead"} /\ NoCall \in CallStates
    BY NoCallTyped, Zenon DEF Stages
  <2>2. ProcsKept
    BY <1>1, <1>7, <1>9, <2>1, GotoKept, Zenon
  <2>3. CronInTask'
    BY <1>1, <1>3, <1>9, GotoCron, Zenon
  <2>4. CronAlive'
    BY <2>2, <2>3, CronThen, Zenon
  <2> QED
    BY <1>7, <2>2, <2>4, Zenon DEF StepKept
<1> QED
  BY <1>2, <1>8, <1>9, Zenon DEF RescheduleCron

\* A failed item is enqueued again or moved to the dead letter queue.
LEMMA RequeueKept ==
    ASSUME QueueInv, Still, NEW d \in Deliveries, DeliveryOK(d), Requeue(d)
    PROVE  /\ QueueKept /\ NewFuture /\ (d.id.job # "cron" => (CronQueued => CronQueued'))
           /\ Retries(d) => Present(d.id)'
<1>1. /\ d.id \in Ids /\ d.id.job \in jobs /\ Passed(d.id) /\ d.ver \in Nat /\ d.att \in 0 .. MaxAttempts - 1
      /\ items \in [Ids -> Entries \cup {Absent}]
  BY Zenon DEF DeliveryOK, Deliveries, catalog, QueueInv, Types
<1>2. CASE Retries(d) /\ enqueueItem(d.id, d.ver, d.att + 1, "delay")
  <2>1. d.att + 1 \in 0 .. MaxAttempts - 1 /\ "delay" \in Waits
    BY <1>1, <1>2, WorkerAssumption DEF Retries, Waits
  <2>2. QueueKept
    BY <1>1, <1>2, <2>1, EnqueueKept, Zenon
  <2>3. items'[d.id] # Absent /\ items'[d.id].waits = "delay" /\ \A i \in Ids : i # d.id => items'[i] = items[i]
    BY <1>1, <1>2, Zenon DEF enqueueItem, Absent
  <2>4. ASSUME NEW i \in Ids PROVE items'[i] = items[i] \/ (items'[i] # Absent /\ items'[i].waits # "future")
    <3>1. CASE i = d.id
      BY <2>3, <3>1, Zenon
    <3>2. CASE i # d.id
      BY <2>3, <3>2, Zenon
    <3> QED
      BY <3>1, <3>2, Zenon
  <2>5. NewFuture /\ (CronQueued => CronQueued') /\ Present(d.id)'
    BY <1>1, <2>3, <2>4, Zenon DEF NewFuture, CronQueued, Present
  <2> QED
    BY <2>2, <2>5, Zenon
<1>3. CASE ~Retries(d) /\ moveToDeadLetterQueue(d.id)
  <2>1. QueueKept
    BY <1>1, <1>3, DeadLetterKept, Zenon
  <2>2. items'[d.id] = Absent /\ \A i \in Ids : i # d.id => items'[i] = items[i]
    BY <1>1, <1>3, Zenon DEF moveToDeadLetterQueue
  <2>3. NewFuture /\ (d.id.job # "cron" => (CronQueued => CronQueued'))
    BY <2>2, Zenon DEF NewFuture, CronQueued, Present
  <2> QED
    BY <1>3, <2>1, <2>3, Zenon
<1> QED
  BY <1>2, <1>3, Zenon DEF Requeue

\* A failed item: retried, moved to the dead letter queue or given up.
LEMMA FailStep ==
    ASSUME WorkerInv, Still, NEW w \in Procs, NEW k \in 1 .. Len(tasks[w]), NEW d \in tasks[w][k].todo, Fail(w, k, d)
    PROVE  StepKept
<1> DEFINE t == tasks[w][k]
<1>1. /\ Types /\ QueueInv /\ (\A v \in Procs : ProcOK(v)) /\ CronAlive /\ TaskOK(t)
      /\ d \in t.all /\ d \in Deliveries /\ d.id \in Ids /\ DeliveryOK(d)
  BY TaskFacts, Zenon
<1>2. acc' = acc /\ t.at \in {"ack", "fail"}
  BY Zenon DEF Fail
<1>3. ASSUME UNCHANGED queue PROVE QueueKept /\ NewFuture /\ (CronQueued => CronQueued')
  BY <1>1, <1>3, QueueStill, Zenon DEF NewFuture, queue, CronQueued, Present
<1>4. QueueKept /\ NewFuture /\ (d.id.job # "cron" => (CronQueued => CronQueued'))
  BY <1>1, <1>3, RequeueKept, Zenon DEF Fail
<1>5. ASSUME gap => gap', NEW next \in {"end", "cron", "dead"}, next # "end" => d.id.job = "cron",
             Done(w, k, d, next), d.id.job = "cron" => gap' \/ CronQueued' \/ next # "end"
      PROVE  StepKept
  <2>1. ProcsKept
    BY <1>1, <1>2, <1>4, <1>5, DoneKept, Zenon
  <2>2. /\ d.id.job # "cron" => (CronInTask => CronInTask')
        /\ d.id.job = "cron" /\ next # "end" => CronInTask'
    BY <1>1, <1>5, DoneCron, Zenon
  <2>3. /\ CronAlive <=> ("cron" \in jobs /\ ~gap => CronQueued \/ CronInTask)
        /\ CronAlive' <=> ("cron" \in jobs' /\ ~gap' => CronQueued' \/ CronInTask')
        /\ jobs' = jobs
    BY <1>1, <2>1, CronNow, CronThen, Zenon DEF Still
  <2>4. CronAlive'
    BY <1>1, <1>4, <1>5, <2>2, <2>3, Zenon
  <2> QED
    BY <1>4, <2>1, <2>4, Zenon DEF StepKept
<1>6. CASE Requeue(d) /\ Done(w, k, d, AfterRequeue(d)) /\ gap' = gap
  <2>1. PICK next \in {"end", "cron", "dead"} : next = AfterRequeue(d) /\ (next # "end" <=> d.id.job = "cron" /\ ~Retries(d))
    BY Zenon DEF AfterRequeue
  <2>2. d.id.job = "cron" => CronQueued' \/ next # "end"
    BY <1>1, <1>6, <2>1, RequeueKept, Zenon DEF CronQueued
  <2> QED
    BY <1>5, <1>6, <2>1, <2>2, Zenon
<1>7. CASE Done(w, k, d, "end") /\ gap' = (gap \/ Orphaned(d)')
  <2>1. d.id.job = "cron" => gap' \/ CronQueued'
    BY <1>1, <1>7, Zenon DEF Orphaned, CronQueued
  <2>2. gap => gap'
    BY <1>7, Zenon
  <2> QED
    BY <1>5, <1>7, <2>1, <2>2, Zenon
<1> QED
  BY <1>6, <1>7, Zenon DEF Fail

\* The calls of setupCron.
LEMMA StartsKept ==
    ASSUME WorkerInv, Next, ~ClockAdvances
    PROVE  starting' \in [Procs -> CallStates] /\ StartsOK'
<1>1. /\ starting \in [Procs -> CallStates] /\ StartsOK /\ Types
  BY Zenon DEF WorkerInv, Types
<1>2. jobs' = jobs /\ unknown' = unknown /\ jitter' = jitter
  BY Zenon DEF Next, fixed
<1>3. ASSUME starting' = starting, clock' = clock
      PROVE  starting' \in [Procs -> CallStates] /\ StartsOK'
  BY <1>1, <1>2, <1>3, Zenon DEF StartsOK, CallOK
<1>4. ASSUME NEW w \in Procs, NEW c \in CallStates, c = NoCall \/ CallOK(c)',
             starting' = [starting EXCEPT ![w] = c], clock' = clock
      PROVE  starting' \in [Procs -> CallStates] /\ StartsOK'
  <2>1. starting' \in [Procs -> CallStates] /\ starting'[w] = c /\ \A v \in Procs : v # w => starting'[v] = starting[v]
    BY <1>1, <1>4, Zenon
  <2>2. ASSUME NEW v \in Procs, NEW e, e = starting'[v] PROVE e = NoCall \/ CallOK(e)'
    <3>1. CASE v = w
      <4>1. e = c
        BY <2>1, <2>2, <3>1, Zenon
      <4> QED
        BY <1>4, <4>1, Zenon
    <3>2. CASE v # w
      <4>1. e = starting[v]
        BY <2>1, <2>2, <3>2, Zenon
      <4>2. e = NoCall \/ CallOK(e)
        BY <1>1, <4>1, Zenon DEF StartsOK
      <4> QED
        BY <1>2, <1>4, <4>2, Zenon DEF CallOK
    <3> QED
      BY <3>1, <3>2, Zenon
  <2> QED
    BY <2>1, <2>2, Zenon DEF StartsOK
<1>5. ASSUME NEW w \in Procs, Start(w) PROVE starting' \in [Procs -> CallStates] /\ StartsOK'
  <2>1. clock' = clock /\ handled' = handled
    BY <1>5, Zenon DEF Start
  <2>2. CASE "cron" \in catalog
    <3>1. PICK c : c = cronCall(0) /\ starting' = [starting EXCEPT ![w] = c]
      BY <1>5, <2>2, Zenon DEF Start
    <3>2. 0 \in Nat /\ 0 <= Now
      BY <1>1, WorkerAssumption DEF Types, Now
    <3>3. Still /\ "cron" \in jobs
      BY <1>2, <2>1, <2>2, Zenon DEF Still, catalog
    <3>4. c \in CallStates /\ CallOK(c)'
      BY <1>1, <3>1, <3>2, <3>3, CronCall, Zenon
    <3> QED
      BY <1>4, <2>1, <3>1, <3>4, Zenon
  <2>3. CASE "cron" \notin catalog
    BY <1>4, <1>5, <2>1, <2>3, NoCallTyped, Zenon DEF Start
  <2> QED
    BY <2>2, <2>3, Zenon
<1>6. ASSUME NEW w \in Procs, SetupCron(w) \/ Crash(w) PROVE starting' \in [Procs -> CallStates] /\ StartsOK'
  BY <1>4, <1>6, NoCallTyped, Zenon DEF SetupCron, Crash
<1>7. ASSUME NEW i \in Ids, Enqueue(i) \/ Reschedule(i) \/ AckById(i) \/ Redrive(i) \/ Due(i)
      PROVE  starting' = starting /\ clock' = clock
  BY <1>7, Zenon DEF Enqueue, Reschedule, AckById, Redrive, Due, procs
<1>8. ASSUME NEW w \in Procs, Poll(w) \/ PollFails(w) \/ \E j \in BatchJobs : FlushTimedOut(w, j)
      PROVE  starting' = starting /\ clock' = clock
  BY <1>8, Zenon DEF Poll, PollFails, FlushTimedOut, procs
<1>9. ASSUME NEW w \in Procs, NEW k \in Active(w), TaskStep(w, k)
      PROVE  starting' = starting /\ clock' = clock
  BY <1>9, Zenon DEF TaskStep, Handle, Ack, RescheduleCron, Fail
<1> QED
  BY <1>3, <1>5, <1>6, <1>7, <1>8, <1>9, Zenon DEF Next, ProcStep

\* The other variables, and what only the handlers and the clock change.
LEMMA OthersTyped ==
    ASSUME WorkerInv, Next
    PROVE  /\ versions' \in Nat /\ up' \in [Procs -> BOOLEAN] /\ gap' \in BOOLEAN /\ calls' \in Nat /\ faults' \in Nat
           /\ UNCHANGED <<jobs, unknown, unhandled, until, jitter>>
<1> DEFINE good == versions' \in Nat /\ up' \in [Procs -> BOOLEAN] /\ gap' \in BOOLEAN /\ calls' \in Nat /\ faults' \in Nat
<1>1. versions \in Nat /\ up \in [Procs -> BOOLEAN] /\ gap \in BOOLEAN /\ calls \in Nat /\ faults \in Nat
  BY Zenon DEF WorkerInv, Types
<1>2. UNCHANGED <<jobs, unknown, unhandled, until, jitter>>
  BY Zenon DEF Next, fixed
<1>3. Fault => faults' \in Nat
  BY <1>1 DEF Fault
<1>4. Call => calls' \in Nat
  BY <1>1 DEF Call
<1>5. ASSUME NEW i \in Ids, Enqueue(i) \/ Reschedule(i) \/ AckById(i) \/ Redrive(i) \/ Due(i)
      PROVE  good
  <2>1. CASE Enqueue(i)
    <3>1. versions' \in Nat
      BY <1>1, <2>1 DEF Enqueue
    <3> QED
      BY <1>1, <2>1, <3>1, Zenon DEF Enqueue, procs
  <2>2. CASE Reschedule(i) \/ AckById(i) \/ Redrive(i) \/ Due(i)
    BY <1>1, <1>3, <1>4, <2>2, Zenon DEF Reschedule, AckById, Redrive, Due, procs
  <2> QED
    BY <1>5, <2>1, <2>2, Zenon
<1>6. CASE ClockAdvances
  BY <1>1, <1>2, <1>6, Zenon DEF ClockAdvances, procs
<1>7. ASSUME NEW w \in Procs,
             Start(w) \/ SetupCron(w) \/ Poll(w) \/ PollFails(w) \/ Crash(w) \/ \E j \in BatchJobs : FlushTimedOut(w, j)
      PROVE  good
  <2>1. CASE Start(w)
    BY <1>1, <2>1, Zenon DEF Start
  <2>2. CASE SetupCron(w)
    BY <1>1, <1>3, <2>2, Zenon DEF SetupCron, enqueueCronJob
  <2>3. CASE Poll(w) \/ \E j \in BatchJobs : FlushTimedOut(w, j)
    BY <1>1, <2>3, Zenon DEF Poll, FlushTimedOut
  <2>4. CASE PollFails(w)
    BY <1>1, <1>3, <2>4, Zenon DEF PollFails, procs
  <2>5. CASE Crash(w)
    <3>1. up' \in [Procs -> BOOLEAN] /\ gap' \in BOOLEAN
      BY <1>1, <2>5, Zenon DEF Crash
    <3> QED
      BY <1>1, <1>3, <2>5, <3>1, Zenon DEF Crash
  <2> QED
    BY <1>7, <2>1, <2>2, <2>3, <2>4, <2>5, Zenon
<1>8. ASSUME NEW w \in Procs, NEW k \in Active(w), TaskStep(w, k)
      PROVE  good
  <2>1. CASE Handle(w, k)
    <3>1. gap' \in BOOLEAN
      BY <1>1, <2>1, Zenon DEF Handle
    <3> QED
      BY <1>1, <2>1, <3>1, Zenon DEF Handle
  <2>2. ASSUME NEW d \in tasks[w][k].todo, Ack(w, k, d)
        PROVE  good
    BY <1>1, <1>3, <2>2, Zenon DEF Ack
  <2>3. CASE RescheduleCron(w, k)
    <3>1. gap' \in BOOLEAN
      BY <1>1, <2>3, Zenon DEF RescheduleCron, enqueueCronJob
    <3> QED
      BY <1>1, <1>3, <2>3, <3>1, Zenon DEF RescheduleCron
  <2>4. ASSUME NEW d \in tasks[w][k].todo, Fail(w, k, d)
        PROVE  good
    <3>1. gap' \in BOOLEAN
      BY <1>1, <2>4, Zenon DEF Fail
    <3> QED
      BY <1>1, <1>3, <2>4, <3>1, Zenon DEF Fail
  <2> QED
    BY <1>8, <2>1, <2>2, <2>3, <2>4, Zenon DEF TaskStep
<1> QED
  BY <1>1, <1>2, <1>5, <1>6, <1>7, <1>8, Zenon DEF Next, ProcStep

\* Every step but the clock's.
LEMMA EveryStep ==
    ASSUME WorkerInv, Next, ~ClockAdvances
    PROVE  Still /\ StepKept /\ handled' \subseteq Ids \X Nat /\ \A x \in handled' : Passed(x[1])
<1>1. jobs' = jobs /\ unknown' = unknown /\ jitter' = jitter
  BY Zenon DEF Next, fixed
<1>2. handled \subseteq Ids \X Nat /\ \A x \in handled : Passed(x[1])
  BY Zenon DEF WorkerInv, Types, HandledOK
<1>3. ASSUME NEW i \in Ids, Enqueue(i) \/ Reschedule(i) \/ AckById(i) \/ Redrive(i) \/ Due(i)
      PROVE  Still /\ StepKept /\ handled' = handled
  <2>1. Still /\ handled' = handled
    BY <1>1, <1>3, Zenon DEF Still, Enqueue, Reschedule, AckById, Redrive, Due
  <2> QED
    BY <1>3, <2>1, EnqueueStep, ClientStep, Zenon
<1>4. ASSUME NEW w \in Procs,
             Start(w) \/ SetupCron(w) \/ Poll(w) \/ PollFails(w) \/ Crash(w) \/ \E j \in BatchJobs : FlushTimedOut(w, j)
      PROVE  Still /\ StepKept /\ handled' = handled
  <2>1. clock' = clock /\ handled' = handled
    BY <1>4, Zenon DEF Start, SetupCron, Poll, PollFails, FlushTimedOut, Crash
  <2>2. Still
    BY <1>1, <2>1, Zenon DEF Still
  <2> QED
    BY <1>4, <2>1, <2>2, StartStep, SetupCronStep, LoopStep, CrashStep, Zenon
<1>5. ASSUME NEW w \in Procs, NEW k \in Active(w), TaskStep(w, k)
      PROVE  Still /\ StepKept /\ handled' \subseteq Ids \X Nat /\ \A x \in handled' : Passed(x[1])
  <2>1. k \in 1 .. Len(tasks[w])
    BY DEF Active, WorkerInv, Types
  <2>2. CASE Handle(w, k)
    <3>1. Still
      BY <1>1, <2>2, Zenon DEF Still, Handle
    <3> QED
      BY <2>1, <2>2, <3>1, HandleStep, Zenon
  <2>3. CASE RescheduleCron(w, k)
    <3>1. Still /\ handled' = handled
      BY <1>1, <2>3, Zenon DEF Still, RescheduleCron
    <3> QED
      BY <1>2, <2>1, <2>3, <3>1, RescheduleCronStep, Zenon
  <2>4. ASSUME NEW d \in tasks[w][k].todo, Ack(w, k, d) \/ Fail(w, k, d)
        PROVE  Still /\ StepKept /\ handled' = handled
    <3>1. Still /\ handled' = handled
      BY <1>1, <2>4, Zenon DEF Still, Ack, Fail
    <3> QED
      BY <2>1, <2>4, <3>1, AckStep, FailStep, Zenon
  <2> QED
    BY <1>2, <1>5, <2>2, <2>3, <2>4, Zenon DEF TaskStep
<1> QED
  BY <1>2, <1>3, <1>4, <1>5, Zenon DEF Next, ProcStep

\* The clock: what has passed has still passed.
LEMMA ClockStep ==
    ASSUME WorkerInv, Next, ClockAdvances
    PROVE  WorkerInv'
<1>1. /\ Types /\ (\A i \in Ids : IdOK(i)) /\ (\A w \in Procs : ProcOK(w))
      /\ StartsOK /\ HandledOK /\ NothingLost /\ CronAlive
  BY Zenon DEF WorkerInv
<1>2. /\ UNCHANGED <<jobs, unknown, unhandled, until, jitter, versions, items, dlq, accepted, dropped,
                     up, starting, acc, tasks, handled, gap, calls, faults>>
      /\ clock' = clock + 1 /\ clock < until
  BY Zenon DEF ClockAdvances, Next, fixed, queue, procs
<1>3. clock \in Nat /\ MaxClock \in Nat /\ until \in 0 .. MaxClock
  BY <1>1, WorkerAssumption DEF Types
<1>4. Types'
  <2>1. clock' \in 0 .. MaxClock
    BY <1>2, <1>3
  <2> QED
    BY <1>1, <1>2, <2>1, Zenon DEF Types
<1>5. ASSUME NEW i \in Ids, Passed(i) PROVE Passed(i)'
  <2>1. i.n \in Nat
    BY IdNumber, Zenon
  <2> QED
    BY <1>2, <1>3, <1>5, <2>1 DEF Passed, Now
<1>6. \A i \in Ids : IdOK(i)'
  BY <1>1, <1>2, <1>5, Zenon DEF IdOK, Present
<1>7. ASSUME NEW d \in Deliveries, DeliveryOK(d) PROVE DeliveryOK(d)'
  <2>1. d.id \in Ids
    BY Zenon DEF Deliveries
  <2>2. Passed(d.id)'
    BY <1>5, <1>7, <2>1, Zenon DEF DeliveryOK
  <2> QED
    BY <1>2, <1>7, <2>2, Zenon DEF DeliveryOK, Present, catalog
<1>8. ASSUME NEW c, CallOK(c) PROVE CallOK(c)'
  <2>1. c.seen \in Nat /\ c.seen <= clock + 1
    BY <1>3, <1>8 DEF CallOK
  <2> QED
    BY <1>2, <1>8, <2>1, Zenon DEF CallOK
<1>9. ASSUME NEW w \in Procs PROVE ProcOK(w)'
  <2>1. PICK a, q : a = acc[w] /\ q = tasks[w] /\ a \in AccStates /\ q \in Seq(TaskStates)
    BY <1>1, Zenon DEF Types
  <2>2. acc'[w] = a /\ tasks'[w] = q /\ AccOK(a) /\ RoomFor(Len(q), a)
    BY <1>1, <1>2, <2>1, Zenon DEF ProcOK
  <2>3. AccOK(a)'
    <3>1. ASSUME NEW j \in BatchJobs, NEW k \in 1 .. Len(a[j])
          PROVE  DeliveryOK(a[j][k])' /\ a[j][k].id.job = j
      <4>1. PICK s \in Seq(Deliveries) : s = a[j]
        BY <2>1, Zenon DEF AccStates
      <4>2. s[k] \in Deliveries
        BY <3>1, <4>1
      <4>3. PICK d \in Deliveries : d = a[j][k]
        BY <4>1, <4>2, Zenon
      <4>4. DeliveryOK(d) /\ d.id.job = j
        BY <2>2, <4>3, Zenon DEF AccOK
      <4> QED
        BY <1>7, <4>3, <4>4, Zenon
    <3> QED
      BY <2>2, <3>1, Zenon DEF AccOK
  <2>4. ASSUME NEW k \in 1 .. Len(q) PROVE TaskOK(q[k])'
    <3>1. PICK t : t = q[k]
      BY Zenon
    <3>2. t \in TaskStates /\ TaskOK(t)
      BY <1>1, <2>1, <3>1 DEF ProcOK
    <3>3. \A d \in t.all : DeliveryOK(d)'
      BY <1>7, <3>2, Zenon DEF TaskOK, TaskStates
    <3>4. TaskOK(t)'
      BY <1>2, <1>8, <3>2, <3>3, Zenon DEF TaskOK
    <3> QED
      BY <3>1, <3>4, Zenon
  <2>5. RoomFor(Len(q), a)'
    BY <1>2, <2>2, Zenon DEF RoomFor, Filled, catalog
  <2> QED
    BY <2>2, <2>3, <2>4, <2>5, ProcBecomes, Zenon
<1>10. HandledOK'
  BY <1>1, <1>2, <1>5, Zenon DEF HandledOK, Types
<1>11. NothingLost' /\ CronAlive'
  BY <1>1, <1>2, Zenon DEF NothingLost, CronAlive, Present, Payload
<1>12. StartsOK'
  BY <1>1, <1>2, <1>8, Zenon DEF StartsOK
<1> QED
  BY <1>4, <1>6, <1>9, <1>10, <1>11, <1>12, Zenon DEF WorkerInv

\* The inductive invariant holds at the start.
LEMMA WorkerInit ==
    ASSUME Init
    PROVE  WorkerInv
<1>1. PICK s \in Scenarios :
        /\ jobs = s.jobs /\ unknown = s.unknown /\ unhandled = s.unhandled /\ jitter = s.jitter /\ until = s.until
        /\ versions = s.versions /\ calls = s.calls /\ faults = s.faults
  BY Zenon DEF Init
<1>2. /\ s.jobs \in SUBSET ({"plain", "cron"} \cup BatchJobs) /\ s.unknown \in SUBSET ({"plain"} \cup BatchJobs)
      /\ s.unhandled \in SUBSET ({"plain", "cron"} \cup BatchJobs) /\ s.until \in 0 .. MaxClock
      /\ s.jitter \in BOOLEAN /\ s.versions \in Nat /\ s.calls \in Nat /\ s.faults \in Nat
  BY WorkerAssumption, Zenon
<1>3. PICK a, q : a = [j \in BatchJobs |-> << >>] /\ q = << >>
  BY Zenon
<1>4. /\ a \in AccStates /\ AccOK(a) /\ RoomFor(0, a) /\ q \in Seq(TaskStates) /\ Len(q) = 0
      /\ \A k \in 1 .. Len(q) : TaskOK(q[k])
  <2>1. q \in Seq(TaskStates) /\ Len(q) = 0 /\ \A k \in 1 .. Len(q) : TaskOK(q[k])
    BY <1>3
  <2> QED
    BY <1>3, <2>1, NothingAccumulated, Zenon
<1>5. /\ acc = [w \in Procs |-> a] /\ tasks = [w \in Procs |-> q] /\ starting = [w \in Procs |-> NoCall]
      /\ items = [i \in Ids |-> Absent] /\ dlq = [i \in Ids |-> Absent] /\ up = [w \in Procs |-> FALSE]
      /\ clock = 0 /\ accepted = {} /\ handled = {} /\ gap = TRUE
  BY <1>3, Zenon DEF Init
<1>7. Types
  <2>1. clock \in 0 .. MaxClock
    BY <1>5, WorkerAssumption
  <2>2. /\ acc \in [Procs -> AccStates] /\ tasks \in [Procs -> Seq(TaskStates)] /\ starting \in [Procs -> CallStates]
        /\ items \in [Ids -> Entries \cup {Absent}] /\ dlq \in [Ids -> Entries \cup {Absent}] /\ up \in [Procs -> BOOLEAN]
    BY <1>4, <1>5, NoCallTyped, Zenon
  <2> QED
    BY <1>1, <1>2, <1>5, <2>1, <2>2, Zenon DEF Types
<1>8. (\A i \in Ids : IdOK(i)) /\ HandledOK /\ NothingLost /\ StartsOK
  BY <1>5, Zenon DEF IdOK, HandledOK, NothingLost, Present, StartsOK
<1>9. \A w \in Procs : ProcOK(w)
  BY <1>4, <1>5, Zenon DEF ProcOK
<1>6. CronAlive
  BY Zenon DEF Init, CronAlive
<1> QED
  BY <1>6, <1>7, <1>8, <1>9, Zenon DEF WorkerInv

\* Every step preserves it.
LEMMA WorkerNext ==
    ASSUME WorkerInv, [Next]_vars
    PROVE  WorkerInv'
<1>1. CASE Next /\ ClockAdvances
  BY <1>1, ClockStep, Zenon
<1>2. CASE Next /\ ~ClockAdvances
  <2>1. Still /\ StepKept /\ handled' \subseteq Ids \X Nat /\ \A x \in handled' : Passed(x[1])
    BY <1>2, EveryStep, Zenon
  <2>2. QueueKept /\ ProcsKept /\ CronAlive'
    BY <2>1, Zenon DEF StepKept
  <2>3. Types'
    BY <1>2, <2>1, <2>2, OthersTyped, StartsKept, Zenon DEF WorkerInv, Types, QueueKept, ProcsKept, Still
  <2>4. HandledOK'
    BY <2>1, Zenon DEF HandledOK, Passed, Now, Still
  <2>5. NothingLost'
    <3>1. accepted' \subseteq Ids \X Nat /\ \A x \in accepted' : Safe(x)'
      BY <2>2, Zenon DEF QueueKept
    <3>2. (accepted \subseteq Ids \X Nat => (NothingLost <=> \A x \in accepted : Safe(x)))'
      BY EachIsSafe, PTL
    <3> QED
      BY <3>1, <3>2, Zenon
  <2> QED
    BY <1>2, <2>2, <2>3, <2>4, <2>5, StartsKept, Zenon DEF WorkerInv, QueueKept, ProcsKept
<1>3. CASE UNCHANGED vars
  <2>1. /\ UNCHANGED <<jobs, unknown, unhandled, until, jitter, versions, items, dlq, accepted, dropped,
                       up, starting, acc, tasks, clock, handled, gap, calls, faults>>
        /\ Still /\ UNCHANGED queue
    BY <1>3, Zenon DEF vars, fixed, queue, procs, Still
  <2>2. QueueKept
    BY <2>1, QueuePart, QueueStill, Zenon
  <2>3. ProcsKept
    BY <2>1, <2>2, ProcsStill, Zenon DEF WorkerInv
  <2>4. Types'
    BY <2>1, Zenon DEF WorkerInv, Types
  <2>5. HandledOK' /\ NothingLost' /\ CronAlive' /\ StartsOK'
    BY <2>1, Zenon DEF WorkerInv, HandledOK, Passed, Now, NothingLost, CronAlive, Present, Payload, StartsOK, CallOK
  <2> QED
    BY <2>2, <2>3, <2>4, <2>5, Zenon DEF WorkerInv, QueueKept, ProcsKept
<1> QED
  BY <1>1, <1>2, <1>3, Zenon

----------------------------------------------------------------------------
(* The theorems.                                                           *)

\* The queue, the processes and the record of what was enqueued and handled
\* stay consistent through every script, handler outcome, crash and timeout.
THEOREM WorkerInductive == Spec => []WorkerInv
<1>1. Init => WorkerInv
  BY WorkerInit, Zenon
<1>2. WorkerInv /\ [Next]_vars => WorkerInv'
  BY WorkerNext, Zenon
<1> QED
  BY <1>1, <1>2, PTL DEF Spec

\* Attempt numbers stay below retry.maxAttempts wherever an item is, and a task
\* always has an item to work on.
THEOREM WorkerTypes == Spec => []WorkerTypeOK
<1>1. WorkerInv => WorkerTypeOK
  <2> SUFFICES ASSUME WorkerInv PROVE WorkerTypeOK
    BY Zenon
  <2>1. /\ \A i \in Ids : items[i] = Absent \/ items[i] \in Entries
        /\ \A i \in Ids : dlq[i] = Absent \/ dlq[i] \in Entries
        /\ clock \in 0 .. MaxClock
    BY Zenon DEF WorkerInv, Types
  <2>2. ASSUME NEW w \in Procs
        PROVE  /\ Accumulated(w) \subseteq Deliveries
               /\ \A k \in DOMAIN tasks[w] :
                    /\ tasks[w][k].at \in {"run", "ack", "cron", "dead", "fail"}
                    /\ tasks[w][k].all \subseteq Deliveries
                    /\ tasks[w][k].todo \subseteq tasks[w][k].all /\ tasks[w][k].todo # {}
    <3>1. acc[w] \in AccStates /\ tasks[w] \in Seq(TaskStates)
      BY Zenon DEF WorkerInv, Types
    <3>2. ASSUME NEW k \in DOMAIN tasks[w]
          PROVE  /\ tasks[w][k].at \in {"run", "ack", "cron", "dead", "fail"}
                 /\ tasks[w][k].all \subseteq Deliveries
                 /\ tasks[w][k].todo \subseteq tasks[w][k].all /\ tasks[w][k].todo # {}
      <4>1. k \in 1 .. Len(tasks[w]) /\ tasks[w][k] \in TaskStates
        BY <3>1
      <4>2. TaskOK(tasks[w][k])
        BY <4>1, Zenon DEF WorkerInv, ProcOK
      <4> QED
        BY <4>1, <4>2, Zenon DEF TaskStates, Stages, TaskOK
    <3>3. Accumulated(w) \subseteq Deliveries
      <4>1. ASSUME NEW j \in BatchJobs PROVE Range(acc[w][j]) \subseteq Deliveries
        <5>1. PICK s \in Seq(Deliveries) : s = acc[w][j]
          BY <3>1, Zenon DEF AccStates
        <5>2. Range(s) \subseteq Deliveries
          BY <5>1 DEF Range
        <5> QED
          BY <5>1, <5>2, Zenon
      <4> QED
        BY <4>1, Zenon DEF Accumulated
    <3> QED
      BY <3>2, <3>3, Zenon
  <2> QED
    BY <2>1, <2>2, Zenon DEF WorkerTypeOK
<1> QED
  BY <1>1, WorkerInductive, PTL

\* No payload is lost: until a handler has succeeded on it, or a client
\* overwrote or withdrew it, it is in the queue or in the dead letter queue.
THEOREM QueueLosesNothing == Spec => []NothingLost
<1>1. WorkerInv => NothingLost
  BY Zenon DEF WorkerInv
<1> QED
  BY <1>1, WorkerInductive, PTL

\* The cron chain goes on through success, retries, lost replies and dead letter
\* moves, unless a process gave up a cron delivery whose item was gone.
THEOREM CronGoesOn == Spec => []CronAlive
<1>1. WorkerInv => CronAlive
  BY Zenon DEF WorkerInv
<1> QED
  BY <1>1, WorkerInductive, PTL

\* The limiter holds at most its limit and one batch for each batch job of the
\* catalog: accumulators are filled only by polls that fit the limit, and each
\* can be flushed once past it.
THEOREM LimiterHolds == Spec => []LimiterBounded
<1>1. WorkerInv => LimiterBounded
  <2> SUFFICES ASSUME WorkerInv, NEW w \in Procs PROVE Len(tasks[w]) <= Limit + Cardinality(catalog \cap BatchJobs)
    BY Zenon DEF LimiterBounded
  <2>1. Types /\ ProcOK(w)
    BY Zenon DEF WorkerInv
  <2>2. RoomFor(Len(tasks[w]), acc[w])
    BY <2>1, Zenon DEF ProcOK
  <2>3. IsFiniteSet(BatchJobs) /\ Filled(acc[w]) \in SUBSET BatchJobs /\ catalog \cap BatchJobs \in SUBSET BatchJobs
    BY WorkerAssumption, Zenon DEF Filled
  <2>4. IsFiniteSet(Filled(acc[w])) /\ IsFiniteSet(catalog \cap BatchJobs)
    BY <2>3, FS_Subset, Zenon
  <2>5. /\ Cardinality(Filled(acc[w])) \in Nat /\ Cardinality(catalog \cap BatchJobs) \in Nat
        /\ Limit \in Nat /\ Len(tasks[w]) \in Nat
    BY <2>1, <2>4, FS_CardinalityType, WorkerAssumption DEF Types
  <2> QED
    BY <2>2, <2>5 DEF RoomFor
<1> QED
  BY <1>1, WorkerInductive, PTL

\* Without jitter no occurrence of a cron job is enqueued once it was handled,
\* whichever processes start, reschedule or fail at the same time, except by a
\* call that an occurrence overtook on its way to Redis.
THEOREM CronOnce == Spec => CronOncePerOccurrence
<1> DEFINE A == \A i \in Ids :
                  /\ i.job = "cron" /\ ~jitter /\ <<i, 0>> \in handled
                  /\ items[i] = Absent /\ items'[i] # Absent /\ items'[i].waits = "future"
                  => \E c \in InFlight(i.n) : Overtaken(c)
<1>1. WorkerInv /\ [Next]_vars => [A]_vars
  <2> SUFFICES ASSUME WorkerInv, Next, NEW i \in Ids, i.job = "cron", ~jitter, <<i, 0>> \in handled,
                      items[i] = Absent, items'[i] # Absent, items'[i].waits = "future"
               PROVE  \E c \in InFlight(i.n) : Overtaken(c)
    BY Zenon
  <2>1. i.n <= clock /\ clock \in Nat /\ i.n \in Nat
    <3>1. clock \in Nat /\ i.n \in Nat
      BY WorkerAssumption, IdNumber DEF WorkerInv, Types
    <3>2. PICK x \in handled : x = <<i, 0>>
      BY Zenon
    <3>3. Passed(x[1]) /\ x[1] = i
      BY <3>2, Zenon DEF WorkerInv, HandledOK
    <3>4. Passed(i)
      BY <3>3, Zenon
    <3> QED
      BY <3>1, <3>4, Zenon DEF Passed, Now
  <2>2. CASE ClockAdvances
    BY <2>2, Zenon DEF ClockAdvances, queue
  <2>3. CASE ~ClockAdvances
    <3>1. NewFuture
      BY <2>3, EveryStep, Zenon DEF StepKept
    <3>2. i.n > clock \/ \E c \in InFlight(i.n) : Overtaken(c)
      BY <3>1, Zenon DEF NewFuture
    <3>3. ~(i.n > clock)
      BY <2>1
    <3> QED
      BY <3>2, <3>3, Zenon
  <2> QED
    BY <2>2, <2>3, Zenon
<1> QED
  BY <1>1, WorkerInductive, PTL DEF Spec, CronOncePerOccurrence
=============================================================================
