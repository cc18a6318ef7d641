# Platos: a TLA+ verification project

Platos is an agent platform: a NestJS service (`apps/agent`) that runs
conversation turns of LLM agents against Postgres, Redis, ClickHouse and an
object store, a Remix dashboard (`apps/webapp`), client and tool SDKs
(`packages/platos-*`, `packages/platools-*`) and a fork of a task runner
(`packages/core`, `internal-packages/run-engine`, ...). This directory models
the parts of `apps/agent`, and the queue worker of `packages/redis-worker`, where
several processes, timers, stores or retries meet, checks them with TLC on small
instances and proves every safety property of those runs with TLAPS.

## 1. The system

| Part | State | Operations | What makes it hard |
|---|---|---|---|
| turn mutex (`agent-runtime/agent-task.service.ts`, `acquireTurnMutex`) | Redis key with a TTL, interval timer, in-flight renewal | acquire, renew, release | renewals lost, late or unanswered; a stale owner; a dead one |
| turn lifecycle (`executeStreamingTurn`) | idempotency key, mutex, Turn rows, daily reservation counters, the generator's locals | reserve, open, stream, persist, bill, finish, catch, finally | three kinds of abnormal exit (throw, consumer closes the generator, process dies), retries with one key, sub-agents that outlive the stream, midnight |
| hard erasure (`privacy/`) | operation row with lease, schedule, receipt and resume plan; the subject's data in four stores; erased-subject register; legal-hold register | request, operator retry, resume, drain, sweep, persist | overlapping passes, expired leases, partial store failures, discovery data destroyed by the sweep itself, holds that come and go, turns in flight |
| observability outbox (`observability/`) | outbox rows, ClickHouse | enqueue in the turn's transaction, probe, claim, deliver, settle, prune | claims without a lease, redelivery, delivery of an erased subject |
| channels and turn dispatch (`channels/`, `turn-dispatch.service.ts`) | inbox row with lease and stages, installation grant, session runs, the reply | admit, claim, check the link, run a turn (in process or on a session), post, complete, sweep, rotate, install, uninstall | stalled leases, ambiguous sends, repeated posts, single-use refresh tokens |
| compaction and history (`compactIfNeeded`, `loadHistory`) | compaction state, cursor, summary, window | dispatch, claim, summarise, advance, load | overlapping compactions without identity; state read twice |
| approvals (`monitoring/approvals.service.ts` and its callers) | ledger rows, a Redis list per row, waiting calls | open, wait, answer three ways, time out, expire, consume | answers crossing deadlines, duplicate callers, repeated tries |
| redis worker (`packages/redis-worker`) | sorted set, item hash, dead letters, limiter and batch accumulators | enqueue, dequeue, acknowledge, retry, redrive, reschedule | visibility timeouts, overlapping deliveries, partial batches |
| the rest | see `components` in PROJECT.json | request/response, adapters, user interface, upstream task runner | not modelled; the reason is with each component |

How they interact: a request arrives through dispatch (from an API client or a
channel event), runs one turn under the
thread's mutex, writes its Turn row and (in the same transaction) an outbox
row, and adds to Redis cost counters. Erasure removes a subject's rows from all
of these and relies on a register that turn admission and the outbox's drain
consult. Beside turns, compactions shorten what later turns read, and tool calls
may wait for a human.

## 2. Modules

| Module | Contents |
|---|---|
| `ExclusiveUse` | abstract specification: a resource has at most one user |
| `TurnMutex` | the lease and its heartbeat against a clock; refines `ExclusiveUse` |
| `TurnMutex_proofs` | theorems about `TurnMutex` |
| `TurnLifecycle`, `MCTurnLifecycle` | concurrent calls of `executeStreamingTurn`; refines `ExclusiveUse` per thread |
| `TurnLifecycle_proofs` | theorems about `TurnLifecycle` |
| `Erasure`, `MCErasure` | one erasure operation and its passes |
| `Erasure_proofs` | theorems about `Erasure` |
| `ObservabilityOutbox`, `MCObservabilityOutbox` | the outbox, its drains, the sink, and an erasure beside them |
| `ObservabilityOutbox_proofs` | theorems about `ObservabilityOutbox` |
| `ChannelGrant` | one installation's grant and its rotation |
| `ChannelEvents`, `MCChannelEvents` | one event from admission to reply; extends `ChannelGrant` |
| `Channels_proofs` | theorems about `ChannelEvents` and the grant it uses |
| `Compaction` | a thread's turns, history and compactions |
| `Compaction_proofs` | theorems about `Compaction` |
| `Approvals` | the approval ledger, waiting calls and operators |
| `Approvals_proofs` | theorems about `Approvals` |
| `MCBesideTurn` | `Approvals` and `Compaction`, one busy and the other at rest |
| `RedisWorker`, `MCRedisWorker` | the queue's scripts and the worker processes |
| `RedisWorker_proofs` | theorems about `RedisWorker` |

Definitions with a name of the form `X_Y` beside `X` are plausible bugs of `X`; no
specification uses them. Each module states the types of its variables (`TypeOK`,
`ThreadTypeOK`, `WorkerTypeOK`). `Compaction` names its state and specification after
the thread (`threadVars`, `ThreadInit`, `ThreadNext`), so that one module can extend it
and `Approvals`.

### TurnMutex

One tick is `TURN_MUTEX_HEARTBEAT_MS`; the lease lives `LeaseBeats` ticks (30 s /
10 s = 3 in the code). `holder`/`ttl` are the Redis key, the other variables are
each caller's closure (`stopped` is `~beating`, `renewalInFlight` is
`renewal # "none"`). A renewal is three steps: the timer sends it, the Lua script
runs in Redis, the answer is read. Either half may be lost. `mayStall` is chosen
once per behaviour: if it is false, everything due in a period settles within it.

### TurnLifecycle

One step per stretch of code between two awaits or yields that another party
can observe. `pc` runs through the try block, the catch block and the finally
block. The consumer may close the generator only at a yield, which skips the
catch block. `GetThread` and the Redis calls of `ReserveKey` and `AcquireMutex`
stand before the try block, so a throw there runs no cleanup. A write that throws
may have committed. Three things are chosen once per behaviour: `mayLapse` allows
leases to lapse under live owners (if it is false the lease behaves as `TurnMutex`
proves it does under timely heartbeats), `delegates` lets the model call sub-agents,
and `lastDay` bounds the midnights. A sub-agent's usage is recorded when its own
model call ends (`delegating`, `delegated`), during the stream or, when the stream
throws or is closed, after it; it has no idempotency key. The reservation counters
are one per day: `beginReservation` and `settleReservation` each take the day they
run on. `missed` and `crossed` remember who lost a counter update or was passed by
midnight. Abstractions: Turn rows carry owner, status and key; the rest of the model
loop is one step; the reservation is counted in estimates.

### Erasure

One operation on one subject. A request checks first (`RequestErasure`) and creates
its row later (`CreateOperation`), so that two requests can race. The row's columns are variables; each pass has a
program counter, the receipt it works on (`view`) and the stores it has still to
sweep. The subject's data in a store is a set of *kinds* of row, told apart by how
a pass can find them again (through the plan, only through the external id,
through a thread or attachment newer than the plan). `Addressable` says what an
executor finds, `Reports` which outcomes it may report for what it deleted.
`slow`, chosen once per behaviour, allows a sweep to outlast its lease and a drain
to take an already expired lease.

### ObservabilityOutbox

A step is one statement, one insert or the probe of the sink's health that a drain
begins with (`Health`). `out` holds the outbox rows, `dr` each
drain with its page of rows (`left`), the retry counts as it claimed them (`seen`)
and whether it read the register before the seal (`blind`). The sink has two tables,
the turn and what hangs off it, because they are inserted one after the other. The
erasure is the seal, the sweep of the sink and the cascade that removes the rows.

### ChannelGrant and ChannelEvents

`inst` is the installation row with its stored grant; `ref` is each process's call
of `getFreshBotToken`. `spent` is Slack's side: the refresh tokens it has consumed.
`row` is the inbox row, `wk` each process's `processInbox`, `turn` the Turn row under
the event's idempotency key and `turnBy` its executor, which may be a session that
outlives the caller. With `gated` the app requires its authors to be linked: an attempt
that finds the author unlinked posts the request to link instead of a turn's answer,
and another attempt may find otherwise. `shown` is what Slack shows; it shows one
message per `client_msg_id` (`chatPostMessage`, external). `skipped` marks an event that
an attempt completed without an answer, because its installation was revoked or no agent
is bound. Faults are charged to one budget, stalled leases included.

### Compaction

Turns are sequence numbers, and a summary is the sequence of turns it tells of, so
"nothing lost, nothing twice, in order" is an equation: `Told(rows, a, b)` is the
sequence of the SUCCEEDED turns after `a` and up to `b`, which is what `loadHistory`'s
query returns after a cursor and what a summary up to `b` should tell. A request reads the thread
before it has the mutex (`ahead`) and the cursor again in `loadHistory`. A failed
statement may have been executed. Turns end SUCCEEDED or FAILED.

### Approvals

A caller is a dispatched tool call (duplicates share a row), a `request_approval` or
`cancel_run` call (a row of its own) or one try of an MCP client, with a tool and
arguments; a try may name any row, whoever opened it. Each operator gives one decision,
over HTTP, a socket or the `approvals.resolve` tool. Two marks say what takes guarantees
away from a row: `socket`, it was answered over a socket; `loose`, MCP tries overlapped
on it, or its execution or the mark of it failed. `box` has one Redis list for each row
of the ledger.

### RedisWorker

The sorted set and the hash are one function, since each Lua script writes both; a
score is the reason the item waits (`no`, `hidden` in flight, `delay`, `future`). A
delivery remembers the payload, attempt and deduplication key it was dequeued with.
Keys are renamed so that only those in use are told apart. A poll takes due items in
any order, as many as it asks for or all there are (`Dequeues`), and routes those of
batch jobs to the accumulator of their job in any order (`Orders`). Jobs may be `unknown`
to the catalog (or fail its schema), which `dequeue` skips, or `unhandled`, whose tasks
end at once. The call that enqueues a cron occurrence computes it first and reaches Redis
in a later step (`call` of a task, `starting` of a process); occurrences may pass between
the two. One worker loop per process.

## 3. Runs

| Run | Bounds | Shows |
|---|---|---|
| `mutex` | 3 callers, lease of 3 beats, 1 lost renewal in a row | exclusion and `HeldWhileRunning` when timely; `DeadLeaseLapses` always |
| `turn_serial` | 3 requests on one thread, two share a key | serialization, `HistoryComplete`, accounting of open turns, lock ownership, rows only advance |
| `turn_adverse` | a request and its retry, keys expire, swallowed errors happen; leases lapse and sub-agents work, or leases are healthy and midnight passes | `OneChargePerKey`, `BilledIsPersisted`, `ReservationsReturned`, and that threads unlock |
| `turn_retry_lockout` | a request and its retry | violation: see below |
| `erasure_passes` | 2 passes, 4 stores, 1 fault, 1 crash, 2 retries | a completed receipt is true; one sweeper; a signed-off receipt is final |
| `erasure_held` | 2 passes, 3 stores, 1 fault, 2 retries; a hold and a crash, or late rows and a turn | the seal precedes every sweep; the queue lets go |
| `erasure_in_flight` | 2 passes, a turn in flight | violation: see below |
| `erasure_lifted` | 2 passes, a hold by handle | violation: see below |
| `outbox` | 2 drains, 2 turns (one of the subject's), pages of 2, 2 tries, up to 3 faults | `NeverDropped`, `SealStopsDelivery`, `EventuallySettled` |
| `channels` | 2 processes, 1 event, 2 faults, 3 grants, 2 installs | `OneTurn`, `OneReply`, `CompletedIsAnswered`, `StagesFenced`, `GrantSpentOnce`, `EventEnds` |
| `redis_worker` | 2 processes, limiter of 1, 2 batch jobs with batches of 2, 2 attempts, 2 occurrences pass, up to 2 faults, an unknown or an unhandled job | `NothingLost`, `CronAlive`, `CronOncePerOccurrence`, `LimiterBounded`, `Settles` |
| `beside_turn` | 3 compactions, up to 13 turns, limit 2, threshold 6, up to 2 faults, a fork; or 2 callers, 2 operators, 1 fault, same and other tools and arguments | `SummaryExact`, `ContextExact`, `TailStaysLive`, `Released`; `RunAsRecorded`, `OncePerApproval`, `DecisionStands`, `ToldIsRun`, `Settled` |

Why the bounds suffice: three callers give an owner, a stale owner and a
newcomer; two requests with one key and a third without give every interference
on one thread (threads share nothing but counters); two passes give every
overlap of a pass with its successor, and after one fault and one crash a third
pass meets the states a fourth would. Two drains, processes or callers give every
overlap of one with another; three compactions are needed because one must release
a second while a third starts. Twelve turns (thirteen where nothing fails) allow a
second compaction after the first, with a turn between them. The last four runs choose a scenario in `Init` (which
jobs, which kind of event, how many faults), so that each pays only for its own
interleavings. Every bound is a named constant. `CHECK_DEADLOCK FALSE`: requests,
turns, events and operations end.

Fairness: `TurnMutex`: timers fire and round trips settle, time passes; nothing
makes an owner release. `TurnLifecycle`: Node resumes every pending continuation
and every awaited call settles (turns have a timeout), Redis expires keys.
`Erasure`: a pass that started goes on (store calls have timeouts), the cron a
deployment points at `resume-due` fires, leases and backoffs run out; only
`OperatorSpec` adds an operator who keeps retrying. `ObservabilityOutbox`: the drain's
interval fires and a drain that runs goes on; a retry's delay runs out.
`ChannelEvents`: processes go on, the 5 s recovery sweep fires, leases run out, a
dispatched session run starts. `Compaction` and `Approvals`: pending calls settle,
the blocking pop has a timeout, the expiry sweep runs. `RedisWorker`: loops poll,
handlers end, visibility timeouts and delays pass; strongly fair for the item a poll
takes, since `dequeueItems` goes by score and gives every item it takes a later one, so
that items nobody can serve do not keep the others out for ever. Faults are bounded, so liveness
says what happens once they cease; nothing but `OperatorSpec` makes a client or an
operator act. Where one weak fairness condition covers several actors, each of their
steps happens a bounded number of times, so none can starve another.

### Divergences the violation runs show

* `turn_retry_lockout`: the streaming guide lets a client that lost its stream
  retry only with the same idempotency key. A client that disconnects mid-stream
  skips the catch block; the Turn row stays ACTIVE, keeps its idempotency key,
  and every retry with that key fails on the unique constraint.
* `erasure_in_flight`: sealing first is said to close the mid-sweep window. A
  turn admitted before the seal records usage after the Redis sweep, and the
  receipt completes with the subject's cost key present.
* `erasure_lifted`: a hold recorded on the row is never cleared, so "retry
  blocked until released" is a permanent block.

Met on the way, outside the runs: the idempotency reservation is deleted when
its turn ends, on success too, so a duplicate one moment later is refused by the
unique constraint and not by `already_processed`; a failure of
`getOrCreateThread` keeps the reservation for its 600 s; a row created between
plan and seal can outlive its Redis keys' discoverability (`LateWrites`); a drain
computes lease expiries from the time it began, so a late operation gets an
expired lease (`slow`); `persist` writes back the hold column as its pass read it;
handle-based holds stop matching once Postgres was swept.

## 4. Theorems

A theorem holds for every value of the constants that satisfies the named assumptions
of the module: any number of callers, requests, passes, drains, processes or
operators, and any of the bounds the runs need. Each module proves an inductive
invariant, one lemma per action or group of actions, and derives the properties from
it. Lemmas that say once what a step changes (`Flow`, `EventFlow`, `GotoEffect`, ...)
keep the invariants' proofs short.

**`TurnMutex_proofs`** (`LeaseAssumption`).

* `TypeCorrect`: `TypeOK` alone is not inductive: the clock subtracts from `ttl`, so
  the proof carries `KeyLives` (a stored key has life left).
* `LeaseHolds`: `[]HeldWhileRunning`. The invariant `HInv` says how much life a running
  turn's lease has left: its full length less the renewals missed, less one more period
  while this period's renewal is outstanding. With `SurvivesMisses` that never reaches
  zero.
* `LeaseIsMutex`: the lease refines `ExclusiveUse` (acquire enters, release and crash
  leave, all else stutters).

**`TurnLifecycle_proofs`** (`RequestAssumption`, `SwitchAssumption`).

* The row invariant `RInv`: a request's locals agree with its Turn row (none before it
  is opened, an open one from the stream on, a SUCCEEDED one once finalized), every row
  has one owner, who may not have learned of it, and a key has one row.
* `PersistedBeforeBilled` and `ChargedOncePerKey` follow from it in every environment,
  lapsing leases, expired reservations and lost replies included: it is the unique
  constraint, not the Redis reservation, that leaves one attempt per key unfailed. An
  attempt that failed may have been charged for its sub-agents.
* `HistoryIsComplete` and `TurnsAreSerialized` add `SInv`: unless leases lapse, the
  request at work has the lock, its row is the thread's last, and what it read is what
  the thread holds. The second is the refinement of `ExclusiveUse`, per thread and step
  by step.
* `ActiveAccounted` adds `AInv`: a request leaves its try block with its row settled,
  unless its consumer closed it, the reply that told of the row was lost, or the error of
  the settling write was swallowed.
* `RowsAdvance`, `OwnerReleases`: action properties, from `RInv`.
* `ReservationsAllReturned`: as long as nobody died with a reservation, lost a counter
  update or was passed by midnight, today's counter is the number of requests that hold
  a reservation, and every other day's is zero (`VInv`). `IsCount` says so with a numbering of those requests, to which a
  step adds one or from which it takes one; the set of all requests may be infinite.

**`Erasure_proofs`** (`ErasureAssumption`). `EInv` joins five parts: types; no pass gets
past its check without a plan; unless passes are slow, the one at work has the lease;
whoever sweeps a known subject has sealed; and a store that any receipt calls settled
is empty.

* `CompletedIsGone`: a completed receipt is true. Its hypotheses `~LateWrites` and
  `~TurnsInFlight` are about the environment and the code does not enforce them;
  `erasure_in_flight` shows what happens without the second. Failures, crashes, holds
  and slow passes are all allowed.
* `SweepsDoNotOverlap`, `BarrierPrecedesSweep`, `SignedOffIsFinal`.

**`Channels_proofs`** (`InboxAssumption`, `GrantAssumption`). `ChannelInv` has two halves
that do not depend on each other. For the grant, no refresh token that can still be
presented or stored is consumed or held twice (`TokenInv`). For the event, the turn is
executed by one at a time and only while ACTIVE (`ExecutionInv`), Slack shows one message
and an answer only of a recorded turn (`ShownInv`), and a worker's stage tells what was
done before it, whoever did it (`StageInv`).

* `RefreshTokensSpentOnce`, `EventRunsOneTurn`, `EventGetsOneReply` (one message, whatever
  attempts disagree on; resting on Slack's `client_msg_id`), `CompletedWasAnswered` (unless
  `skipped`), and the action property `OnlyTheHolderRecords`.

**`ObservabilityOutbox_proofs`** (`OutboxAssumption`).

* `NoSilentDrop`: a row is DELIVERED, or gone from the outbox, only with its projection
  in the sink or its subject sealed.
* `SealedIsNotDelivered`: a drain that checked the register after the seal has no
  readable row of the subject left once it goes on to insert (`CheckedInv`).

**`Approvals_proofs`** (no assumption). `ApprovalsInv` says of every caller that the row it
goes ahead on is of its own call or, over MCP, for its tool (`CallerOK`); of a row not
answered over a socket, that every decision on its way is the ledger's (`Matched`) and that
it is in one place: with the operator, in the list, with the caller that popped it, or
spent (`OneToken`); and of a row that is not `loose`, that one try is at work and runs
before it consumes (`OneTry`).

* `FirstDecisionStands` (an action property, of all rows), `GoesAheadAsRecorded`,
  `ApprovalRunsOnce`.

**`Compaction_proofs`** (`CompactionAssumption`). `ThreadInv` says of the thread, of the next
request and of each compaction that the summary it has is `Told` up to the cursor it
has, and of a compaction that the turns it takes are the SUCCEEDED ones that follow its
cursor and leave the window live. None of this is disturbed by later turns: a cursor is
a turn that succeeded, and no row up to it changes any more. The commit checks the state
alone, so a compaction may write over a later one; it writes summary and cursor
together, and its own summary and turns join into `Told` up to its own cursor.

* What `Told` computes is proved for every length (`ToldNext`, `ToldJoin`, `ToldPrefix`,
  `ToldGrows`). The library's induction theorems cannot be used here, so
  `SetInduction` derives induction over sets of naturals from the least element of a
  non-empty set, and `ToldExists` builds with it the function that `Told` chooses.
* `SummaryIsExact`: overlapping compactions, deaths, lost replies and releases by
  another never make the summary miss a turn or tell it twice.
* `ContextIsExact`: the history a turn is answered from, for any two cursors it read: the
  summary up to the first and the turns after the second, which with one cursor join into
  all of them.
* `TailIsLive`: an action property; the turns kept verbatim follow the new cursor, and
  rows are only added.

**`RedisWorker_proofs`** (`WorkerAssumption`: numbers are numbers; nothing about how many
processes, ids, keys, calls or failures there are). `WorkerInv` joins types and these
parts: what is stored under an id, and every delivery in hand, belongs to a job of the
catalog and, for cron, to an occurrence whose time has come; a deduplication key stands
for one payload among the queue, the dead letters and the deliveries in hand
(`DeliveryOK`); a task acknowledges only what was handled (`TaskOK`); a cron call on its
way is for an occurrence that lay ahead when it was computed (`CallOK`, `StartsOK`); an
accumulator is short of a batch and holds items of its job (`AccOK`); the limiter's tasks
and the accumulators in use together are within the limit and one for each batch job
(`RoomFor`); and the properties themselves.

* `QueueLosesNothing`: the acknowledgement by key removes a payload only if it was
  handled, though timeouts, retries and redrives put other payloads under the id.
* `CronGoesOn`: every way out of a cron task leaves an occurrence queued, or `gap`.
* `CronOnce`: an action property; an occurrence is computed ahead of the clock and only
  passed ones have been handled, so that only a call overtaken on its way repeats one.
* `LimiterHolds`: a poll asks for no more than the limiter has room for, and each job's
  accumulator is flushed past the limit at most once before the next poll.

Only model-checked: liveness, which is outside the prover's reach (`DeadLeaseLapses`,
`ThreadUnlocks`, `QueueLetsGo`, `EventuallySettled`, `EventEnds`, `Settles`, `ToldIsRun`,
`Settled`, `Released`). Every safety property of the passing runs has a theorem.

The provers do not cope with large contexts, so the proof modules extend no more of the
library than `TLAPS` and, for `Compaction`, `WellFoundedInduction`; facts about finite
sets and sequences that a proof needs are lemmas of its module.

## 5. What the models leave visible

Behaviour the models contain and the properties step around, with the place where
the source or a document says otherwise.

* Channels. `collectTurn` returns a SUCCEEDED turn and throws for any other row, so a
  process that dies in its turn leaves an ACTIVE row and the event is retried every
  5 s for ever (`EventEnds` excludes it as `Stranded`; the controller's comment says
  such rows "are recovered by the periodic sweep"). A late `app_uninstalled` revokes a
  fresh reinstall. A process that dies while REFRESHING fences the installation
  until it is reinstalled. Where linking is required, attempts may disagree about the
  author and share one `client_msg_id`: a turn's answer can be taken for a duplicate of the
  request to link and never be shown, although `channel-runtime.service.ts:2039` says that
  "Slack's duplicate response proves the original delivery exists". Without a bound agent
  the event completes unanswered.
* Turns. Sub-agents are charged during the stream, so a turn that fails may have been
  charged in part, although `agent-task.service.ts:1012` says "If storeMessage throws, we
  haven't billed". A turn across midnight takes its estimate from one day's counter and
  returns it to the next one's, although `cost.service.ts:947` says that "the decrement
  releases exactly what was reserved" (`sweepStaleReservations`, which would zero counters
  two days old, has no caller in the source). After a commit whose reply is lost the
  caller sees an error: the stored reply is SUCCEEDED and its own usage not billed, and a
  row that was being opened stays ACTIVE.
* Outbox. The register is read once per batch, so a batch checked before the seal can
  put an erased identity back after the verified sweep (`SealStopsDelivery` bounds
  this to that batch). A slow drain's failure overwrites DELIVERED.
* Compaction. The summary is read before the mutex and the cursor after it; a
  compaction in between leaves turns in neither (`ContextExact` says which: those between
  the two cursors; `content/docs/memory.md` says "summary + everything after the cursor").
  IN_PROGRESS has no lease: after a crash, a lost reply of the compare-and-set or a
  failing catch block the thread is never compacted again (`abandoned`). Before the
  first compaction only the newest half of the limit is loaded, by design. A fork's
  inherited turns are in neither summary nor history after its first compaction, although
  `forkThread`'s comment says "Ordered ancestry pointers preserve history".
* Approvals. The socket handler wakes the caller before it writes the ledger and does
  not look at the status, so a call may run that the ledger has as REJECTED (`socket`).
  `approvals.resolve` writes only the ledger: the waiting call times out though
  APPROVED. A crash between the HTTP write and the push does the same. Duplicates may
  open two rows, since find and create are two statements; of two that share a row
  one is woken. Overlapping MCP tries with one id both execute. The arguments of a try
  are not compared with those approved, and the id of an approved waiting call or question
  is good for one try over MCP.
* Redis worker. The retry of a failing or superseded delivery overwrites a newer
  payload under its id (the deduplication key guards only the acknowledgement), and so
  does a redrive (`dropped`). A dead letter move whose reply is lost, or a reschedule that
  fails on the last attempt and finds its item gone, ends the cron chain until a process
  starts (`gap`), though the log says it "will be retried after the visibility timeout".
  With jitter, or by a call that is slow to reach Redis, an occurrence can be enqueued
  again after it was handled. Items of jobs that the catalog lacks, whose payload is
  invalid, or that have no handler are delivered for ever, neither acknowledged nor dead.
  The limiter exceeds its limit by one batch for each batch job of the catalog.

## 6. Not modelled

* Jobs, budget windows and alerts: single statements, or state that lives in the
  external task runtime.
* Durable approvals (a wait token of the task runtime), rate limits and who may
  answer.
* Queue: cancellation keys, orphan cleanup, metrics, several loops per process; cron jobs
  that are batch jobs (`processBatch` never reschedules them); batch jobs of different
  sizes. The client's resend of a call is taken to follow it at once.
* Channels: webhook verification, OAuth and linking screens, rendering; the deletion of an
  app, which deletes its events too (`onDelete: Cascade`).
* Turns: `sweepStaleReservations`, which nothing calls.
* Threads: sub-thread replies, edit and rerun, and `loadHistory`'s cap, which the
  instances do not reach.
* The agent's model loop (one step of a turn, beside its sub-agents), the web application, SDKs, and the
  run engine, run queue and schedule engine: systems of their own, by far the largest
  part of the repository's lines.

## 7. Plan

Models of the run queue and the schedule engine, of edit and rerun, and of several
worker loops per process; for these, proofs along the lines of section 4.
