--------------------------- MODULE TurnLifecycle ---------------------------
(***************************************************************************)
(* One conversation turn, as AgentTaskService.executeStreamingTurn runs    *)
(* it, for several requests that arrive concurrently on shared threads.    *)
(*                                                                         *)
(* The function is an async generator.  A step below is the code between   *)
(* two awaits (or yields) whose order another request, Redis or Postgres   *)
(* can tell apart.  Three exits exist beside the normal one:               *)
(*   - a throw, which runs the catch block and then the finally block;     *)
(*   - the consumer closing the generator (iterator.return(), which        *)
(*     withHeartbeat calls when the client disconnects): only possible     *)
(*     where the generator is suspended at a yield, and it runs the        *)
(*     finally block WITHOUT the catch block;                              *)
(*   - the death of the process, which runs neither.                       *)
(***************************************************************************)
EXTENDS Integers, Sequences

CONSTANTS
    Requests,       \* calls of executeStreamingTurn; a call's mutex token is its identity
    Threads,        \* conversation threads
    Keys,           \* idempotency keys
    ThreadOf,       \* the thread a request addresses
    KeyOf,          \* the idempotency key a request carries, or NoKey
    NoKey,          \* options.idempotencyKey is absent
    Free,           \* an absent Redis key
    IdemMayExpire,  \* may the 600 s life of an idempotency reservation run out?
    SwallowedErrors,\* may the calls whose errors the code swallows fail?
    MaxDay,         \* bound on the UTC days a behaviour spans
    Environments    \* what may happen: triples of mayLapse, delegates, lastDay

ASSUME RequestAssumption ==
    /\ ThreadOf \in [Requests -> Threads]
    /\ KeyOf \in [Requests -> Keys \cup {NoKey}]
    /\ NoKey \notin Keys
    /\ Free \notin Requests

ASSUME SwitchAssumption ==
    /\ IdemMayExpire \in BOOLEAN
    /\ SwallowedErrors \in BOOLEAN
    /\ MaxDay \in Nat \ {0}
    /\ Environments \subseteq BOOLEAN \X BOOLEAN \X (1 .. MaxDay)

VARIABLES
    pc,             \* where each request is in executeStreamingTurn
    outcome,        \* how it left, as its caller sees it
    idem,           \* Redis idem:<scope>:<key>: the request that set it, or Free
    lock,           \* Redis turn:<scope>:<thread>: the token stored there, or Free
    turns,          \* Postgres: each thread's Turn rows, in sequence order
    openTurn,       \* local openTurnId, as the row's sequence (0 is null)
    finalized,      \* local turnFinalized
    seen,           \* local history: the sequences loadHistory returned
    committed,      \* local reservationCommitted
    reserved,       \* Redis *:<day>:reserved counters, in units of one estimate
    billed,         \* turns whose <messageId>:cost usage was recorded
    delegating,     \* is a sub-agent's model call of the turn under way?
    delegated,      \* turns some sub-agent usage was recorded for
    day,            \* the UTC day
    missed,         \* history: requests one of whose counter updates was lost
    crossed,        \* history: requests that midnight passed with a reservation
    mayLapse,       \* fixed: may a lease lapse under a live owner (late heartbeats)?
    delegates,      \* fixed: is the agent's tool mode "sub-agent"?
    lastDay         \* fixed: the day after which midnight is not considered

vars == <<pc, outcome, idem, lock, turns, openTurn, finalized, seen,
          committed, reserved, billed, delegating, delegated, day, missed,
          crossed, mayLapse, delegates, lastDay>>

fixed == <<mayLapse, delegates, lastDay>>

\* What only the sub-agents change, and what only reservations are about.
subAgents == <<delegating, delegated>>
calendar == <<day, missed, crossed>>

----------------------------------------------------------------------------
\* The points of the try block, in order; the mutex is held from the first.
InBody == {"gates", "reserve", "admit", "history", "open", "stream",
           "persist", "bill", "finish", "catch"}

\* The finally block, in order.
InFinally == {"release", "dropIdem", "settle"}

Points == {"start", "thread", "mutex", "ended", "crashed"}
              \cup InBody \cup InFinally

Outcomes == {"none", "already_processed", "turn_in_progress", "denied",
             "threw", "closed", "done"}

Statuses == {"ACTIVE", "SUCCEEDED", "FAILED"}

Days == 1 .. MaxDay

Rows == [owner : Requests, status : Statuses, key : Keys \cup {NoKey}]

\* The process serving r is alive and inside executeStreamingTurn.
Running(r) == pc[r] \notin {"start", "ended", "crashed"}

\* r still runs code that relies on the mutex of its thread.
NeedsLock(r) == pc[r] \in InBody \cup {"release"}

MyTurns(r) == turns[ThreadOf[r]]

Succeeded(rows) == {i \in DOMAIN rows : rows[i].status = "SUCCEEDED"}

\* Faulty: the unique constraint is missing.
KeyTaken_NoConstraint(rows, k) == FALSE

\* @@unique([threadId, idempotencyKey]): null keys do not collide.
KeyTaken(rows, k) == k # NoKey /\ \E i \in DOMAIN rows : rows[i].key = k

\* storeMessage(user), storeMessage(assistant) and failTurn, on a thread's rows.
NewTurn(rows, r) == Append(rows, [owner |-> r, status |-> "ACTIVE", key |-> KeyOf[r]])

FinalizeTurn(rows, i) == [rows EXCEPT ![i].status = "SUCCEEDED"]

FailTurn(rows, i) == [rows EXCEPT ![i].status = "FAILED", ![i].key = NoKey]

----------------------------------------------------------------------------
Init ==
    /\ pc = [r \in Requests |-> "start"]
    /\ outcome = [r \in Requests |-> "none"]
    /\ idem = [k \in Keys |-> Free]
    /\ lock = [t \in Threads |-> Free]
    /\ turns = [t \in Threads |-> << >>]
    /\ openTurn = [r \in Requests |-> 0]
    /\ finalized = [r \in Requests |-> FALSE]
    /\ seen = [r \in Requests |-> {}]
    /\ committed = [r \in Requests |-> FALSE]
    /\ reserved = [d \in Days |-> 0]
    /\ billed = {}
    /\ delegating = [r \in Requests |-> FALSE]
    /\ delegated = {}
    /\ day = 1
    /\ missed = {}
    /\ crossed = {}
    /\ \E e \in Environments : mayLapse = e[1] /\ delegates = e[2] /\ lastDay = e[3]

Goto(r, p) == pc' = [pc EXCEPT ![r] = p]

Exit(r, p, o) == Goto(r, p) /\ outcome' = [outcome EXCEPT ![r] = o]

\* DEL idem:<scope>:<key>: unconditional, and its failure is swallowed.
DeleteIdem(r) ==
    \/ /\ KeyOf[r] # NoKey
       /\ idem' = [idem EXCEPT ![KeyOf[r]] = Free]
    \/ /\ KeyOf[r] = NoKey \/ SwallowedErrors
       /\ UNCHANGED idem

(* Faulty variants of actions below, each a mistake the code avoids; only   *)
(* mutation runs use them.                                                  *)

kept == <<idem, lock, openTurn, finalized, seen, committed, reserved, billed,
          subAgents, calendar>>

\* SET without NX.
AcquireMutex_NoNX(r) ==
    /\ pc[r] = "mutex"
    /\ lock' = [lock EXCEPT ![ThreadOf[r]] = r]
    /\ Goto(r, "gates")
    /\ UNCHANGED <<idem, outcome, turns, openTurn, finalized, seen, committed,
                   reserved, billed, subAgents, calendar>>

\* The history query without its status filter.
LoadHistory_AnyStatus(r) ==
    /\ pc[r] = "history"
    /\ seen' = [seen EXCEPT ![r] = DOMAIN MyTurns(r)]
    /\ Goto(r, "open")
    /\ UNCHANGED <<outcome, idem, lock, turns, openTurn, finalized, committed,
                   reserved, billed, subAgents, calendar>>

\* A failed write of the reply is swallowed and the turn billed.
PersistReply_Swallows(r) ==
    /\ pc[r] = "persist"
    /\ Goto(r, "bill")
    /\ UNCHANGED <<kept, outcome, turns>>

\* The catch block without failTurn.
CatchError_NoFailTurn(r) ==
    /\ pc[r] = "catch"
    /\ Goto(r, "release")
    /\ UNCHANGED <<kept, outcome, turns>>

\* The catch block fails whatever row it opened.
CatchError_Unguarded(r) ==
    /\ pc[r] = "catch"
    /\ turns' = IF openTurn[r] = 0 THEN turns
                ELSE [turns EXCEPT ![ThreadOf[r]] = FailTurn(@, openTurn[r])]
    /\ Goto(r, "release")
    /\ UNCHANGED <<kept, outcome>>

\* DEL without comparing the token.
ReleaseMutex_NoCompare(r) ==
    /\ pc[r] = "release"
    /\ lock' = [lock EXCEPT ![ThreadOf[r]] = Free]
    /\ Goto(r, "dropIdem")
    /\ UNCHANGED <<outcome, idem, turns, openTurn, finalized, seen, committed,
                   reserved, billed, subAgents, calendar>>

\* The reservation is settled whether or not it was made.
SettleReservation_Always(r) ==
    /\ pc[r] = "settle"
    /\ reserved' = [reserved EXCEPT ![day] = @ - 1]
    /\ Goto(r, "ended")
    /\ UNCHANGED <<outcome, idem, lock, turns, openTurn, finalized, seen,
                   committed, billed, subAgents, calendar>>

\* SET without PX: only a lapse the model is told to allow.
LeaseLapse_NoPX(t) ==
    /\ mayLapse /\ lock[t] # Free
    /\ lock' = [lock EXCEPT ![t] = Free]
    /\ UNCHANGED <<pc, outcome, idem, turns, openTurn, finalized, seen,
                   committed, reserved, billed, subAgents, calendar>>

----------------------------------------------------------------------------
\* SET idem:<scope>:<key> EX 600 NX, or the early already_processed answer.  A
\* Redis error throws, before or after the key was set.
ReserveKey(r) ==
    /\ pc[r] = "start"
    /\ \/ /\ KeyOf[r] = NoKey
          /\ Goto(r, "thread")
          /\ UNCHANGED <<idem, outcome>>
       \/ /\ KeyOf[r] # NoKey
          /\ idem[KeyOf[r]] = Free
          /\ idem' = [idem EXCEPT ![KeyOf[r]] = r]
          /\ Goto(r, "thread")
          /\ UNCHANGED outcome
       \/ /\ KeyOf[r] # NoKey
          /\ idem[KeyOf[r]] # Free
          /\ Exit(r, "ended", "already_processed")
          /\ UNCHANGED idem
       \/ /\ KeyOf[r] # NoKey
          /\ idem' \in {idem, [idem EXCEPT ![KeyOf[r]] = IF @ = Free THEN r ELSE @]}
          /\ Exit(r, "ended", "threw")
    /\ UNCHANGED <<lock, turns, openTurn, finalized, seen, committed, reserved,
                   billed, subAgents, calendar>>

\* getOrCreateThread stands before the try block: a throw runs no finally.
GetThread(r) ==
    /\ pc[r] = "thread"
    /\ \/ Goto(r, "mutex") /\ UNCHANGED outcome
       \/ Exit(r, "ended", "threw")
    /\ UNCHANGED <<idem, lock, turns, openTurn, finalized, seen, committed,
                   reserved, billed, subAgents, calendar>>

\* acquireTurnMutex: SET turn:<scope>:<thread> <token> PX 30000 NX.  When the
\* lock is taken the reservation of the key is dropped and the call returns.
\* It stands before the try block too: a Redis error throws past the finally,
\* with the lock set or not.
AcquireMutex(r) ==
    /\ pc[r] = "mutex"
    /\ \/ /\ lock[ThreadOf[r]] = Free
          /\ lock' = [lock EXCEPT ![ThreadOf[r]] = r]
          /\ Goto(r, "gates")
          /\ UNCHANGED <<idem, outcome>>
       \/ /\ lock[ThreadOf[r]] # Free
          /\ DeleteIdem(r)
          /\ Exit(r, "ended", "turn_in_progress")
          /\ UNCHANGED lock
       \/ /\ lock' \in {lock, [lock EXCEPT ![ThreadOf[r]] = IF @ = Free THEN r ELSE @]}
          /\ Exit(r, "ended", "threw")
          /\ UNCHANGED idem
    /\ UNCHANGED <<turns, openTurn, finalized, seen, committed, reserved,
                   billed, subAgents, calendar>>

\* The user rate limit and the budget gate; errors of either fail open.
PassGates(r) ==
    /\ pc[r] = "gates"
    /\ \/ Goto(r, "reserve") /\ UNCHANGED outcome
       \/ Exit(r, "release", "denied")
    /\ UNCHANGED <<idem, lock, turns, openTurn, finalized, seen, committed,
                   reserved, billed, subAgents, calendar>>

\* Redis adds n to today's counter, or the call's error is swallowed.
Count(r, n) ==
    \/ /\ reserved' = [reserved EXCEPT ![day] = @ + n]
       /\ UNCHANGED missed
    \/ /\ SwallowedErrors
       /\ missed' = missed \cup {r}
       /\ UNCHANGED reserved

\* beginReservation, on the counter of the day it runs on.  It swallows its own
\* Redis error, so the caller believes the reservation is committed whether or
\* not the counter moved.
BeginReservation(r) ==
    /\ pc[r] = "reserve"
    /\ Count(r, 1)
    /\ committed' = [committed EXCEPT ![r] = TRUE]
    /\ Goto(r, "admit")
    /\ UNCHANGED <<outcome, idem, lock, turns, openTurn, finalized, seen,
                   billed, subAgents, day, crossed>>

\* Input safety (blocked: error, done, return), then the agent's version and
\* configuration (none: throw).
Admit(r) ==
    /\ pc[r] = "admit"
    /\ \/ Goto(r, "history") /\ UNCHANGED outcome
       \/ Exit(r, "release", "denied")
       \/ Exit(r, "catch", "threw")
    /\ UNCHANGED <<idem, lock, turns, openTurn, finalized, seen, committed,
                   reserved, billed, subAgents, calendar>>

\* loadHistory: the SUCCEEDED turns, read before this turn's row exists (the
\* window, the compaction cursor, forks and reply threads select among them and
\* are not modelled here); then the attachments, whose failure answers error,
\* done and returns.
LoadHistory(r) ==
    /\ pc[r] = "history"
    /\ \/ /\ seen' = [seen EXCEPT ![r] = Succeeded(MyTurns(r))]
          /\ \/ Goto(r, "open") /\ UNCHANGED outcome
             \/ Exit(r, "release", "denied")
       \/ Exit(r, "catch", "threw") /\ UNCHANGED seen
    /\ UNCHANGED <<idem, lock, turns, openTurn, finalized, committed, reserved,
                   billed, subAgents, calendar>>

\* storeMessage(user): the next sequence number, under the Thread row's lock.
\* A duplicate key violates the unique constraint and throws, as does a
\* database error; a commit whose reply is lost throws with the row created and
\* openTurnId still null; markAttachedToMessage may throw after the row exists.
OpenTurn(r) ==
    /\ pc[r] = "open"
    /\ \/ /\ ~KeyTaken(MyTurns(r), KeyOf[r])
          /\ turns' = [turns EXCEPT ![ThreadOf[r]] = NewTurn(@, r)]
          /\ \/ /\ openTurn' = [openTurn EXCEPT ![r] = Len(MyTurns(r)) + 1]
                /\ Goto(r, "stream") /\ UNCHANGED outcome
             \/ /\ openTurn' \in {openTurn, [openTurn EXCEPT ![r] = Len(MyTurns(r)) + 1]}
                /\ Exit(r, "catch", "threw")
       \/ /\ Exit(r, "catch", "threw")
          /\ UNCHANGED <<turns, openTurn>>
    /\ UNCHANGED <<idem, lock, finalized, seen, committed, reserved, billed,
                   subAgents, calendar>>

\* The model calls delegate_to_sub_agent (several calls at once are one here).
Delegate(r) ==
    /\ delegates
    /\ pc[r] = "stream" /\ ~delegating[r]
    /\ delegating' = [delegating EXCEPT ![r] = TRUE]
    /\ UNCHANGED <<pc, outcome, idem, lock, turns, openTurn, finalized, seen,
                   committed, reserved, billed, delegated, calendar>>

\* runSubAgent: recordUsage without an idempotency key, or the sub-agent's
\* failure, which becomes a tool result.  Nothing waits for a call that is under
\* way when the stream throws or its consumer leaves: its usage comes later.
SubAgentUsage(r) ==
    /\ delegating[r]
    /\ delegating' = [delegating EXCEPT ![r] = FALSE]
    /\ delegated' \in {delegated, delegated \cup {<<ThreadOf[r], openTurn[r]>>}}
    /\ UNCHANGED <<pc, outcome, idem, lock, turns, openTurn, finalized, seen,
                   committed, reserved, billed, calendar>>

\* The provider stream, relayed event by event except its done marker; then
\* output safety.  A step ends with its tool calls.  A provider failure or a
\* missing price throws.
StreamReply(r) ==
    /\ pc[r] = "stream"
    /\ \/ ~delegating[r] /\ Goto(r, "persist") /\ UNCHANGED outcome
       \/ Exit(r, "catch", "threw")
    /\ UNCHANGED <<idem, lock, turns, openTurn, finalized, seen, committed,
                   reserved, billed, subAgents, calendar>>

\* storeMessage(assistant): only an ACTIVE row is finalized; otherwise, or on
\* a database error, it throws and the transaction leaves the row alone; a lost
\* reply of the commit throws with the row finalized.
PersistReply(r) ==
    /\ pc[r] = "persist"
    /\ \/ /\ MyTurns(r)[openTurn[r]].status = "ACTIVE"
          /\ turns' = [turns EXCEPT ![ThreadOf[r]] = FinalizeTurn(@, openTurn[r])]
          /\ \/ /\ finalized' = [finalized EXCEPT ![r] = TRUE]
                /\ Goto(r, "bill") /\ UNCHANGED outcome
             \/ /\ Exit(r, "catch", "threw") /\ UNCHANGED finalized
       \/ /\ Exit(r, "catch", "threw")
          /\ UNCHANGED <<turns, finalized>>
    /\ UNCHANGED <<idem, lock, openTurn, seen, committed, reserved, billed,
                   subAgents, calendar>>

\* recordUsage under the key <messageId>:cost; errors are swallowed.
RecordUsage(r) ==
    /\ pc[r] = "bill"
    /\ billed' \in {billed \cup {<<ThreadOf[r], openTurn[r]>>}}
                      \cup (IF SwallowedErrors THEN {billed} ELSE {})
    /\ Goto(r, "finish")
    /\ UNCHANGED <<outcome, idem, lock, turns, openTurn, finalized, seen,
                   committed, reserved, subAgents, calendar>>

\* Compaction and naming are dispatched (assessing the thread may throw), and
\* done is the last event.
FinishTurn(r) ==
    /\ pc[r] = "finish"
    /\ \/ Exit(r, "release", "done")
       \/ Exit(r, "catch", "threw")
    /\ UNCHANGED <<idem, lock, turns, openTurn, finalized, seen, committed,
                   reserved, billed, subAgents, calendar>>

\* catch: failTurn on an open, unfinalized turn.  It touches only an ACTIVE
\* row, frees the row's key, and its own failure is logged and dropped.
CatchError(r) ==
    /\ pc[r] = "catch"
    /\ LET open == /\ openTurn[r] # 0 /\ ~finalized[r]
                   /\ MyTurns(r)[openTurn[r]].status = "ACTIVE"
       IN  \/ /\ open
              /\ turns' = [turns EXCEPT ![ThreadOf[r]] = FailTurn(@, openTurn[r])]
           \/ /\ ~open \/ SwallowedErrors
              /\ UNCHANGED turns
    /\ Goto(r, "release")
    /\ UNCHANGED <<outcome, idem, lock, openTurn, finalized, seen, committed,
                   reserved, billed, subAgents, calendar>>

\* mutex.release(): compare-and-delete in Lua; its failure is swallowed.
ReleaseMutex(r) ==
    /\ pc[r] = "release"
    /\ \/ /\ lock[ThreadOf[r]] = r
          /\ lock' = [lock EXCEPT ![ThreadOf[r]] = Free]
       \/ /\ lock[ThreadOf[r]] # r \/ SwallowedErrors
          /\ UNCHANGED lock
    /\ Goto(r, "dropIdem")
    /\ UNCHANGED <<outcome, idem, turns, openTurn, finalized, seen, committed,
                   reserved, billed, subAgents, calendar>>

DropIdem(r) ==
    /\ pc[r] = "dropIdem"
    /\ DeleteIdem(r)
    /\ Goto(r, "settle")
    /\ UNCHANGED <<outcome, lock, turns, openTurn, finalized, seen, committed,
                   reserved, billed, subAgents, calendar>>

\* settleReservation, only when a reservation was committed: it takes the
\* estimate from the counter of the day it runs on, not of the day it was made.
SettleReservation(r) ==
    /\ pc[r] = "settle"
    /\ IF committed[r] THEN Count(r, -1) ELSE UNCHANGED <<reserved, missed>>
    /\ Goto(r, "ended")
    /\ UNCHANGED <<outcome, idem, lock, turns, openTurn, finalized, seen,
                   committed, billed, subAgents, day, crossed>>

\* The consumer closes the generator at a yield: the meta event, a stream
\* event, or message_persisted.  The finally block runs, the catch does not.
CloseConsumer(r) ==
    /\ pc[r] \in {"gates", "stream", "bill"}
    /\ Exit(r, "release", "closed")
    /\ UNCHANGED <<idem, lock, turns, openTurn, finalized, seen, committed,
                   reserved, billed, subAgents, calendar>>

\* The process serving r dies.
Crash(r) ==
    /\ Running(r)
    /\ Goto(r, "crashed")
    /\ delegating' = [delegating EXCEPT ![r] = FALSE]
    /\ UNCHANGED <<outcome, idem, lock, turns, openTurn, finalized, seen,
                   committed, reserved, billed, delegated, calendar>>

\* Redis drops an expired mutex.  While the owner lives, its heartbeat renews
\* the lease every third of its life (module TurnMutex), so that takes late
\* or failing renewals; a dead owner's lease always lapses.
LeaseLapse(t) ==
    /\ lock[t] # Free
    /\ mayLapse \/ ~NeedsLock(lock[t])
    /\ lock' = [lock EXCEPT ![t] = Free]
    /\ UNCHANGED <<pc, outcome, idem, turns, openTurn, finalized, seen,
                   committed, reserved, billed, subAgents, calendar>>

\* Redis drops an expired idempotency reservation.
IdemExpire(k) ==
    /\ IdemMayExpire
    /\ idem[k] # Free
    /\ idem' = [idem EXCEPT ![k] = Free]
    /\ UNCHANGED <<pc, outcome, lock, turns, openTurn, finalized, seen,
                   committed, reserved, billed, subAgents, calendar>>

\* The UTC date changes, under requests that hold a reservation or not.
Midnight ==
    /\ day < lastDay
    /\ day' = day + 1
    /\ crossed' = crossed \cup {r \in Requests : committed[r] /\ Running(r)}
    /\ UNCHANGED <<pc, outcome, idem, lock, turns, openTurn, finalized, seen,
                   committed, reserved, billed, subAgents, missed>>

\* What the code itself does next for r.
Step(r) ==
    \/ ReserveKey(r) \/ GetThread(r) \/ AcquireMutex(r) \/ PassGates(r)
    \/ BeginReservation(r) \/ Admit(r) \/ LoadHistory(r) \/ OpenTurn(r)
    \/ StreamReply(r) \/ PersistReply(r) \/ RecordUsage(r) \/ FinishTurn(r)
    \/ CatchError(r) \/ ReleaseMutex(r) \/ DropIdem(r) \/ SettleReservation(r)

Next ==
    /\ \/ \E r \in Requests : \/ Step(r) \/ CloseConsumer(r) \/ Crash(r)
                              \/ Delegate(r) \/ SubAgentUsage(r)
       \/ \E t \in Threads : LeaseLapse(t)
       \/ \E k \in Keys : IdemExpire(k)
       \/ Midnight
    /\ UNCHANGED fixed

Spec == Init /\ [][Next]_vars

\* Node schedules every pending continuation, every awaited call settles (the
\* turn has a timeout), and Redis expires keys.
Fairness ==
    /\ \A r \in Requests : /\ WF_vars(Step(r) /\ UNCHANGED fixed)
                           /\ WF_vars(SubAgentUsage(r) /\ UNCHANGED fixed)
    /\ \A t \in Threads : WF_vars(LeaseLapse(t) /\ UNCHANGED fixed)

FairSpec == Spec /\ Fairness

----------------------------------------------------------------------------
TypeOK ==
    /\ pc \in [Requests -> Points]
    /\ outcome \in [Requests -> Outcomes]
    /\ idem \in [Keys -> Requests \cup {Free}]
    /\ lock \in [Threads -> Requests \cup {Free}]
    /\ turns \in [Threads -> Seq(Rows)]
    /\ openTurn \in [Requests -> Nat]
    /\ finalized \in [Requests -> BOOLEAN]
    /\ seen \in [Requests -> SUBSET (Nat \ {0})]
    /\ committed \in [Requests -> BOOLEAN]
    /\ reserved \in [Days -> Int]
    /\ billed \in SUBSET (Threads \X (Nat \ {0}))
    /\ delegating \in [Requests -> BOOLEAN]
    /\ delegated \in SUBSET (Threads \X (Nat \ {0}))
    /\ day \in Days
    /\ missed \in SUBSET Requests
    /\ crossed \in SUBSET Requests
    /\ fixed \in Environments

\* Two requests never run the body of a turn on one thread at once, provided
\* heartbeats keep a live owner's lease: what the per-thread mutex of
\* agent-task.service.ts is for.
MutexExclusive ==
    ~mayLapse =>
        \A r, s \in Requests :
            r # s /\ NeedsLock(r) /\ NeedsLock(s) => ThreadOf[r] # ThreadOf[s]

\* The same, as an implementation of the abstract mutex: a thread's users are
\* the requests between acquiring and releasing, where leases are healthy.
ThreadMutex == INSTANCE ExclusiveUse
                  WITH Clients <- Requests, Resources <- Threads,
                       users <- [t \in Threads |->
                                   {r \in Requests : /\ NeedsLock(r) /\ ThreadOf[r] = t
                                                     /\ ~mayLapse}]

\* With healthy heartbeats the turns of a thread are serialized.
ImplementsMutex == ThreadMutex!Spec

\* The history a turn answered from is exactly the successful turns that
\* precede it in the thread, then and for ever after: no turn with a lower
\* sequence number succeeds behind its back.  This is the "race on the
\* history snapshot" the mutex closes.
HistoryComplete ==
    ~mayLapse =>
        \A r \in Requests :
            openTurn[r] # 0 =>
                seen[r] = {i \in Succeeded(MyTurns(r)) : i < openTurn[r]}

\* The row a charge x was made for.
Charged(x) == turns[x[1]][x[2]]

\* Whatever lapses, expires or is lost, of the turns ever charged for one
\* idempotency key of a thread, for themselves or for their sub-agents, at most
\* one has not FAILED: a retry is charged beside its predecessor only for what
\* sub-agents did in attempts that failed.
OneChargePerKey ==
    \A x, y \in billed \cup delegated :
        /\ x[1] = y[1] /\ x # y
        /\ KeyOf[Charged(x).owner] = KeyOf[Charged(y).owner]
        /\ KeyOf[Charged(x).owner] # NoKey
        => "FAILED" \in {Charged(x).status, Charged(y).status}

\* Persist-first: a turn's own usage is recorded only when Postgres holds the
\* turn as SUCCEEDED, so a database outage never bills a lost reply; usage of
\* sub-agents is recorded during the stream, for a turn Postgres holds.
BilledIsPersisted ==
    /\ \A x \in billed \cup delegated : x[2] \in DOMAIN turns[x[1]]
    /\ \A x \in billed : Charged(x).status = "SUCCEEDED"

\* A turn is left ACTIVE only by a request that still runs, whose process
\* died, whose consumer closed it, or that never learned that the row was
\* created (when failTurn itself does not fail): every throw of a request that
\* knows its row reaches failTurn.
ActiveTurnsAccounted ==
    ~SwallowedErrors =>
        \A t \in Threads : \A i \in DOMAIN turns[t] :
            turns[t][i].status = "ACTIVE" =>
                LET r == turns[t][i].owner
                IN  \/ Running(r) \/ pc[r] = "crashed" \/ outcome[r] = "closed"
                    \/ openTurn[r] = 0

\* A day's counter is off zero only because of a request that holds a
\* reservation, died with one, was passed by midnight with one, or lost one of
\* its two counter updates.  Failures of the other cleanups, throws and closed
\* consumers leave nothing behind.
ReservationsReturned ==
    \A d \in Days :
        reserved[d] # 0 =>
            \E r \in Requests :
                /\ committed[r]
                /\ Running(r) \/ pc[r] = "crashed" \/ r \in missed \cup crossed

\* A held mutex disappears only by its owner's own step or by expiry: "an
\* expired owner can never extend or delete a successor's lock".
OnlyOwnerReleases ==
    [][\A t \in Threads :
         LET h == lock[t]
         IN  h # Free /\ lock'[t] # h =>
                 /\ lock'[t] = Free
                 /\ pc'[h] # pc[h] \/ pc' = pc]_vars

\* A turn row is never removed or reordered; it is finalized at most once; its
\* idempotency key is freed only by failing it.
RowsOnlyAdvance ==
    [][\A t \in Threads : \A i \in DOMAIN turns[t] :
         /\ i \in DOMAIN turns'[t]
         /\ turns'[t][i].owner = turns[t][i].owner
         /\ turns'[t][i] # turns[t][i] =>
                /\ turns[t][i].status = "ACTIVE"
                /\ turns'[t][i].status # "ACTIVE"
                /\ turns'[t][i].key # turns[t][i].key =>
                       turns'[t][i].status = "FAILED"]_vars

\* A thread's mutex is always given up: no thread stays locked after a crash,
\* a disconnect, a failed release or a lost answer to SET.
ThreadUnlocks == \A t \in Threads : []<>(lock[t] = Free)

----------------------------------------------------------------------------
\* What content/docs/streaming.md says of a client that lost its stream: it
\* "may retry the initial request only with the same idempotency key", so that
\* key has to be usable.  A request that has left without succeeding leaves no
\* row that still holds its key (the catch block frees it, finally does not).
RetryNotLockedOut ==
    \A r \in Requests :
        pc[r] = "ended" /\ openTurn[r] # 0 /\ ~finalized[r] =>
            MyTurns(r)[openTurn[r]].key = NoKey
=============================================================================
