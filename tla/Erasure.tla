------------------------------ MODULE Erasure ------------------------------
(***************************************************************************)
(* One hard-erasure operation (privacy/erasure.service.ts with             *)
(* erasure-receipt.ts, erasure-queue.ts and erasure-orchestrator.ts): the  *)
(* row that records it, the passes that work on it (the request itself,    *)
(* operator retries, queue resumes), and the subject's data in the four    *)
(* stores.  Every database statement is a step; the sweep of one store is  *)
(* a step.  Passes overlap, crash, lose their lease and fail store by      *)
(* store.                                                                  *)
(*                                                                         *)
(* Data is abstracted to how a row can be found again:                     *)
(*   "known"   through the locators in the resume plan;                    *)
(*   "legacy"  only through the external id, which the plan does not keep; *)
(*   "thread"  through a thread created after the plan was captured;       *)
(*   "upload"  through an attachment row created after it.                 *)
(***************************************************************************)
EXTENDS Naturals, Sequences

CONSTANTS
    Passes,         \* concurrent callers of the service
    NoPass,         \* leaseToken is null
    Provisioned,    \* stores this installation has
    MaxRetries,     \* PLATOS_ERASURE_MAX_RETRIES, at least 1
    MaxFaults,      \* bound: store executors that do not succeed
    MaxPasses,      \* bound: retryCount up to which retries are still asked for
    Settings        \* what may happen around the passes (variable setting)

Stores == {"minio", "redis", "clickhouse", "postgres"}

ASSUME ErasureAssumption ==
    /\ NoPass \notin Passes
    /\ Provisioned \subseteq Stores
    /\ {"redis", "postgres"} \subseteq Provisioned
    /\ MaxRetries \in Nat \ {0}
    /\ MaxFaults \in Nat /\ MaxPasses \in Nat
    /\ Settings \subseteq [slow : BOOLEAN, late : BOOLEAN, inFlight : BOOLEAN, crashes : Nat,
                            holds : SUBSET {"canonical", "handle", "supplied"}]

VARIABLES
    status, stores, hold, retries, due, plan,   \* columns of the operation's row
    lease, live,    \* leaseToken, and whether leaseExpiresAt is in the future
    pc,             \* where each pass is
    job,            \* which entry point it came through
    view,           \* the receipt it works on
    todo,           \* stores it has still to sweep
    data,           \* what each store holds of the subject
    found,          \* discovery resolves the external id to somebody
    sealed,         \* the subject is in the erased-subject register
    register,       \* the legal-hold register's entry for the subject
    turn,           \* a turn of the subject
    faults, crashes,
    setting         \* fixed: one of Settings

row  == <<status, stores, hold, retries, due, plan>>
vars == <<status, stores, hold, retries, due, plan, lease, live, pc, job,
          view, todo, data, found, sealed, register, turn, faults, crashes, setting>>

\* May a sweep outlast LEASE_TTL_MS, and a drain take that long before it
\* reaches this operation?
slow == setting.slow

\* Bound: processes that die mid-pass.
MaxCrashes == setting.crashes

\* May the subject create rows between plan and seal, and may a turn admitted
\* before the seal end after it?
LateWrites == setting.late
TurnsInFlight == setting.inFlight

\* How the subject may come under a legal hold.
Holds == setting.holds

Kinds    == {"known", "legacy", "thread", "upload"}
Outcomes == [status : {"pending", "done", "failed", "not_provisioned"},
             check  : {"not_run", "passed", "failed", "unknown"}]
Statuses == {"ABSENT", "PENDING", "ACTIVE", "FAILED", "SUCCEEDED", "CANCELLED"}
Jobs     == {"none", "request", "operator", "resume", "drain"}
Points   == {"idle", "create", "check", "claim", "reread", "intent", "seal", "sweep", "release"}

EXECUTION_ORDER == <<"minio", "redis", "clickhouse", "postgres">>
STORES_KEYED_BY_LEGACY_ID == {"postgres", "redis", "clickhouse"}

pendingStore == [status |-> "pending", check |-> "not_run"]
Failed       == [status |-> "failed", check |-> "unknown"]
Clean        == [status |-> "done", check |-> "passed"]
Absent       == [status |-> "not_provisioned", check |-> "not_run"]

----------------------------------------------------------------------------
(* The receipt.                                                            *)

isStoreSettled(o) == o.status = "not_provisioned" \/ o = Clean

isUnproven(o) == o.status = "done" /\ o.check \in {"unknown", "not_run"}

\* deriveStatus after a started run, as the database status it is stored as.
deriveStatus(st) ==
    LET some(P(_)) == \E s \in Stores : P(st[s])
        failing(o) == o.check = "failed" \/ o.status = "failed" \/ isUnproven(o)
        waiting(o) == ~isStoreSettled(o)
    IN  CASE some(failing) -> "FAILED"
          [] ~some(failing) /\ some(waiting) -> "ACTIVE"
          [] OTHER -> "SUCCEEDED"

canRetry(v) == ~v.hold /\ v.status # "SUCCEEDED"

storesNeedingRetry(st) == {s \in Stores : ~isStoreSettled(st[s])}

\* A pass resumed from the plan alone lacks the external id.
Coverage(p) == IF job[p] \in {"resume", "drain"} THEN "locators_only" ELSE "full"

\* Faulty: a narrow pass certifies the whole subject.
demoteForCoverage_Off(s, c, o) == o

demoteForCoverage(s, c, o) ==
    IF c = "locators_only" /\ s \in STORES_KEYED_BY_LEGACY_ID /\ o.check = "passed"
    THEN [o EXCEPT !.check = "unknown"]
    ELSE o

preserveVerificationFailure(previous, o) ==
    IF previous.check = "failed" /\ o.check # "passed"
    THEN [o EXCEPT !.check = "failed"]
    ELSE o

\* When the row is next due after a pass that leaves it with status st.
scheduleAfterRetry(st, n) ==
    IF st \in {"SUCCEEDED", "CANCELLED"} \/ n >= MaxRetries THEN "never" ELSE "later"

Receipt == [status |-> status, stores |-> stores, hold |-> hold, retries |-> retries]

NoView == [status |-> "PENDING", stores |-> [s \in Stores |-> pendingStore],
           hold |-> FALSE, retries |-> 0]

----------------------------------------------------------------------------
(* What a pass can reach in a store.                                       *)

\* Attachment rows still in Postgres: the only map to the objects.
AttachmentRows ==
    data["postgres"] \cap (IF plan = "objects" THEN {"known", "upload"} ELSE {"upload"})

\* The plan counted objects and the rows that name them are gone.
objectMapLost == plan = "objects" /\ AttachmentRows = {}

\* The rows of s that an executor with coverage c finds: objects through their
\* attachment rows, thread-keyed Redis keys through the plan or a live thread
\* row, and rows keyed by the external id only when it was supplied.
Addressable(s, c) ==
    {k \in data[s] :
        /\ s = "minio" => k \in AttachmentRows
        /\ s = "redis" /\ k = "thread" => "thread" \in data["postgres"]
        /\ k = "legacy" => c = "full"}

\* What the executor of s may report after it deleted the rows D out of those
\* it found, A.  Postgres deletes in one transaction and then counts what
\* identifies the subject; Redis reports unknown only with a failed scan; a
\* store counts its survivors after deleting.
Reports(s, A, D) ==
    IF s \notin Provisioned \/ (s = "minio" /\ objectMapLost)
    THEN IF D # {} THEN {} ELSE IF s \notin Provisioned THEN {Absent} ELSE {Failed}
    ELSE IF s = "postgres"
    THEN IF D = A THEN {Clean, Failed, [status |-> "done", check |-> "failed"]}
         ELSE IF D = {} THEN {Failed} ELSE {}
    ELSE {o \in [status : {"done", "failed"}, check : {"passed", "failed", "unknown"}] :
            /\ o.check = "passed" => D = A
            /\ o.check = "unknown" /\ s # "clickhouse" => o.status = "failed"}

\* The register matches the canonical id always, and a handle only while the
\* identity rows that list the subject's handles exist.
Held ==
    \/ register = "canonical" /\ found
    \/ register = "handle" /\ "known" \in data["postgres"]

----------------------------------------------------------------------------
Init ==
    /\ status = "ABSENT"
    /\ stores = NoView.stores
    /\ hold = FALSE
    /\ retries = 0
    /\ due = "never"
    /\ plan = "none"
    /\ lease = NoPass
    /\ live = FALSE
    /\ pc = [p \in Passes |-> "idle"]
    /\ job = [p \in Passes |-> "none"]
    /\ view = [p \in Passes |-> NoView]
    /\ todo = [p \in Passes |-> {}]
    /\ found \in BOOLEAN
    /\ \E objects \in SUBSET {"known"} :
          data = [s \in Stores |->
                    IF ~found \/ s \notin Provisioned THEN {}
                    ELSE IF s = "minio" THEN objects ELSE {"known", "legacy"}]
    /\ sealed = FALSE
    /\ register = "none"
    /\ turn = "none"
    /\ faults = 0
    /\ crashes = 0
    /\ setting \in Settings

subject == <<data, found, sealed, register, turn>>
bounds  == <<faults, crashes>>

Goto(p, point) == pc' = [pc EXCEPT ![p] = point]

\* The pass goes on with the row as it reads it now.
Load(p) == view' = [view EXCEPT ![p] = Receipt]

\* The pass returns, throws or dies; nothing it knew survives.
Leave(p) ==
    /\ Goto(p, "idle")
    /\ job' = [job EXCEPT ![p] = "none"]
    /\ view' = [view EXCEPT ![p] = NoView]
    /\ todo' = [todo EXCEPT ![p] = {}]

----------------------------------------------------------------------------
(* Faulty variants of actions below, for mutation runs.                     *)

\* The lease is taken without looking at its expiry.
ClaimLease_Always(p) ==
    /\ pc[p] = "claim"
    /\ lease' = p
    /\ live' = TRUE
    /\ Goto(p, "reread")
    /\ UNCHANGED <<row, job, view, todo, subject, bounds>>

\* The pass goes on with the row as read before the lease.
ReRead_Skipped(p) ==
    /\ pc[p] = "reread"
    /\ Goto(p, "intent")
    /\ UNCHANGED <<row, lease, live, job, view, todo, subject, bounds>>

\* The barrier is left to the request path.
RecordIntent_NoSeal(p) ==
    /\ pc[p] = "intent"
    /\ todo' = [todo EXCEPT ![p] = storesNeedingRetry(view[p].stores)]
    /\ Goto(p, "sweep")
    /\ UNCHANGED <<row, lease, live, job, view, subject, bounds>>

\* A lease without an expiry.
LeaseExpires_Never ==
    /\ FALSE
    /\ UNCHANGED vars

----------------------------------------------------------------------------
(* requestErasure.                                                         *)

\* A request that finds the row returns its receipt.  Otherwise it discovers
\* the subject and asks for a hold, the caller's own or the register's.
RequestErasure(p) ==
    /\ pc[p] = "idle"
    /\ status = "ABSENT"
    /\ \E held \in {Held} \cup {h \in {TRUE} : "supplied" \in Holds} :
          view' = [view EXCEPT ![p].hold = held]
    /\ job' = [job EXCEPT ![p] = "request"]
    /\ Goto(p, "create")
    /\ UNCHANGED <<row, lease, live, todo, subject, bounds>>

\* Capture the plan and create the row, leased and due from birth unless it is
\* held.  A request that loses to the unique key returns the other's receipt.
CreateOperation(p) ==
    /\ pc[p] = "create"
    /\ \/ /\ status # "ABSENT"
          /\ Leave(p)
          /\ UNCHANGED <<status, hold, due, plan, lease, live>>
       \/ /\ status = "ABSENT" /\ view[p].hold
          /\ status' = "CANCELLED"
          /\ hold' = TRUE
          /\ Leave(p)
          /\ UNCHANGED <<due, plan, lease, live>>
       \/ /\ status = "ABSENT" /\ ~view[p].hold
          /\ status' = "PENDING"
          /\ plan' = IF "known" \in data["minio"] THEN "objects" ELSE "no objects"
          /\ due' = "now"
          /\ lease' = p
          /\ live' = TRUE
          /\ Goto(p, "intent")
          /\ UNCHANGED <<hold, job, view, todo>>
    /\ UNCHANGED <<stores, retries, subject, bounds>>

----------------------------------------------------------------------------
(* runResumePass, from its entry points.                                   *)

\* retryErasureById: the operator supplies the external id.  A subject neither
\* discovery nor the plan can locate is refused.
RetryErasureById(p) ==
    /\ pc[p] = "idle"
    /\ status # "ABSENT"
    /\ found
    /\ retries < MaxPasses
    /\ job' = [job EXCEPT ![p] = "operator"]
    /\ Load(p)
    /\ Goto(p, "check")
    /\ UNCHANGED <<row, lease, live, todo, subject, bounds>>

\* resumeErasure: without a plan the row only leaves the queue.
Resume(p, entry) ==
    /\ pc[p] = "idle"
    /\ \/ /\ plan = "none"
          /\ due' = "never"
          /\ UNCHANGED <<job, view, pc>>
       \/ /\ plan # "none"
          /\ job' = [job EXCEPT ![p] = entry]
          /\ Load(p)
          /\ Goto(p, "check")
          /\ UNCHANGED due
    /\ UNCHANGED <<status, stores, hold, retries, plan, lease, live, todo, subject, bounds>>

\* The retry route called without the external id.
ResumeErasure(p) ==
    /\ status # "ABSENT"
    /\ retries < MaxPasses
    /\ Resume(p, "resume")

\* resumeDueErasures selects what is due, not held, not settled, not leased.
ResumeDueErasures(p) ==
    /\ status \in {"PENDING", "ACTIVE", "FAILED"}
    /\ ~hold
    /\ due = "now"
    /\ ~live
    /\ Resume(p, "drain")

\* Refuse on the receipt as read, then on the register as it is now; clear the
\* schedule of a receipt with nothing outstanding.
CheckPermitted(p) ==
    /\ pc[p] = "check"
    /\ \/ /\ ~canRetry(view[p])
          /\ Leave(p)
          /\ UNCHANGED <<hold, due>>
       \/ /\ canRetry(view[p]) /\ Held
          /\ hold' = TRUE
          /\ due' = "never"
          /\ Leave(p)
       \/ /\ canRetry(view[p]) /\ ~Held
          /\ storesNeedingRetry(view[p].stores) = {}
          /\ due' = "never"
          /\ Leave(p)
          /\ UNCHANGED hold
       \/ /\ canRetry(view[p]) /\ ~Held
          /\ storesNeedingRetry(view[p].stores) # {}
          /\ Goto(p, "claim")
          /\ UNCHANGED <<hold, due, job, view, todo>>
    /\ UNCHANGED <<status, stores, retries, plan, lease, live, subject, bounds>>

\* claimLease: one conditional update.  A drain computes the expiry from the
\* moment it began, so a long one can take a lease that has already expired.
ClaimLease(p) ==
    /\ pc[p] = "claim"
    /\ \/ /\ ~live
          /\ lease' = p
          /\ live' \in {TRUE, ~(slow /\ job[p] = "drain")}
          /\ Goto(p, "reread")
          /\ UNCHANGED <<job, view, todo>>
       \/ /\ live
          /\ Leave(p)
          /\ UNCHANGED <<lease, live>>
    /\ UNCHANGED <<row, subject, bounds>>

\* The lease is given back only by the pass whose token is still on the row.
GiveBack(p) ==
    /\ lease' = IF lease = p THEN NoPass ELSE lease
    /\ live' = (live /\ lease # p)

\* Read the row again under the lease; hand it back if nothing is left to do.
ReRead(p) ==
    /\ pc[p] = "reread"
    /\ \/ /\ canRetry(Receipt) /\ storesNeedingRetry(stores) # {}
          /\ Load(p)
          /\ Goto(p, "intent")
          /\ UNCHANGED <<job, todo, due, lease, live>>
       \/ /\ ~canRetry(Receipt) \/ storesNeedingRetry(stores) = {}
          /\ GiveBack(p)
          /\ due' = IF lease = p /\ storesNeedingRetry(stores) = {} THEN "never" ELSE due
          /\ Leave(p)
    /\ UNCHANGED <<status, stores, hold, retries, plan, subject, bounds>>

\* The intent is on the audit trail.
RecordIntent(p) ==
    /\ pc[p] = "intent"
    /\ Goto(p, "seal")
    /\ UNCHANGED <<row, lease, live, job, view, todo, subject, bounds>>

\* sealErasedSubject; a resume of an unknown subject has no alias to seal.
Seal(p) ==
    /\ pc[p] = "seal"
    /\ sealed' = (sealed \/ found \/ Coverage(p) = "full")
    /\ todo' = [todo EXCEPT ![p] = storesNeedingRetry(view[p].stores)]
    /\ Goto(p, "sweep")
    /\ UNCHANGED <<row, lease, live, job, view, data, found, register, turn, bounds>>

\* The audit sink or the tombstone register throws.  A resume counts the pass
\* and gives the lease back, if it still has it (abandonPass); the request
\* leaves its lease to expire.
AbandonPass(p) ==
    /\ pc[p] \in {"intent", "seal"}
    /\ faults < MaxFaults
    /\ faults' = faults + 1
    /\ \/ /\ job[p] # "request" /\ lease = p
          /\ retries' = view[p].retries + 1
          /\ due' = scheduleAfterRetry(view[p].status, view[p].retries + 1)
          /\ GiveBack(p)
       \/ /\ job[p] = "request" \/ lease # p
          /\ UNCHANGED <<retries, due, lease, live>>
    /\ Leave(p)
    /\ UNCHANGED <<status, stores, hold, plan, subject, crashes>>

\* runErasure, one store: the first in EXECUTION_ORDER still to do.
SweepStore(p) ==
    /\ pc[p] = "sweep"
    /\ found
    /\ \E i \in 1..Len(EXECUTION_ORDER) :
         LET s == EXECUTION_ORDER[i]
             A == Addressable(s, Coverage(p))
         IN  /\ s \in todo[p]
             /\ \A j \in 1..(i - 1) : EXECUTION_ORDER[j] \notin todo[p]
             /\ todo' = [todo EXCEPT ![p] = @ \ {s}]
             /\ \E D \in SUBSET A : \E o \in Reports(s, A, D) :
                  /\ o \notin {Clean, Absent} /\ ~(s = "minio" /\ objectMapLost)
                        => faults < MaxFaults
                  /\ faults' = IF o \in {Clean, Absent} \/ (s = "minio" /\ objectMapLost)
                               THEN faults ELSE faults + 1
                  /\ data' = [data EXCEPT ![s] = @ \ D]
                  /\ view' = [view EXCEPT ![p].stores[s] =
                        preserveVerificationFailure(@, demoteForCoverage(s, Coverage(p), o))]
    /\ UNCHANGED <<row, lease, live, pc, job, found, sealed, register, turn, crashes>>

\* finish: the receipt is written whoever holds the lease.  A run over a
\* subject nobody resolves to is a verification failure.
Persist(p) ==
    /\ pc[p] = "sweep"
    /\ todo[p] = {} \/ ~found
    /\ LET st == IF found THEN deriveStatus(view[p].stores) ELSE "FAILED"
       IN  /\ status' = st
           /\ due' = scheduleAfterRetry(st, view[p].retries + 1)
    /\ stores' = view[p].stores
    /\ retries' = view[p].retries + 1
    /\ hold' = view[p].hold
    /\ Goto(p, "release")
    /\ UNCHANGED <<plan, lease, live, job, view, todo, subject, bounds>>

ReleaseLease(p) ==
    /\ pc[p] = "release"
    /\ GiveBack(p)
    /\ Leave(p)
    /\ UNCHANGED <<row, subject, bounds>>

Crash(p) ==
    /\ pc[p] # "idle"
    /\ crashes < MaxCrashes
    /\ crashes' = crashes + 1
    /\ Leave(p)
    /\ UNCHANGED <<row, lease, live, subject, faults>>

----------------------------------------------------------------------------
(* Time, counsel and the subject.                                          *)

Working(p) == pc[p] \in {"reread", "intent", "seal", "sweep", "release"}

LeaseExpires ==
    /\ live
    /\ slow \/ ~Working(lease)
    /\ live' = FALSE
    /\ UNCHANGED <<row, lease, pc, job, view, todo, subject, bounds>>

BackoffElapses ==
    /\ due = "later"
    /\ due' = "now"
    /\ UNCHANGED <<status, stores, hold, retries, plan, lease, live, pc, job, view, todo,
                   subject, bounds>>

FileHold ==
    /\ register = "none"
    /\ register' \in Holds \cap {"canonical", "handle"}
    /\ UNCHANGED <<row, lease, live, pc, job, view, todo, data, found, sealed, turn, bounds>>

LiftHold ==
    /\ register \in {"canonical", "handle"}
    /\ register' = "lifted"
    /\ UNCHANGED <<row, lease, live, pc, job, view, todo, data, found, sealed, turn, bounds>>

\* A new thread with Redis state, or a new attachment, while the register
\* still lets the subject in.
LateRows(k) ==
    /\ LateWrites /\ found /\ ~sealed
    /\ status # "ABSENT" /\ "known" \in data["postgres"]
    /\ LET other == IF k = "upload" THEN "minio" ELSE "redis"
       IN  data' = [data EXCEPT !["postgres"] = @ \cup {k}, ![other] = @ \cup {k}]
    /\ UNCHANGED <<row, lease, live, pc, job, view, todo, found, sealed, register, turn, bounds>>

\* assertSubjectNotErased admits a turn of the subject.
TurnAdmitted ==
    /\ TurnsInFlight /\ found /\ ~sealed
    /\ turn = "none"
    /\ turn' = "admitted"
    /\ UNCHANGED <<row, lease, live, pc, job, view, todo, data, found, sealed, register, bounds>>

\* It ends while its Turn row still exists: recordUsage adds to cost:user.
TurnEnds ==
    /\ turn = "admitted"
    /\ turn' = "ended"
    /\ data' = IF "known" \in data["postgres"]
               THEN [data EXCEPT !["redis"] = @ \cup {"legacy"}]
               ELSE data
    /\ UNCHANGED <<row, lease, live, pc, job, view, todo, found, sealed, register, bounds>>

----------------------------------------------------------------------------
Step(p) ==
    \/ CreateOperation(p) \/ CheckPermitted(p) \/ ClaimLease(p) \/ ReRead(p)
    \/ RecordIntent(p) \/ Seal(p) \/ AbandonPass(p) \/ SweepStore(p) \/ Persist(p) \/ ReleaseLease(p)

Next ==
    /\ \/ \E p \in Passes :
             \/ RequestErasure(p) \/ RetryErasureById(p) \/ ResumeErasure(p)
             \/ ResumeDueErasures(p) \/ Step(p) \/ Crash(p)
       \/ LeaseExpires \/ BackoffElapses
       \/ FileHold \/ LiftHold
       \/ \E k \in {"thread", "upload"} : LateRows(k)
       \/ TurnAdmitted \/ TurnEnds
    /\ UNCHANGED setting

Spec == Init /\ [][Next]_vars

\* A pass that started goes on (every store call has a timeout), the cron a
\* deployment points at the resume-due route fires, leases and backoffs run out.
Fairness ==
    /\ \A p \in Passes : WF_vars(Step(p) /\ UNCHANGED setting)
    /\ WF_vars(\E p \in Passes : ResumeDueErasures(p) /\ UNCHANGED setting)
    /\ WF_vars(LeaseExpires /\ UNCHANGED setting)
    /\ WF_vars(BackoffElapses /\ UNCHANGED setting)

FairSpec == Spec /\ Fairness

\* And an operator who keeps retrying with the external id.
OperatorSpec == FairSpec /\ WF_vars(\E p \in Passes : RetryErasureById(p) /\ UNCHANGED setting)

----------------------------------------------------------------------------
TypeOK ==
    /\ status \in Statuses
    /\ stores \in [Stores -> Outcomes]
    /\ hold \in BOOLEAN
    /\ retries \in Nat
    /\ due \in {"never", "later", "now"}
    /\ plan \in {"none", "no objects", "objects"}
    /\ lease \in Passes \cup {NoPass}
    /\ live \in BOOLEAN
    /\ pc \in [Passes -> Points]
    /\ job \in [Passes -> Jobs]
    /\ view \in [Passes -> [status : Statuses, stores : [Stores -> Outcomes],
                            hold : BOOLEAN, retries : Nat]]
    /\ todo \in [Passes -> SUBSET Stores]
    /\ data \in [Stores -> SUBSET Kinds]
    /\ found \in BOOLEAN
    /\ sealed \in BOOLEAN
    /\ register \in {"none", "canonical", "handle", "lifted"}
    /\ turn \in {"none", "admitted", "ended"}
    /\ faults \in 0..MaxFaults
    /\ crashes \in 0..MaxCrashes
    /\ setting \in Settings

\* A completed receipt is a true statement: nothing of the subject is left in
\* any store, whichever passes ran, overlapped, died or only had the plan.
CompletedMeansGone ==
    status = "SUCCEEDED" => \A s \in Stores : data[s] = {}

\* Nothing is destroyed before the subject is in the erased-subject register:
\* the barrier precedes every sweep, including a queue-driven recovery.
SealedBeforeSwept ==
    [][\A s \in Stores : data[s] \subseteq data'[s] \/ sealed]_vars

\* "Two concurrent resumes cannot both sweep": the lease claimed before every
\* destructive pass keeps a second pass out, as long as passes end within it.
OneSweeper ==
    ~slow => \A p, q \in Passes : pc[p] = "sweep" /\ pc[q] = "sweep" => p = q

\* A signed-off receipt is not written over: a pass that read the row before
\* it took the lease reads it again.  (A pass that outlasts its lease writes
\* its receipt all the same, by design.)
SignedOffStays ==
    [][~slow /\ status = "SUCCEEDED" => status' = "SUCCEEDED" /\ stores' = stores]_vars

\* What the drain's selection may pick, now or when its time has come.
Queued == status \in {"PENDING", "ACTIVE", "FAILED"} /\ ~hold /\ due # "never"

\* The queue is done with every operation in the end: it completes, is held, or
\* is parked for an operator once its retries are used up, whatever crashes,
\* throws, outlives its lease or is retried by hand beside it.
QueueLetsGo == <>[]~Queued

\* "legal hold in force; retry blocked until released" (canRetry): once the
\* hold is lifted an operator's retry gets past it.
LiftedHoldUnblocks == (hold /\ register = "lifted") ~> ~hold
=============================================================================
