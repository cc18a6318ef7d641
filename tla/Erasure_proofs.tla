--------------------------- MODULE Erasure_proofs ---------------------------
(***************************************************************************)
(* Proofs about Erasure, for any number of passes, any installed stores    *)
(* and any bounds.                                                         *)
(***************************************************************************)
EXTENDS Erasure, TLAPS

----------------------------------------------------------------------------
\* Before the plan exists no pass gets past the check: the row is absent, or
\* was cancelled under a hold.
PlanInv ==
    /\ status = "ABSENT" => plan = "none" /\ \A p \in Passes : pc[p] \in {"idle", "create"}
    /\ plan = "none" => /\ status = "ABSENT" \/ hold
                        /\ \A p \in Passes : \/ pc[p] \in {"idle", "create"}
                                             \/ pc[p] = "check" /\ view[p].hold

\* Passes that end within their lease: the one at work has it, and works on a
\* receipt that is not signed off.
LeaseInv ==
    ~slow => \A p \in Passes :
        /\ Working(p) => lease = p /\ live
        /\ pc[p] \in {"intent", "seal", "sweep"} => status # "SUCCEEDED"

\* The barrier is up when the stores of somebody are swept.
SealInv == \A p \in Passes : pc[p] = "sweep" /\ found => sealed

\* Where no rows come late, a store is settled only once it is empty.
Quiet == ~LateWrites /\ ~TurnsInFlight

GoneInv ==
    Quiet =>
        /\ turn = "none"
        /\ \A s \in Stores : data[s] \subseteq {"known", "legacy"} /\ (s \notin Provisioned => data[s] = {})
        /\ data["minio"] \subseteq {"known"}
        /\ plan = "no objects" => data["minio"] = {}
        /\ \A s \in Stores : isStoreSettled(stores[s]) => data[s] = {}
        /\ \A p \in Passes : \A s \in Stores : isStoreSettled(view[p].stores[s]) => data[s] = {}
        /\ CompletedMeansGone

EInv == TypeOK /\ PlanInv /\ LeaseInv /\ SealInv /\ GoneInv

----------------------------------------------------------------------------
Views == [status : Statuses, stores : [Stores -> Outcomes], hold : BOOLEAN, retries : Nat]

\* The receipt as a pass reads it is a view, and so is the empty view of a pass not started.
LEMMA ReceiptType ==
    ASSUME TypeOK
    PROVE  /\ Receipt \in Views /\ Receipt.stores = stores /\ Receipt.hold = hold /\ Receipt.status = status
           /\ NoView \in Views /\ NoView.stores = [s \in Stores |-> pendingStore] /\ ~NoView.hold
<1>1. pendingStore \in Outcomes
  BY DEF pendingStore, Outcomes
<1>2. NoView \in Views /\ NoView.stores = [s \in Stores |-> pendingStore] /\ ~NoView.hold
  BY <1>1 DEF NoView, Views, Statuses
<1> QED
  BY <1>2, Zenon DEF Receipt, Views, TypeOK

\* What the end of a pass, or its reading the row, does to its locals.
LEMMA LeaveType ==
    ASSUME TypeOK, NEW p \in Passes, Leave(p)
    PROVE  /\ pc' \in [Passes -> Points] /\ job' \in [Passes -> Jobs]
           /\ view' \in [Passes -> Views] /\ todo' \in [Passes -> SUBSET Stores]
           /\ pc'[p] = "idle" /\ view'[p] = NoView
           /\ \A q \in Passes \ {p} : pc'[q] = pc[q] /\ view'[q] = view[q]
<1>1. pc \in [Passes -> Points] /\ job \in [Passes -> Jobs] /\ view \in [Passes -> Views] /\ todo \in [Passes -> SUBSET Stores]
  BY Zenon DEF TypeOK, Views
<1>2. pc' \in [Passes -> Points] /\ job' \in [Passes -> Jobs] /\ todo' \in [Passes -> SUBSET Stores]
  BY <1>1 DEF Leave, Goto, Points, Jobs
<1>3. view' \in [Passes -> Views] /\ view'[p] = NoView /\ \A q \in Passes \ {p} : view'[q] = view[q]
  BY <1>1, ReceiptType DEF Leave
<1>4. pc'[p] = "idle" /\ \A q \in Passes \ {p} : pc'[q] = pc[q]
  BY <1>1 DEF Leave, Goto
<1> QED
  BY <1>2, <1>3, <1>4

\* Loading the receipt fills the view of the loading pass and of no other.
LEMMA LoadType ==
    ASSUME TypeOK, NEW p \in Passes, Load(p)
    PROVE  /\ view' \in [Passes -> Views] /\ view'[p] = Receipt
           /\ \A q \in Passes \ {p} : view'[q] = view[q]
<1>1. view \in [Passes -> Views]
  BY Zenon DEF TypeOK, Views
<1> QED
  BY <1>1, ReceiptType DEF Load

\* A request notes in its own view whether the subject is held.
LEMMA RequestType ==
    ASSUME TypeOK, NEW p \in Passes, RequestErasure(p)
    PROVE  /\ view' \in [Passes -> Views] /\ view'[p].stores = view[p].stores
           /\ \A q \in Passes \ {p} : view'[q] = view[q]
<1>1. view \in [Passes -> Views]
  BY Zenon DEF TypeOK, Views
<1>2. PICK h \in BOOLEAN : view' = [view EXCEPT ![p].hold = h]
  <2>1. Held \in BOOLEAN
    BY DEF Held
  <2> QED
    BY <2>1, Zenon DEF RequestErasure
<1>3. view' = [view EXCEPT ![p] = [view[p] EXCEPT !.hold = h]]
  BY <1>2, Zenon
<1>4. [view[p] EXCEPT !.hold = h] \in Views /\ [view[p] EXCEPT !.hold = h].stores = view[p].stores
  BY <1>1 DEF Views
<1> QED
  BY <1>1, <1>3, <1>4

\* The store executor's outcome, as the receipt keeps it.
Kept(previous, s, c, o) == preserveVerificationFailure(previous, demoteForCoverage(s, c, o))

\* What the receipt keeps of an executor's outcome is settled only when the executor settled it
\* and coverage did not demote it.
LEMMA KeptOutcome ==
    ASSUME NEW previous \in Outcomes, NEW s, NEW c, NEW o \in Outcomes
    PROVE  /\ Kept(previous, s, c, o) \in Outcomes
           /\ isStoreSettled(Kept(previous, s, c, o)) =>
                 /\ isStoreSettled(o)
                 /\ o.status = "not_provisioned" \/ ~(c = "locators_only" /\ s \in STORES_KEYED_BY_LEGACY_ID)
<1> DEFINE d == demoteForCoverage(s, c, o)
<1>1. /\ d = [status |-> o.status, check |-> d.check]
      /\ d.check = IF c = "locators_only" /\ s \in STORES_KEYED_BY_LEGACY_ID /\ o.check = "passed"
                     THEN "unknown" ELSE o.check
  BY DEF demoteForCoverage, Outcomes
<1>2. d \in Outcomes
  BY <1>1 DEF Outcomes
<1> HIDE DEF d
<1>3. Kept(previous, s, c, o) = IF previous.check = "failed" /\ d.check # "passed"
                                  THEN [d EXCEPT !.check = "failed"] ELSE d
  BY DEF Kept, preserveVerificationFailure, d
<1>4. [d EXCEPT !.check = "failed"] = [status |-> d.status, check |-> "failed"]
  BY <1>2 DEF Outcomes
<1>5. Kept(previous, s, c, o) \in Outcomes
  BY <1>2, <1>3, <1>4 DEF Outcomes
<1>6. \A x \in Outcomes : isStoreSettled(x) <=> x.status = "not_provisioned" \/ (x.status = "done" /\ x.check = "passed")
  BY DEF Outcomes, isStoreSettled, Clean
<1>7. /\ Kept(previous, s, c, o).status = o.status
      /\ Kept(previous, s, c, o).check = "passed" => d.check = "passed"
  BY <1>1, <1>2, <1>3, <1>4 DEF Outcomes
<1> HIDE DEF Kept
<1> QED
  BY <1>1, <1>5, <1>6, <1>7

\* A settled report of a provisioned store means that everything addressable was deleted.
LEMMA ReportType ==
    ASSUME NEW s, NEW A, NEW D, NEW o \in Reports(s, A, D)
    PROVE  /\ o \in Outcomes
           /\ o.status = "not_provisioned" => s \notin Provisioned
           /\ isStoreSettled(o) /\ s \in Provisioned => D = A /\ ~(s = "minio" /\ objectMapLost)
<1>1. CASE s \notin Provisioned \/ (s = "minio" /\ objectMapLost)
  BY <1>1 DEF Reports, Absent, Failed, Clean, Outcomes, isStoreSettled
<1>2. CASE ~(s \notin Provisioned \/ (s = "minio" /\ objectMapLost)) /\ s = "postgres"
  BY <1>2 DEF Reports, Failed, Clean, Outcomes, isStoreSettled
<1>3. CASE ~(s \notin Provisioned \/ (s = "minio" /\ objectMapLost)) /\ s # "postgres"
  <2>1. /\ o \in [status : {"done", "failed"}, check : {"passed", "failed", "unknown"}]
        /\ o.check = "passed" => D = A
    BY <1>3, Zenon DEF Reports
  <2> QED
    BY <1>3, <2>1 DEF Outcomes, isStoreSettled, Clean
<1> QED
  BY <1>1, <1>2, <1>3

\* One store swept by p, with the rows D deleted and o reported.
Swept(p, s, D, o) ==
    /\ D \subseteq Addressable(s, Coverage(p)) /\ o \in Reports(s, Addressable(s, Coverage(p)), D)
    /\ data' = [data EXCEPT ![s] = data[s] \ D]
    /\ view' \in [Passes -> Views]
    /\ \A q \in Passes \ {p} : view'[q] = view[q]
    /\ view'[p].stores = [view[p].stores EXCEPT ![s] = Kept(view[p].stores[s], s, Coverage(p), o)]
    /\ view'[p].hold = view[p].hold
    /\ todo' \in [Passes -> SUBSET Stores] /\ faults' \in 0..MaxFaults

\* A sweep step deletes from one store and records that store's outcome in the pass's view.
LEMMA SweepEffect ==
    ASSUME TypeOK, NEW p \in Passes, SweepStore(p)
    PROVE  \E s \in Stores : \E D, o : Swept(p, s, D, o)
<1>1. PICK i \in 1..4 : LET s == EXECUTION_ORDER[i]
                            A == Addressable(s, Coverage(p))
         IN  /\ todo' = [todo EXCEPT ![p] = @ \ {s}]
             /\ \E D \in SUBSET A : \E o \in Reports(s, A, D) :
                  /\ o \notin {Clean, Absent} /\ ~(s = "minio" /\ objectMapLost)
                        => faults < MaxFaults
                  /\ faults' = IF o \in {Clean, Absent} \/ (s = "minio" /\ objectMapLost)
                               THEN faults ELSE faults + 1
                  /\ data' = [data EXCEPT ![s] = @ \ D]
                  /\ view' = [view EXCEPT ![p].stores[s] = Kept(@, s, Coverage(p), o)]
  <2>1. Len(EXECUTION_ORDER) = 4
    BY DEF EXECUTION_ORDER
  <2> QED
    BY <2>1, Zenon DEF SweepStore, Kept
<1> DEFINE s == EXECUTION_ORDER[i]
           A == Addressable(s, Coverage(p))
<1>2. s \in Stores
  <2>1. i = 1 \/ i = 2 \/ i = 3 \/ i = 4
    OBVIOUS
  <2> QED
    BY <2>1 DEF EXECUTION_ORDER, Stores
<1>a. PICK D \in SUBSET A : \E o \in Reports(s, A, D) :
         /\ o \notin {Clean, Absent} /\ ~(s = "minio" /\ objectMapLost) => faults < MaxFaults
         /\ faults' = IF o \in {Clean, Absent} \/ (s = "minio" /\ objectMapLost) THEN faults ELSE faults + 1
         /\ data' = [data EXCEPT ![s] = @ \ D]
         /\ view' = [view EXCEPT ![p].stores[s] = Kept(@, s, Coverage(p), o)]
  BY <1>1, Zenon
<1>3. PICK o \in Reports(s, A, D) :
         /\ o \notin {Clean, Absent} /\ ~(s = "minio" /\ objectMapLost) => faults < MaxFaults
         /\ faults' = IF o \in {Clean, Absent} \/ (s = "minio" /\ objectMapLost) THEN faults ELSE faults + 1
         /\ data' = [data EXCEPT ![s] = @ \ D]
         /\ view' = [view EXCEPT ![p].stores[s] = Kept(@, s, Coverage(p), o)]
  BY <1>a, Zenon
<1>4. todo' = [todo EXCEPT ![p] = @ \ {s}]
  BY <1>1, Zenon
<1> HIDE DEF s, A
<1>5. todo' \in [Passes -> SUBSET Stores] /\ faults' \in 0..MaxFaults
  <2>1. todo' \in [Passes -> SUBSET Stores]
    BY <1>4, Zenon DEF TypeOK
  <2>2. faults' \in {faults, faults + 1} /\ (faults' = faults + 1 => faults < MaxFaults \/ faults' = faults)
    BY <1>3, Zenon
  <2>3. MaxFaults \in Nat /\ faults \in 0..MaxFaults
    BY ErasureAssumption, Zenon DEF TypeOK
  <2> QED
    BY <2>1, <2>2, <2>3
<1>6. o \in Outcomes
  BY ReportType
<1> DEFINE v == view[p]
           k == Kept(v.stores[s], s, Coverage(p), o)
           st == [v.stores EXCEPT ![s] = k]
           w == [v EXCEPT !.stores = st]
<1>7. v \in Views /\ v.stores \in [Stores -> Outcomes] /\ v.stores[s] \in Outcomes /\ view \in [Passes -> Views]
  BY <1>2, Zenon DEF TypeOK, Views
<1>8. k \in Outcomes
  BY <1>6, <1>7, KeptOutcome, Zenon
<1>9. view' = [view EXCEPT ![p] = w]
  BY <1>3, Zenon
<1> HIDE DEF k
<1>10. st \in [Stores -> Outcomes]
  BY <1>7, <1>8, Zenon
<1> HIDE DEF st
<1>11. w \in Views /\ w.stores = st /\ w.hold = v.hold
  BY <1>7, <1>10 DEF Views
<1> HIDE DEF w
<1>12. view' \in [Passes -> Views] /\ view'[p] = w /\ \A q \in Passes \ {p} : view'[q] = view[q]
  BY <1>7, <1>9, <1>11
<1>13. Swept(p, s, D, o)
  BY <1>3, <1>5, <1>11, <1>12 DEF Swept, st, k, A
<1> QED
  BY <1>2, <1>13

----------------------------------------------------------------------------
\* What a caller of the service, or its death, does next.
Acts(p) ==
    \/ RequestErasure(p) \/ RetryErasureById(p) \/ ResumeErasure(p) \/ ResumeDueErasures(p)
    \/ Step(p) \/ Crash(p)

\* The control flow of requestErasure and runResumePass.
Move(a, b) ==
    \/ b = "idle"
    \/ a = "idle" /\ b \in {"create", "check"}
    \/ a = "create" /\ b = "intent"
    \/ a = "check" /\ b = "claim"
    \/ a = "claim" /\ b = "reread"
    \/ a = "reread" /\ b = "intent"
    \/ a = "intent" /\ b = "seal"
    \/ a = "seal" /\ b = "sweep"
    \/ a = "sweep" /\ b \in {"sweep", "release"}

\* A step of p moves p alone, and each variable has its writers.
Moved(p) ==
    /\ pc' \in [Passes -> Points]
    /\ Move(pc[p], pc'[p])
    /\ \A q \in Passes \ {p} : pc'[q] = pc[q]
    /\ pc[p] = "create" /\ pc'[p] = "intent" => CreateOperation(p)
    /\ pc[p] = "idle" /\ pc'[p] = "check" => Load(p) /\ status # "ABSENT"
    /\ pc[p] = "check" /\ pc'[p] = "claim" => ~view[p].hold /\ UNCHANGED view
    /\ pc[p] = "claim" /\ pc'[p] = "reread" => ClaimLease(p)
    /\ pc[p] = "reread" /\ pc'[p] = "intent" => ReRead(p) /\ status # "SUCCEEDED"
    /\ pc[p] = "seal" /\ pc'[p] = "sweep" => Seal(p)

Written(p) ==
    /\ UNCHANGED <<status, stores>> \/ (CreateOperation(p) /\ UNCHANGED stores) \/ Persist(p)
    /\ UNCHANGED hold \/ hold' = TRUE \/ Persist(p)
    /\ UNCHANGED retries \/ AbandonPass(p) \/ Persist(p)
    /\ due' \in {due, "never", "later", "now"}
    /\ UNCHANGED plan \/ CreateOperation(p)
    /\ \/ UNCHANGED <<lease, live>> \/ CreateOperation(p) \/ ClaimLease(p)
       \/ GiveBack(p) /\ pc'[p] = "idle"
    /\ UNCHANGED job \/ \E j \in Jobs : job' = [job EXCEPT ![p] = j]
    /\ UNCHANGED view \/ Leave(p) \/ Load(p) \/ RequestErasure(p) \/ SweepStore(p)
    /\ UNCHANGED todo \/ Leave(p) \/ Seal(p) \/ SweepStore(p)
    /\ UNCHANGED data \/ SweepStore(p)
    /\ UNCHANGED sealed \/ Seal(p)
    /\ UNCHANGED <<found, register, turn>>
    /\ UNCHANGED faults \/ AbandonPass(p) \/ SweepStore(p)
    /\ UNCHANGED crashes \/ Crash(p)

\* What one step of a pass does: it moves only its own pass, and writes the receipt or a store
\* only at the points executeErasure does.
LEMMA Flow ==
    ASSUME pc \in [Passes -> Points], NEW p \in Passes, Acts(p)
    PROVE  Moved(p) /\ Written(p)
<1>1. ASSUME RequestErasure(p) PROVE Moved(p) /\ Written(p)
  BY <1>1, Zenon DEF RequestErasure, Moved, Written, Move, Goto, Points, Jobs, row, subject, bounds
<1>c. ASSUME CreateOperation(p) PROVE Moved(p) /\ Written(p)
  BY <1>c, Zenon DEF CreateOperation, Leave, Moved, Written, Move, Goto, Points, Jobs, row, subject, bounds
<1>2. ASSUME RetryErasureById(p) PROVE Moved(p) /\ Written(p)
  BY <1>2 DEF RetryErasureById, Moved, Written, Move, Goto, Points, Jobs, row, subject, bounds
<1>3. ASSUME ResumeErasure(p) PROVE Moved(p) /\ Written(p)
  BY <1>3 DEF ResumeErasure, Resume, Moved, Written, Move, Goto, Points, Jobs, row, subject, bounds
<1>4. ASSUME ResumeDueErasures(p) PROVE Moved(p) /\ Written(p)
  BY <1>4 DEF ResumeDueErasures, Resume, Moved, Written, Move, Goto, Points, Jobs, row, subject, bounds
<1>5. ASSUME CheckPermitted(p) PROVE Moved(p) /\ Written(p)
  BY <1>5, Zenon DEF CheckPermitted, Leave, canRetry, Moved, Written, Move, Goto, Points, Jobs, row, subject, bounds
<1>6. ASSUME ClaimLease(p) PROVE Moved(p) /\ Written(p)
  BY <1>6, Zenon DEF ClaimLease, Leave, Moved, Written, Move, Goto, Points, Jobs, row, subject, bounds
<1>7. ASSUME ReRead(p) PROVE Moved(p) /\ Written(p)
  BY <1>7 DEF ReRead, Leave, canRetry, Receipt, Moved, Written, Move, Goto, Points, Jobs, row, subject, bounds
<1>8. ASSUME RecordIntent(p) PROVE Moved(p) /\ Written(p)
  BY <1>8 DEF RecordIntent, Moved, Written, Move, Goto, Points, Jobs, row, subject, bounds
<1>9. ASSUME Seal(p) PROVE Moved(p) /\ Written(p)
  BY <1>9, Zenon DEF Seal, Moved, Written, Move, Goto, Points, Jobs, row, subject, bounds
<1>10. ASSUME AbandonPass(p) PROVE Moved(p) /\ Written(p)
  BY <1>10 DEF AbandonPass, Leave, scheduleAfterRetry, Moved, Written, Move, Goto, Points, Jobs, row, subject, bounds
<1>11. ASSUME SweepStore(p) PROVE Moved(p) /\ Written(p)
  BY <1>11, Zenon DEF SweepStore, Moved, Written, Move, Goto, Points, Jobs, row, subject, bounds
<1>12. ASSUME Persist(p) PROVE Moved(p) /\ Written(p)
  BY <1>12, Zenon DEF Persist, scheduleAfterRetry, Moved, Written, Move, Goto, Points, Jobs, row, subject, bounds
<1>13. ASSUME ReleaseLease(p) PROVE Moved(p) /\ Written(p)
  BY <1>13 DEF ReleaseLease, Leave, Moved, Written, Move, Goto, Points, Jobs, row, subject, bounds
<1>14. ASSUME Crash(p) PROVE Moved(p) /\ Written(p)
  BY <1>14 DEF Crash, Leave, Moved, Written, Move, Goto, Points, Jobs, row, subject, bounds
<1> QED
  BY <1>1, <1>c, <1>2, <1>3, <1>4, <1>5, <1>6, <1>7, <1>8, <1>9, <1>10, <1>11, <1>12, <1>13, <1>14, Zenon DEF Acts, Step

\* Every other step is time's, counsel's or the subject's, or a stutter.
LEMMA Steps ==
    ASSUME [Next]_vars
    PROVE  /\ setting' = setting /\ slow' = slow /\ Quiet' = Quiet
           /\ \/ \E p \in Passes : Acts(p)
              \/ /\ UNCHANGED <<status, stores, hold, retries, plan, lease, pc, job, view, todo, found, sealed, bounds>>
                 /\ due' \in {due, "now"}
                 /\ UNCHANGED live \/ LeaseExpires
                 /\ register' \in {register, "canonical", "handle", "lifted"}
                 /\ \/ UNCHANGED <<data, turn>>
                    \/ \E k \in {"thread", "upload"} : LateRows(k)
                    \/ TurnAdmitted \/ TurnEnds
<1>1. setting' = setting /\ slow' = slow /\ Quiet' = Quiet
  BY DEF Next, vars, slow, Quiet, LateWrites, TurnsInFlight
<1> DEFINE Other == /\ UNCHANGED <<status, stores, hold, retries, plan, lease, pc, job, view, todo, found, sealed, bounds>>
                    /\ due' \in {due, "now"}
                    /\ UNCHANGED live \/ LeaseExpires
                    /\ register' \in {register, "canonical", "handle", "lifted"}
                    /\ \/ UNCHANGED <<data, turn>>
                       \/ \E k \in {"thread", "upload"} : LateRows(k)
                       \/ TurnAdmitted \/ TurnEnds
<1>2. LeaseExpires => Other
  BY Zenon DEF LeaseExpires, row, subject, bounds
<1>3. BackoffElapses => Other
  BY DEF BackoffElapses, subject, bounds
<1>4. FileHold \/ LiftHold => Other
  BY DEF FileHold, LiftHold, row, bounds
<1>5. (\E k \in {"thread", "upload"} : LateRows(k)) \/ TurnAdmitted \/ TurnEnds => Other
  BY DEF LateRows, TurnAdmitted, TurnEnds, row, bounds
<1>6. UNCHANGED vars => Other
  BY DEF vars, bounds
<1> HIDE DEF Other
<1>7. (\E p \in Passes : Acts(p)) \/ Other
  BY <1>2, <1>3, <1>4, <1>5, <1>6 DEF Next, Acts
<1> QED
  BY <1>1, <1>7 DEF Other

RowType ==
    /\ status \in Statuses /\ stores \in [Stores -> Outcomes] /\ hold \in BOOLEAN /\ retries \in Nat
    /\ due \in {"never", "later", "now"} /\ plan \in {"none", "no objects", "objects"}
    /\ lease \in Passes \cup {NoPass} /\ live \in BOOLEAN

LocalType ==
    /\ pc \in [Passes -> Points] /\ job \in [Passes -> Jobs]
    /\ view \in [Passes -> Views] /\ todo \in [Passes -> SUBSET Stores]

SubjectType ==
    /\ data \in [Stores -> SUBSET Kinds] /\ found \in BOOLEAN /\ sealed \in BOOLEAN
    /\ register \in {"none", "canonical", "handle", "lifted"} /\ turn \in {"none", "admitted", "ended"}
    /\ faults \in 0..MaxFaults /\ crashes \in 0..MaxCrashes /\ setting \in Settings

\* The type invariant, from the types of its parts.
LEMMA TypeParts == TypeOK <=> RowType /\ LocalType /\ SubjectType
BY Zenon DEF TypeOK, RowType, LocalType, SubjectType, Views

\* Every step of Next keeps the types.
LEMMA TypeStep == TypeOK /\ [Next]_vars => TypeOK'
<1> SUFFICES ASSUME TypeOK, [Next]_vars PROVE RowType' /\ LocalType' /\ SubjectType'
  BY TypeParts, Zenon DEF TypeOK, RowType, LocalType, SubjectType, Views
<1>0. RowType /\ LocalType /\ SubjectType /\ setting' = setting
  BY TypeParts, Steps
<1>1. ASSUME NEW p \in Passes, Acts(p) PROVE RowType' /\ LocalType' /\ SubjectType'
  <2>0. Moved(p) /\ Written(p)
    BY <1>0, <1>1, Flow DEF LocalType
  <2>1. view[p].status \in Statuses /\ view[p].stores \in [Stores -> Outcomes] /\ view[p].hold \in BOOLEAN /\ view[p].retries + 1 \in Nat
    BY <1>0 DEF LocalType, Views
  <2>2. status' \in Statuses /\ stores' \in [Stores -> Outcomes]
    BY <1>0, <2>0, <2>1, Zenon DEF Written, RowType, CreateOperation, Persist, Statuses, deriveStatus
  <2>3. hold' \in BOOLEAN /\ retries' \in Nat /\ due' \in {"never", "later", "now"}
    BY <1>0, <2>0, <2>1, Zenon DEF Written, RowType, Persist, AbandonPass
  <2>4. plan' \in {"none", "no objects", "objects"} /\ lease' \in Passes \cup {NoPass} /\ live' \in BOOLEAN
    BY <1>0, <2>0, Zenon DEF Written, RowType, CreateOperation, ClaimLease, GiveBack
  <2>5. pc' \in [Passes -> Points] /\ job' \in [Passes -> Jobs]
    BY <1>0, <2>0 DEF Written, Moved, LocalType
  <2>6. view' \in [Passes -> Views]
    <3>1. SweepStore(p) => view' \in [Passes -> Views]
      BY SweepEffect, Zenon DEF Swept
    <3> QED
      BY <1>0, <2>0, <3>1, LeaveType, LoadType, RequestType, Zenon DEF Written, LocalType
  <2>7. todo' \in [Passes -> SUBSET Stores]
    <3>1. SweepStore(p) => todo' \in [Passes -> SUBSET Stores]
      BY SweepEffect, Zenon DEF Swept
    <3>2. Seal(p) => todo' \in [Passes -> SUBSET Stores]
      BY <1>0 DEF Seal, storesNeedingRetry, LocalType
    <3> QED
      BY <1>0, <2>0, <3>1, <3>2, LeaveType DEF Written, LocalType
  <2>8. data' \in [Stores -> SUBSET Kinds] /\ sealed' \in BOOLEAN
    <3>1. ASSUME SweepStore(p) PROVE data' \in [Stores -> SUBSET Kinds]
      <4>0. PICK s \in Stores : \E D : data' = [data EXCEPT ![s] = data[s] \ D]
        BY <3>1, SweepEffect, Zenon DEF Swept
      <4>1. PICK D : data' = [data EXCEPT ![s] = data[s] \ D]
        BY <4>0, Zenon
      <4>2. data \in [Stores -> SUBSET Kinds] /\ data[s] \ D \in SUBSET Kinds
        BY <1>0 DEF SubjectType
      <4> QED
        BY <4>1, <4>2
    <3> QED
      BY <1>0, <2>0, <3>1, Zenon DEF Written, SubjectType, Seal
  <2>9. faults' \in 0..MaxFaults
    <3>1. SweepStore(p) => faults' \in 0..MaxFaults
      BY SweepEffect, Zenon DEF Swept
    <3> QED
      BY <1>0, <2>0, <3>1, ErasureAssumption DEF Written, SubjectType, AbandonPass
  <2>10. crashes' \in 0..MaxCrashes
    <3>1. MaxCrashes \in Nat /\ MaxCrashes' = MaxCrashes
      BY <1>0, ErasureAssumption DEF SubjectType, MaxCrashes
    <3> QED
      BY <1>0, <2>0, <3>1 DEF Written, SubjectType, Crash
  <2>11. RowType' /\ LocalType'
    BY <2>2, <2>3, <2>4, <2>5, <2>6, <2>7, Zenon DEF RowType, LocalType, Views
  <2>12. SubjectType'
    BY <1>0, <2>0, <2>8, <2>9, <2>10 DEF SubjectType, Written, MaxCrashes
  <2> QED
    BY <2>11, <2>12
<1>2. ASSUME UNCHANGED <<status, stores, hold, retries, plan, lease, pc, job, view, todo, found, sealed, bounds>>,
             due' \in {due, "now"}, UNCHANGED live \/ LeaseExpires,
             register' \in {register, "canonical", "handle", "lifted"},
             UNCHANGED <<data, turn>> \/ (\E k \in {"thread", "upload"} : LateRows(k)) \/ TurnAdmitted \/ TurnEnds
      PROVE  RowType' /\ LocalType' /\ SubjectType'
  <2>1. RowType'
    BY <1>0, <1>2, Zenon DEF RowType, LeaseExpires
  <2>2. LocalType'
    BY <1>0, <1>2 DEF LocalType, Views
  <2>3. data' \in [Stores -> SUBSET Kinds]
    BY <1>0, <1>2 DEF SubjectType, LateRows, TurnAdmitted, TurnEnds, Kinds
  <2>4. SubjectType'
    BY <1>0, <1>2, <2>3 DEF SubjectType, LateRows, TurnAdmitted, TurnEnds, bounds, MaxCrashes
  <2> QED
    BY <2>1, <2>2, <2>4
<1> QED
  BY <1>1, <1>2, Steps

----------------------------------------------------------------------------
\* A pass writes no other pass's view.
LEMMA OwnView ==
    ASSUME TypeOK, NEW p \in Passes, Acts(p)
    PROVE  /\ Moved(p) /\ Written(p)
           /\ \A q \in Passes \ {p} : view'[q] = view[q]
<1>1. Moved(p) /\ Written(p)
  BY Flow, Zenon DEF TypeOK
<1>2. SweepStore(p) => \A q \in Passes \ {p} : view'[q] = view[q]
  BY SweepEffect, Zenon DEF Swept
<1> QED
  BY <1>1, <1>2, LeaveType, LoadType, RequestType, Zenon DEF Written

\* Every step keeps PlanInv.
LEMMA PlanStep == TypeOK /\ PlanInv /\ [Next]_vars => PlanInv'
<1> SUFFICES ASSUME TypeOK, PlanInv, [Next]_vars PROVE PlanInv'
  OBVIOUS
<1>1. ASSUME NEW p \in Passes, Acts(p) PROVE PlanInv'
  <2>0. Moved(p) /\ Written(p) /\ \A q \in Passes \ {p} : view'[q] = view[q]
    BY <1>1, OwnView, Zenon
  <2>1. CreateOperation(p) => \/ UNCHANGED <<status, hold, plan>> /\ status # "ABSENT" /\ Leave(p)
                              \/ status' = "CANCELLED" /\ hold' = TRUE /\ UNCHANGED plan /\ status = "ABSENT" /\ Leave(p)
                              \/ status' = "PENDING" /\ plan' # "none"
    BY Zenon DEF CreateOperation
  <2>2. Persist(p) => pc[p] = "sweep" /\ status' # "ABSENT"
    BY Zenon DEF Persist, deriveStatus
  <2>3. status' = "ABSENT" => status = "ABSENT" /\ ~CreateOperation(p) /\ UNCHANGED plan
    BY <2>0, <2>1, <2>2 DEF Written
  <2>4. status' = "ABSENT" => plan' = "none" /\ \A q \in Passes : pc'[q] \in {"idle", "create"}
    BY <2>0, <2>3 DEF PlanInv, Moved, Move
  <2>5. ASSUME plan' = "none" PROVE plan = "none" /\ (CreateOperation(p) \/ UNCHANGED status) /\ ~Persist(p)
    BY <2>0, <2>1, <2>2, <2>5 DEF PlanInv, Written
  <2>6. plan' = "none" => status' = "ABSENT" \/ hold'
    BY <2>0, <2>1, <2>5 DEF PlanInv, Written
  <2>7. ASSUME plan' = "none" PROVE pc'[p] \in {"idle", "create"} \/ (pc'[p] = "check" /\ view'[p].hold)
    <3>1. CASE pc[p] = "idle" /\ pc'[p] = "check"
      BY <2>0, <2>5, <2>7, <3>1, LoadType, ReceiptType DEF Moved, PlanInv
    <3>2. CASE pc[p] = "create" /\ pc'[p] = "intent"
      <4>1. Leave(p) => pc'[p] = "idle"
        BY LeaveType, Zenon
      <4> QED
        BY <2>0, <2>1, <2>7, <3>2, <4>1 DEF Moved
    <3> QED
      BY <2>0, <2>5, <2>7, <3>1, <3>2 DEF Moved, Move, PlanInv
  <2>8. plan' = "none" => \A q \in Passes \ {p} : pc'[q] \in {"idle", "create"} \/ (pc'[q] = "check" /\ view'[q].hold)
    BY <2>0, <2>5 DEF Moved, PlanInv
  <2> QED
    BY <2>4, <2>6, <2>7, <2>8 DEF PlanInv
<1> QED
  BY <1>1, Steps DEF PlanInv

\* Every step keeps LeaseInv: the advisory lock has one holder.
LEMMA LeaseStep == TypeOK /\ PlanInv /\ LeaseInv /\ [Next]_vars => LeaseInv'
<1> SUFFICES ASSUME TypeOK, PlanInv, LeaseInv, [Next]_vars, ~slow, NEW q \in Passes
             PROVE  /\ Working(q)' => lease' = q /\ live'
                    /\ pc'[q] \in {"intent", "seal", "sweep"} => status' # "SUCCEEDED"
  BY Steps DEF LeaseInv
<1>0. \A p \in Passes : /\ Working(p) => lease = p /\ live
                        /\ pc[p] \in {"intent", "seal", "sweep"} => status # "SUCCEEDED"
  BY Zenon DEF LeaseInv
<1>1. ASSUME NEW p \in Passes, Acts(p)
      PROVE  /\ Working(q)' => lease' = q /\ live'
             /\ pc'[q] \in {"intent", "seal", "sweep"} => status' # "SUCCEEDED"
  <2>0. Moved(p) /\ Written(p)
    BY <1>1, OwnView
  <2>1. CreateOperation(p) => \/ UNCHANGED <<status, lease, live>> /\ pc'[p] = "idle"
                              \/ /\ \A r \in Passes : ~Working(r)
                                 /\ status' # "SUCCEEDED"
                                 /\ pc'[p] = "idle" \/ (lease' = p /\ live')
    <3>1. CreateOperation(p) => \/ UNCHANGED <<status, lease, live>> /\ Leave(p)
                                \/ /\ status = "ABSENT" /\ status' \in {"CANCELLED", "PENDING"}
                                   /\ Leave(p) \/ (lease' = p /\ live' = TRUE)
      BY Zenon DEF CreateOperation
    <3>2. status = "ABSENT" => \A r \in Passes : ~Working(r)
      BY DEF PlanInv, Working
    <3>3. Leave(p) => pc'[p] = "idle"
      BY LeaveType, Zenon
    <3> QED
      BY <3>1, <3>2, <3>3
  <2>2. ClaimLease(p) => UNCHANGED <<lease, live, status>> \/ (~live /\ lease' = p /\ live' /\ UNCHANGED status)
    BY Zenon DEF ClaimLease, row
  <2>3. CASE q = p
    <3>1. Working(p)' => lease' = p /\ live'
      <4>1. CASE CreateOperation(p)
        BY <2>1, <4>1, Zenon DEF Working
      <4>2. CASE ~CreateOperation(p) /\ Working(p)'
        <5>1. Working(p) \/ (pc[p] = "claim" /\ pc'[p] = "reread")
          BY <2>0, <4>2, Zenon DEF Moved, Move, Working
        <5>2. CASE Working(p)
          BY <2>0, <2>2, <4>2, <5>2, <1>0 DEF Written, Working
        <5>3. CASE pc[p] = "claim" /\ pc'[p] = "reread"
          <6>1. ClaimLease(p)
            BY <2>0, <5>3, Zenon DEF Moved
          <6> QED
            BY <5>3, <6>1, Zenon DEF ClaimLease, Leave, Goto, TypeOK
        <5> QED
          BY <5>1, <5>2, <5>3
      <4> QED
        BY <4>1, <4>2
    <3>2. pc'[p] \in {"intent", "seal", "sweep"} => status' # "SUCCEEDED"
      <4>1. Persist(p) => pc'[p] = "release"
        BY Zenon DEF Persist, Goto, TypeOK
      <4> QED
        BY <2>0, <2>1, <4>1, <1>0, Zenon DEF Moved, Move, Written
    <3> QED
      BY <2>3, <3>1, <3>2
  <2>4. CASE q # p /\ Working(q)'
    <3>1. Working(q) /\ lease = q /\ live /\ pc'[q] = pc[q]
      BY <2>0, <2>4, <1>0 DEF Moved, Working
    <3>2. (CreateOperation(p) => UNCHANGED <<status, lease, live>>) /\ ~Persist(p)
      BY <2>1, <2>4, <3>1, <1>0, Zenon DEF Persist, Working
    <3>3. lease' = q /\ live'
      BY <2>0, <2>2, <2>4, <3>1, <3>2, Zenon DEF Written, GiveBack
    <3> QED
      BY <2>0, <3>1, <3>2, <3>3, <1>0, Zenon DEF Written
  <2> QED
    BY <2>3, <2>4 DEF Working
<1>2. ASSUME UNCHANGED <<status, lease, pc>>, UNCHANGED live \/ LeaseExpires
      PROVE  /\ Working(q)' => lease' = q /\ live'
             /\ pc'[q] \in {"intent", "seal", "sweep"} => status' # "SUCCEEDED"
  BY <1>0, <1>2 DEF LeaseExpires, Working
<1> QED
  BY <1>1, <1>2, Steps

\* Every step keeps SealInv: the barrier stays up from before the sweep.
LEMMA SealStep == TypeOK /\ SealInv /\ [Next]_vars => SealInv'
<1> SUFFICES ASSUME TypeOK, SealInv, [Next]_vars PROVE SealInv'
  OBVIOUS
<1>1. ASSUME NEW p \in Passes, Acts(p) PROVE SealInv'
  <2>0. Moved(p) /\ Written(p)
    BY <1>1, OwnView
  <2>1. (sealed => sealed') /\ (Seal(p) /\ found => sealed')
    <3>1. sealed \in BOOLEAN /\ found \in BOOLEAN /\ (UNCHANGED sealed \/ Seal(p))
      BY <2>0, Zenon DEF Written, TypeOK
    <3> QED
      BY <3>1 DEF Seal
  <2> QED
    BY <2>0, <2>1 DEF SealInv, Moved, Move, Written
<1>2. ASSUME UNCHANGED <<pc, found, sealed>> PROVE SealInv'
  BY <1>2, Zenon DEF SealInv
<1> QED
  BY <1>1, <1>2, Steps

\* Where no rows come late, a sweep that may settle a store finds everything
\* in it: the narrow pass is demoted, and the lost object map is a failure.
LEMMA SettledIsEmptied ==
    ASSUME TypeOK, PlanInv, GoneInv, Quiet, NEW p \in Passes, pc[p] = "sweep",
           NEW s \in Stores, NEW D, NEW o, Swept(p, s, D, o),
           isStoreSettled(Kept(view[p].stores[s], s, Coverage(p), o))
    PROVE  data'[s] = {}
<1>0. /\ o \in Outcomes /\ view[p].stores[s] \in Outcomes /\ data \in [Stores -> SUBSET Kinds]
      /\ "minio" \in Stores /\ "postgres" \in Stores
  <2>1. o \in Outcomes
    BY ReportType DEF Swept
  <2>2. view[p].stores[s] \in Outcomes /\ data \in [Stores -> SUBSET Kinds]
    BY Zenon DEF TypeOK
  <2> QED
    BY <2>1, <2>2 DEF Stores
<1>1. /\ isStoreSettled(o)
      /\ o.status = "not_provisioned" \/ ~(Coverage(p) = "locators_only" /\ s \in STORES_KEYED_BY_LEGACY_ID)
  BY <1>0, KeptOutcome
<1>2. data'[s] = data[s] \ D
  BY <1>0 DEF Swept
<1>3. /\ \A t \in Stores : data[t] \subseteq {"known", "legacy"} /\ (t \notin Provisioned => data[t] = {})
      /\ data["minio"] \subseteq {"known"} /\ (plan = "no objects" => data["minio"] = {})
  BY Zenon DEF GoneInv
<1>4. CASE s \notin Provisioned
  BY <1>2, <1>3, <1>4, Zenon
<1>5. CASE s \in Provisioned
  <2>1. D = Addressable(s, Coverage(p)) /\ ~(s = "minio" /\ objectMapLost) /\ o.status # "not_provisioned"
    BY <1>1, <1>5, ReportType DEF Swept
  <2>2. CASE s = "minio"
    <3>1. plan \in {"no objects", "objects"}
      BY Zenon DEF PlanInv, TypeOK
    <3>2. CASE plan = "objects"
      <4>1. AttachmentRows = data["postgres"] \cap {"known", "upload"} /\ AttachmentRows # {}
        BY <2>1, <2>2, <3>2 DEF objectMapLost, AttachmentRows
      <4>2. "known" \in AttachmentRows
        BY <4>1, <1>0, <1>3, Zenon
      <4>3. data["minio"] \subseteq Addressable(s, Coverage(p))
        BY <4>2, <2>2, <1>3, Zenon DEF Addressable
      <4> QED
        BY <4>3, <2>1, <2>2, <1>2
    <3> QED
      BY <1>2, <1>3, <2>2, <3>1, <3>2, Zenon
  <2>3. CASE s # "minio"
    <3>1. Coverage(p) = "full"
      BY <1>1, <2>1, <2>3 DEF Coverage, Stores, STORES_KEYED_BY_LEGACY_ID
    <3>2. data[s] \subseteq Addressable(s, Coverage(p))
      BY <3>1, <2>3, <1>3, Zenon DEF Addressable
    <3> QED
      BY <3>2, <2>1, <1>2
  <2> QED
    BY <2>2, <2>3
<1> QED
  BY <1>4, <1>5

\* Every step keeps GoneInv, when nothing writes behind the sweep.
LEMMA GoneStep == TypeOK /\ PlanInv /\ GoneInv /\ [Next]_vars => GoneInv'
<1> SUFFICES ASSUME TypeOK, PlanInv, GoneInv, [Next]_vars, Quiet PROVE GoneInv'
  BY Steps, Zenon DEF GoneInv
<1>0. /\ turn = "none"
      /\ \A s \in Stores : data[s] \subseteq {"known", "legacy"} /\ (s \notin Provisioned => data[s] = {})
      /\ data["minio"] \subseteq {"known"}
      /\ plan = "no objects" => data["minio"] = {}
      /\ \A s \in Stores : isStoreSettled(stores[s]) => data[s] = {}
      /\ \A p \in Passes : \A s \in Stores : isStoreSettled(view[p].stores[s]) => data[s] = {}
      /\ status = "SUCCEEDED" => \A s \in Stores : data[s] = {}
  BY Zenon DEF GoneInv, CompletedMeansGone
<1>m. "minio" \in Stores
  BY DEF Stores
<1>1. ASSUME NEW p \in Passes, Acts(p) PROVE GoneInv'
  <2>0. Moved(p) /\ Written(p) /\ \A q \in Passes \ {p} : view'[q] = view[q]
    BY <1>1, OwnView
  <2>1. \A s \in Stores : data'[s] \subseteq data[s]
    <3>1. ASSUME SweepStore(p) PROVE \A s \in Stores : data'[s] \subseteq data[s]
      <4>1. PICK t \in Stores : \E D, o : Swept(p, t, D, o)
        BY <3>1, SweepEffect
      <4>2. PICK D : data' = [data EXCEPT ![t] = data[t] \ D]
        BY <4>1, Zenon DEF Swept
      <4>3. data \in [Stores -> SUBSET Kinds]
        BY Zenon DEF TypeOK
      <4> QED
        BY <4>2, <4>3, Zenon
    <3> QED
      BY <2>0, <3>1 DEF Written
  <2>2. turn' = "none"
    BY <1>0, <2>0, Zenon DEF Written
  <2>3. /\ \A s \in Stores : data'[s] \subseteq {"known", "legacy"} /\ (s \notin Provisioned => data'[s] = {})
        /\ data'["minio"] \subseteq {"known"}
    BY <1>0, <1>m, <2>1, Zenon
  <2>4. plan' = "no objects" => data'["minio"] = {}
    <3>1. CreateOperation(p) /\ plan' = "no objects" => plan = "no objects" \/ "known" \notin data["minio"]
      BY Zenon DEF CreateOperation
    <3> QED
      BY <1>0, <1>m, <2>0, <2>1, <3>1, Zenon DEF Written
  <2>5. \A s \in Stores : isStoreSettled(stores'[s]) => data'[s] = {}
    <3>1. stores' = stores \/ stores' = view[p].stores
      BY <2>0, Zenon DEF Written, Persist
    <3> QED
      BY <1>0, <2>1, <3>1, Zenon
  <2>6. \A q \in Passes \ {p} : \A s \in Stores : isStoreSettled(view'[q].stores[s]) => data'[s] = {}
    BY <1>0, <2>0, <2>1, Zenon
  <2>7. \A s \in Stores : isStoreSettled(view'[p].stores[s]) => data'[s] = {}
    <3>1. CASE UNCHANGED view
      BY <1>0, <2>1, <3>1, Zenon
    <3>r. CASE RequestErasure(p)
      BY <1>0, <2>1, <3>r, RequestType, Zenon
    <3>2. CASE Leave(p)
      <4>1. \A s \in Stores : view'[p].stores[s] = pendingStore
        BY <3>2, LeaveType, ReceiptType
      <4> QED
        BY <4>1 DEF pendingStore, isStoreSettled, Clean
    <3>3. CASE Load(p)
      <4>1. view'[p].stores = stores
        BY <3>3, LoadType, ReceiptType
      <4> QED
        BY <4>1, <1>0, <2>1, Zenon
    <3>4. CASE SweepStore(p)
      <4>1. PICK t \in Stores : \E D, o : Swept(p, t, D, o)
        BY <3>4, SweepEffect
      <4>2. PICK D, o : Swept(p, t, D, o)
        BY <4>1
      <4>3. pc[p] = "sweep" /\ view[p].stores \in [Stores -> Outcomes]
        BY <3>4, Zenon DEF SweepStore, TypeOK
      <4>4. view'[p].stores = [view[p].stores EXCEPT ![t] = Kept(view[p].stores[t], t, Coverage(p), o)]
        BY <4>2, Zenon DEF Swept
      <4>5. isStoreSettled(view'[p].stores[t]) => data'[t] = {}
        BY <4>2, <4>3, <4>4, SettledIsEmptied
      <4>6. \A s \in Stores \ {t} : view'[p].stores[s] = view[p].stores[s]
        BY <4>3, <4>4
      <4> QED
        BY <4>5, <4>6, <1>0, <2>1, Zenon
    <3> QED
      BY <2>0, <3>1, <3>r, <3>2, <3>3, <3>4, Zenon DEF Written
  <2>8. status' = "SUCCEEDED" => \A s \in Stores : data'[s] = {}
    <3>1. Persist(p) /\ status' = "SUCCEEDED" => \A s \in Stores : isStoreSettled(view[p].stores[s])
      BY Zenon DEF Persist, deriveStatus
    <3>2. CreateOperation(p) => UNCHANGED status \/ status' # "SUCCEEDED"
      BY Zenon DEF CreateOperation
    <3> QED
      BY <1>0, <2>0, <2>1, <3>1, <3>2, Zenon DEF Written
  <2> QED
    BY <2>2, <2>3, <2>4, <2>5, <2>6, <2>7, <2>8, Zenon DEF GoneInv, CompletedMeansGone
<1>2. ASSUME UNCHANGED <<status, stores, plan, view>>,
             UNCHANGED <<data, turn>> \/ (\E k \in {"thread", "upload"} : LateRows(k)) \/ TurnAdmitted \/ TurnEnds
      PROVE  GoneInv'
  <2>1. UNCHANGED <<data, turn>>
    BY <1>0, <1>2, Zenon DEF Quiet, LateRows, TurnAdmitted, TurnEnds
  <2> QED
    BY <1>0, <1>2, <2>1, Zenon DEF GoneInv, CompletedMeansGone
<1> QED
  BY <1>1, <1>2, Steps

----------------------------------------------------------------------------
\* The initial state satisfies the inductive invariant.
LEMMA ErasureInit == Init => EInv
<1> SUFFICES ASSUME Init PROVE EInv
  OBVIOUS
<1>1. pendingStore \in Outcomes /\ ~isStoreSettled(pendingStore)
  BY DEF pendingStore, Outcomes, isStoreSettled, Clean
<1>2. NoView \in Views /\ NoView.stores = [s \in Stores |-> pendingStore]
  BY <1>1 DEF NoView, Views, Statuses
<1>3. RowType
  BY <1>1, <1>2, Zenon DEF Init, RowType, Statuses
<1>4. LocalType
  BY <1>2 DEF Init, LocalType, Points, Jobs
<1>5. PICK objects \in SUBSET {"known"} :
         data = [s \in Stores |-> IF ~found \/ s \notin Provisioned THEN {}
                                  ELSE IF s = "minio" THEN objects ELSE {"known", "legacy"}]
  BY Zenon DEF Init
<1>6. /\ data \in [Stores -> SUBSET Kinds]
      /\ \A s \in Stores : data[s] \subseteq {"known", "legacy"} /\ (s \notin Provisioned => data[s] = {})
      /\ data["minio"] \subseteq {"known"}
  BY <1>5, Zenon DEF Kinds, Stores
<1>7. SubjectType
  <2>1. setting \in Settings /\ found \in BOOLEAN /\ 0 \in 0..MaxFaults /\ 0 \in 0..MaxCrashes
    <3>2. setting \in Settings /\ found \in BOOLEAN
      BY Zenon DEF Init
    <3>1. MaxFaults \in Nat /\ MaxCrashes \in Nat
      BY <3>2, ErasureAssumption DEF MaxCrashes
    <3>3. 0 \in 0..MaxFaults /\ 0 \in 0..MaxCrashes
      BY <3>1
    <3> QED
      BY <3>1, <3>2, <3>3, Zenon
  <2> QED
    BY <1>6, <2>1, Zenon DEF Init, SubjectType
<1>8. PlanInv /\ LeaseInv /\ SealInv
  BY DEF Init, PlanInv, LeaseInv, SealInv, Working
<1>9. GoneInv
  BY <1>1, <1>2, <1>6 DEF Init, GoneInv, CompletedMeansGone
<1> QED
  BY <1>3, <1>4, <1>7, <1>8, <1>9, TypeParts, Zenon DEF EInv

\* The inductive invariant of the erasure holds in every behaviour.
LEMMA ErasureInvariant == Spec => []EInv
<1>1. EInv /\ [Next]_vars => EInv'
  BY TypeStep, PlanStep, LeaseStep, SealStep, GoneStep DEF EInv
<1> QED
  BY <1>1, ErasureInit, PTL DEF Spec

\* Every variable keeps its type, whatever the passes and the bounds.
THEOREM ErasureTypeCorrect == Spec => []TypeOK
BY ErasureInvariant, PTL DEF EInv

\* Where no row of the subject comes after the plan and no turn admitted before
\* the seal ends after it, a receipt deriveStatus calls completed is true,
\* whichever passes overlapped, outlived their lease, died, failed or only had
\* the plan.
THEOREM CompletedIsGone ==
    ASSUME \A x \in Settings : ~x.late /\ ~x.inFlight PROVE Spec => []CompletedMeansGone
<1>1. EInv => CompletedMeansGone
  BY Zenon DEF EInv, GoneInv, Quiet, LateWrites, TurnsInFlight, TypeOK
<1> QED
  BY <1>1, ErasureInvariant, PTL

\* claimLease lets one pass through at a time when passes end within the lease.
THEOREM SweepsDoNotOverlap == Spec => []OneSweeper
<1>1. EInv => OneSweeper
  BY DEF EInv, LeaseInv, OneSweeper, Working
<1> QED
  BY <1>1, ErasureInvariant, PTL

\* runErasure deletes nothing before sealErasedSubject has run.
THEOREM BarrierPrecedesSweep == Spec => SealedBeforeSwept
<1>1. EInv /\ [Next]_vars => [\A s \in Stores : data[s] \subseteq data'[s] \/ sealed]_vars
  <2> SUFFICES ASSUME EInv, [Next]_vars, NEW s \in Stores PROVE data[s] \subseteq data'[s] \/ sealed
    BY Zenon
  <2>0. TypeOK /\ SealInv /\ data \in [Stores -> SUBSET Kinds]
    BY Zenon DEF EInv, TypeOK
  <2>1. ASSUME NEW p \in Passes, Acts(p) PROVE data[s] \subseteq data'[s] \/ sealed
    <3>1. UNCHANGED data \/ SweepStore(p)
      BY <2>0, <2>1, OwnView, Zenon DEF Written
    <3>2. SweepStore(p) => pc[p] = "sweep" /\ found
      BY DEF SweepStore
    <3> QED
      BY <2>0, <3>1, <3>2 DEF SealInv
  <2>2. ASSUME UNCHANGED <<data, turn>> \/ (\E k \in {"thread", "upload"} : LateRows(k)) \/ TurnAdmitted \/ TurnEnds
        PROVE  data[s] \subseteq data'[s]
    BY <2>0, <2>2 DEF LateRows, TurnAdmitted, TurnEnds
  <2> QED
    BY <2>1, <2>2, Steps
<1> QED
  BY <1>1, ErasureInvariant, PTL DEF Spec, SealedBeforeSwept

\* The re-read under the lease keeps every pass off a signed-off receipt.
THEOREM SignedOffIsFinal == Spec => SignedOffStays
<1>1. EInv /\ [Next]_vars => [~slow /\ status = "SUCCEEDED" => status' = "SUCCEEDED" /\ stores' = stores]_vars
  <2> SUFFICES ASSUME EInv, [Next]_vars, ~slow, status = "SUCCEEDED"
               PROVE  status' = "SUCCEEDED" /\ stores' = stores
    BY Zenon
  <2>1. ASSUME NEW p \in Passes, Acts(p) PROVE status' = "SUCCEEDED" /\ stores' = stores
    <3>1. ~Persist(p) /\ (CreateOperation(p) => UNCHANGED status)
      BY DEF EInv, LeaseInv, Persist, CreateOperation
    <3> QED
      BY <2>1, <3>1, OwnView, Zenon DEF EInv, Written
  <2> QED
    BY <2>1, Steps
<1> QED
  BY <1>1, ErasureInvariant, PTL DEF Spec, SignedOffStays
=============================================================================
