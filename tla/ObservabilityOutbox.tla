------------------------ MODULE ObservabilityOutbox ------------------------
(***************************************************************************)
(* The projection of finished turns into ClickHouse                        *)
(* (observability/observability.service.ts, observability-outbox.ts and    *)
(* clickhouse-observability-sink.ts): a row queued in the transaction that *)
(* ends the turn, drains that may overlap and hold no lease, and the       *)
(* erasure of a subject that runs beside them (module Erasure has the      *)
(* operation itself; here it is a seal, a sweep and a cascade).            *)
(*                                                                         *)
(* A step is one database statement or one insert.  The sink holds what    *)
(* names a person, in two tables: the turn, and what hangs off it.         *)
(***************************************************************************)
EXTENDS Naturals, FiniteSets

CONSTANTS
    Turns,
    Subject,        \* the turns of the subject that is erased
    Drainers,       \* overlapping calls of drain
    NoTurn,
    Batch,          \* PLATOS_OBSERVABILITY_DRAIN_BATCH_SIZE
    MaxRetries,     \* PLATOS_OBSERVABILITY_MAX_RETRIES
    Scenarios       \* which turns there are, which payloads this writer can
                    \* decode, and how often the environment fails (a bound)

ASSUME OutboxAssumption ==
    /\ Subject \subseteq Turns
    /\ NoTurn \notin Turns
    /\ IsFiniteSet(Turns)
    /\ Batch \in Nat \ {0} /\ MaxRetries \in Nat \ {0}
    /\ Scenarios \subseteq [turns : SUBSET Turns, readable : SUBSET Turns, faults : Nat]

VARIABLES
    turn,           \* the Turn rows
    readable,       \* fixed: payloads this writer can decode
    out,            \* the ObservabilityOutbox rows
    dr,             \* the drains
    sink,           \* the rows in ClickHouse, by turn and table
    erasure,        \* how far the erasure of the subject has come
    lost,           \* projections whose enqueue failed, as the log says
    faults          \* failures still to come

vars == <<turn, readable, out, dr, sink, erasure, lost, faults>>

Tables == {"turns", "details"}

NoRow == [status |-> "none", retries |-> 0, due |-> FALSE, old |-> FALSE]

Idle == [at |-> "idle", left |-> {}, seen |-> [t \in Turns |-> 0], cur |-> NoTurn,
         full |-> FALSE, erased |-> {}, blind |-> FALSE]

Init ==
    /\ \E s \in Scenarios :
         /\ turn = [t \in Turns |-> IF t \in s.turns THEN "ACTIVE" ELSE "none"]
         /\ readable = s.readable
         /\ faults = s.faults
    /\ out = [t \in Turns |-> NoRow]
    /\ dr = [d \in Drainers |-> Idle]
    /\ sink = {}
    /\ erasure = "none"
    /\ lost = {}

Fault == faults > 0 /\ faults' = faults - 1

Due == {t \in Turns : out[t].status = "PENDING" /\ out[t].due}

Sealed == erasure # "none"

Goto(d, p) == dr' = [dr EXCEPT ![d].at = p]

\* The drain returns, throws or dies.
Stop(d) == dr' = [dr EXCEPT ![d] = Idle]

\* deliverBatch's loop over the rows left, and drain's: another page after a
\* full one, unless the deadline or the row budget is reached.
Proceed(d, left) ==
    \/ \E t \in left :
         dr' = [dr EXCEPT ![d].cur = t, ![d].left = left \ {t}, ![d].erased = {},
                          ![d].at = IF t \in readable THEN "turns" ELSE "parked"]
    \/ /\ left = {}
       /\ \E p \in IF dr[d].full THEN {"claim", "prune"} ELSE {"prune"} :
            dr' = [dr EXCEPT ![d] = [Idle EXCEPT !.at = p]]

NextRow(d) == Proceed(d, dr[d].left)

\* deliverySucceeded, deliveryFailed and deliveryUndeliverable: the outcome is
\* computed from the row as it was claimed.
deliverySucceeded(n) == [status |-> "DELIVERED", retries |-> n + 1, due |-> FALSE, old |-> FALSE]

deliveryFailed(n) ==
    [status |-> IF n + 1 >= MaxRetries THEN "FAILED" ELSE "PENDING",
     retries |-> n + 1, due |-> FALSE, old |-> FALSE]

deliveryUndeliverable(n) == [status |-> "FAILED", retries |-> n + 1, due |-> FALSE, old |-> FALSE]

(* Faulty variants of actions below, for mutation runs.                     *)

\* Parked rows are pruned with the delivered ones.
Prune_Parked(d) ==
    /\ dr[d].at = "prune"
    /\ out' = [t \in Turns |-> IF out[t].status \in {"DELIVERED", "FAILED"} THEN NoRow ELSE out[t]]
    /\ Stop(d)
    /\ UNCHANGED <<turn, sink, erasure, lost, faults>>

\* A register that cannot be read counts as empty.
CheckErased_FailOpen(d) ==
    /\ dr[d].at = "check"
    /\ LET hits == IF Sealed THEN dr[d].left \cap Subject ELSE {} IN
         \/ /\ hits # {}
            /\ dr' = [dr EXCEPT ![d].at = "discard", ![d].erased = hits]
            /\ UNCHANGED faults
         \/ hits = {} /\ Proceed(d, dr[d].left) /\ UNCHANGED faults
         \/ Fault /\ Proceed(d, dr[d].left)
    /\ UNCHANGED <<turn, out, sink, erasure, lost>>

\* The back-off of a failed delivery never ends.
RetryDue_Never(t) == FALSE /\ t \in Turns /\ UNCHANGED vars

----------------------------------------------------------------------------
\* The transaction that ends a turn, with enqueueProjection in it.  A failed
\* upsert is rolled back to its savepoint and logged, the turn commits; when
\* the rollback fails as well the whole transaction does.
FinishTurn(t) ==
    /\ turn[t] = "ACTIVE"
    /\ \/ /\ turn' = [turn EXCEPT ![t] = "ENDED"]
          /\ out' = [out EXCEPT ![t] = [status |-> "PENDING", retries |-> 0,
                                        due |-> TRUE, old |-> FALSE]]
          /\ UNCHANGED <<lost, faults>>
       \/ /\ Fault
          /\ turn' = [turn EXCEPT ![t] = "ENDED"]
          /\ lost' = lost \cup {t}
          /\ UNCHANGED out
       \/ Fault /\ UNCHANGED <<turn, out, lost>>
    /\ UNCHANGED <<dr, sink, erasure>>

\* drain asks the sink first: unless it is available, nothing is claimed.
Health(d) ==
    /\ dr[d].at = "idle"
    /\ \/ dr' = [dr EXCEPT ![d] = [Idle EXCEPT !.at = "claim"]] /\ UNCHANGED faults
       \/ Fault /\ Stop(d)
    /\ UNCHANGED <<turn, out, sink, erasure, lost>>

\* claim: one page of due rows, read and not marked.
Claim(d) ==
    /\ dr[d].at = "claim"
    /\ \/ \E B \in SUBSET Due \ {{}} :
            /\ Cardinality(B) <= Batch
            /\ Cardinality(B) < Batch => B = Due
            /\ dr' = [dr EXCEPT ![d] = [Idle EXCEPT !.at = "check", !.left = B,
                          !.seen = [t \in Turns |-> IF t \in B THEN out[t].retries ELSE 0],
                          !.full = (Cardinality(B) = Batch)]]
       \/ Due = {} /\ dr' = [dr EXCEPT ![d] = [Idle EXCEPT !.at = "prune"]]
    /\ UNCHANGED <<turn, out, sink, erasure, lost, faults>>

\* erasedRowIds, asked once for the whole batch; a payload that cannot be
\* decoded names no subject.  A lookup that fails refuses the pass.
CheckErased(d) ==
    /\ dr[d].at = "check"
    /\ LET hits == IF Sealed THEN dr[d].left \cap Subject \cap readable ELSE {} IN
         \/ /\ hits # {}
            /\ dr' = [dr EXCEPT ![d].at = "discard", ![d].erased = hits]
            /\ UNCHANGED faults
         \/ hits = {} /\ Proceed(d, dr[d].left) /\ UNCHANGED faults
         \/ Fault /\ Stop(d)
    /\ UNCHANGED <<turn, out, sink, erasure, lost>>

\* deleteMany of what the register named.
Discard(d) ==
    /\ dr[d].at = "discard"
    /\ \/ /\ out' = [t \in Turns |-> IF t \in dr[d].erased THEN NoRow ELSE out[t]]
          /\ Proceed(d, dr[d].left \ dr[d].erased)
          /\ UNCHANGED faults
       \/ Fault /\ Stop(d) /\ UNCHANGED out
    /\ UNCHANGED <<turn, sink, erasure, lost>>

\* writeRows: the turn, then what hangs off it.  A repeated row replaces
\* itself; an insert that fails may have landed.
Insert(d) ==
    /\ dr[d].at \in Tables
    /\ LET row == <<dr[d].cur, dr[d].at>>
       IN  \/ /\ sink' = sink \cup {row}
              /\ Goto(d, IF dr[d].at = "turns" THEN "details" ELSE "delivered")
              /\ UNCHANGED faults
           \/ /\ Fault
              /\ sink' \in {sink, sink \cup {row}}
              /\ Goto(d, "failed")
    /\ UNCHANGED <<turn, out, erasure, lost>>

\* settle after the write, an update by id: it overwrites whatever another
\* drain settled.  A row that is gone, or a failing update, makes a written
\* projection a failed delivery.
SettleDelivered(d) ==
    /\ dr[d].at = "delivered"
    /\ LET t == dr[d].cur IN
         \/ /\ out[t].status # "none"
            /\ out' = [out EXCEPT ![t] = deliverySucceeded(dr[d].seen[t])]
            /\ NextRow(d)
            /\ UNCHANGED faults
         \/ out[t].status = "none" /\ Goto(d, "failed") /\ UNCHANGED <<out, faults>>
         \/ Fault /\ Goto(d, "failed") /\ UNCHANGED out
    /\ UNCHANGED <<turn, sink, erasure, lost>>

\* settle in the catch block; when it fails the pass is over.
SettleFailed(d) ==
    /\ dr[d].at = "failed"
    /\ LET t == dr[d].cur IN
         /\ \/ /\ out[t].status # "none"
               /\ out' = [out EXCEPT ![t] = deliveryFailed(dr[d].seen[t])]
               /\ NextRow(d)
               /\ UNCHANGED faults
            \/ out[t].status = "none" /\ Stop(d) /\ UNCHANGED <<out, faults>>
            \/ Fault /\ Stop(d) /\ UNCHANGED out
    /\ UNCHANGED <<turn, sink, erasure, lost>>

\* A payload this writer cannot decode is parked at once.
Undeliverable(d) ==
    /\ dr[d].at = "parked"
    /\ LET t == dr[d].cur IN
         \/ /\ out[t].status # "none"
            /\ out' = [out EXCEPT ![t] = deliveryUndeliverable(dr[d].seen[t])]
            /\ NextRow(d)
            /\ UNCHANGED faults
         \/ out[t].status = "none" /\ Stop(d) /\ UNCHANGED <<out, faults>>
         \/ Fault /\ Stop(d) /\ UNCHANGED out
    /\ UNCHANGED <<turn, sink, erasure, lost>>

\* prune: acknowledged rows past their retention.
Prune(d) ==
    /\ dr[d].at = "prune"
    /\ out' = [t \in Turns |-> IF out[t].status = "DELIVERED" /\ out[t].old THEN NoRow ELSE out[t]]
    /\ Stop(d)
    /\ UNCHANGED <<turn, sink, erasure, lost, faults>>

\* The process of a drain dies.
Crash(d) ==
    /\ dr[d].at # "idle"
    /\ Fault
    /\ Stop(d)
    /\ UNCHANGED <<turn, out, sink, erasure, lost>>

\* Back-off and retention pass.
RetryDue(t) ==
    /\ out[t].status = "PENDING" /\ ~out[t].due
    /\ out' = [out EXCEPT ![t].due = TRUE]
    /\ UNCHANGED <<turn, dr, sink, erasure, lost, faults>>

Expire(t) ==
    /\ out[t].status = "DELIVERED" /\ ~out[t].old
    /\ out' = [out EXCEPT ![t].old = TRUE]
    /\ UNCHANGED <<turn, dr, sink, erasure, lost, faults>>

----------------------------------------------------------------------------
(* The erasure of the subject.                                             *)

\* sealErasedSubject; "blind" notes the drains that are past their check.
Seal ==
    /\ erasure = "none"
    /\ erasure' = "sealed"
    /\ dr' = [d \in Drainers |-> [dr[d] EXCEPT !.blind =
                  dr[d].at \notin {"idle", "claim", "check", "prune"}]]
    /\ UNCHANGED <<turn, out, sink, lost, faults>>

\* eraseClickhouseSubject deletes, then counts the survivors; a pass that
\* finds some leaves the store to a retry.
SweepClickhouse ==
    /\ \/ erasure = "sealed" /\ erasure' = "swept" /\ sink' = sink \ (Subject \X Tables)
       \/ /\ erasure = "swept"
          /\ erasure' = IF sink \cap (Subject \X Tables) = {} THEN "verified" ELSE "sealed"
          /\ UNCHANGED sink
    /\ UNCHANGED <<turn, out, dr, lost, faults>>

\* Postgres, last: the subject's turns and by cascade their outbox rows.
DeleteTurns ==
    /\ erasure = "verified"
    /\ erasure' = "done"
    /\ turn' = [t \in Turns |-> IF t \in Subject THEN "DELETED" ELSE turn[t]]
    /\ out' = [t \in Turns |-> IF t \in Subject THEN NoRow ELSE out[t]]
    /\ UNCHANGED <<dr, sink, lost, faults>>

----------------------------------------------------------------------------
Drain(d) ==
    \/ Health(d) \/ Claim(d) \/ CheckErased(d) \/ Discard(d) \/ Insert(d)
    \/ SettleDelivered(d) \/ SettleFailed(d) \/ Undeliverable(d) \/ Prune(d)

Next ==
    /\ \/ \E t \in Turns : FinishTurn(t) \/ RetryDue(t) \/ Expire(t)
       \/ \E d \in Drainers : Drain(d) \/ Crash(d)
       \/ Seal \/ SweepClickhouse \/ DeleteTurns
    /\ UNCHANGED readable

Spec == Init /\ [][Next]_vars

\* The drain task runs every five minutes and every call it makes returns or
\* times out; back-off passes.  A sink stays away for a while, not for ever.
FairSpec ==
    /\ Spec
    /\ \A d \in Drainers : WF_vars(Drain(d) /\ UNCHANGED readable)
    /\ \A t \in Turns : WF_vars(RetryDue(t) /\ UNCHANGED readable)

----------------------------------------------------------------------------
TypeOK ==
    /\ turn \in [Turns -> {"none", "ACTIVE", "ENDED", "DELETED"}]
    /\ readable \subseteq Turns
    /\ out \in [Turns -> [status : {"none", "PENDING", "DELIVERED", "FAILED"},
                          retries : 0 .. MaxRetries, due : BOOLEAN, old : BOOLEAN]]
    /\ dr \in [Drainers -> [at : {"idle", "claim", "check", "discard", "turns", "details",
                                  "delivered", "failed", "parked", "prune"},
                            left : SUBSET Turns, seen : [Turns -> 0 .. MaxRetries],
                            cur : Turns \cup {NoTurn}, full : BOOLEAN,
                            erased : SUBSET Turns, blind : BOOLEAN]]
    /\ sink \subseteq Turns \X Tables
    /\ erasure \in {"none", "sealed", "swept", "verified", "done"}
    /\ lost \subseteq Turns
    /\ faults \in Nat

\* No projection is dropped silently ("A ROW IS NEVER DROPPED SILENTLY"): a turn
\* that ended has its whole projection in the sink, or a row that is still to
\* be delivered or parked, or a logged failure to queue it, or was erased; two
\* drains that settle each other's rows and a retention that prunes them
\* included.
NeverDropped ==
    \A t \in Turns :
        turn[t] = "ENDED" /\ t \notin lost =>
            \/ {t} \X Tables \subseteq sink
            \/ out[t].status \in {"PENDING", "FAILED"}
            \/ t \in Subject /\ Sealed

\* Once the subject is sealed, the only drain that still inserts rows of theirs
\* is one that consulted the register before the seal, and only for the batch
\* it had then.
SealStopsDelivery ==
    [][\A t \in Subject : \A x \in Tables :
         <<t, x>> \in sink' \ sink /\ Sealed =>
            \E d \in Drainers : dr[d].cur = t /\ dr[d].blind]_vars

\* Every queued projection is settled: delivered, parked or gone.
EventuallySettled == \A t \in Turns : out[t].status = "PENDING" ~> out[t].status # "PENDING"
=============================================================================
