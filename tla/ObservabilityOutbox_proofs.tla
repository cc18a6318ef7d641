--------------------- MODULE ObservabilityOutbox_proofs ---------------------
(***************************************************************************)
(* Proofs about ObservabilityOutbox, for any number of turns, drains and   *)
(* failures and any batch size and retry limit.                            *)
(***************************************************************************)
EXTENDS ObservabilityOutbox, TLAPS

----------------------------------------------------------------------------
\* What a row or a drain may rely on for a turn: the rows of X are in the sink,
\* unless the sweep of the turn's subject may have taken them.
Written(t, X) == {t} \X X \subseteq sink \/ (t \in Subject /\ Sealed)

\* Drains only acknowledge what they wrote, and only delivered rows are pruned.
DeliveredInv ==
    /\ \A t \in Turns : out[t].status = "DELIVERED" => Written(t, Tables)
    /\ \A d \in Drainers :
         /\ dr[d].at = "details" => Written(dr[d].cur, {"turns"})
         /\ dr[d].at = "delivered" => Written(dr[d].cur, Tables)

\* A row leaves the outbox only delivered or with its subject.
QueuedInv ==
    \A t \in Turns :
        turn[t] = "ENDED" /\ t \notin lost /\ out[t].status = "none" => Written(t, Tables)

\* A row that is due, and one a drain has claimed, has attempts left.
AttemptsInv ==
    /\ \A t \in Turns : out[t].status = "PENDING" => out[t].retries < MaxRetries
    /\ \A d \in Drainers : \A t \in Turns : dr[d].seen[t] < MaxRetries

\* Stages after the check of the register, on a row.
OnRow == {"turns", "details", "delivered", "failed", "parked"}

\* A drain that checked the register after the seal has none of the subject's
\* rows left, apart from those it is about to delete or cannot decode.
CheckedInv ==
    /\ \A d \in Drainers :
         /\ dr[d].at \in OnRow => dr[d].cur \in Turns
         /\ dr[d].at \in Tables => dr[d].cur \in readable
         /\ dr[d].erased # {} => Sealed /\ dr[d].erased \subseteq Subject
    /\ Sealed => \A d \in Drainers :
         ~dr[d].blind =>
           /\ dr[d].at = "discard" => dr[d].left \cap Subject \cap readable \subseteq dr[d].erased
           /\ dr[d].at \in OnRow => dr[d].left \cap Subject \cap readable = {}
           /\ dr[d].at \in Tables => dr[d].cur \notin Subject

\* The inductive invariant.
OutboxInv == TypeOK /\ DeliveredInv /\ QueuedInv /\ AttemptsInv /\ CheckedInv


----------------------------------------------------------------------------
(* What the steps of a drain do.                                            *)

Stages == {"idle", "claim", "check", "discard", "turns", "details",
           "delivered", "failed", "parked", "prune"}

Drains == [at : Stages, left : SUBSET Turns, seen : [Turns -> 0 .. MaxRetries],
           cur : Turns \cup {NoTurn}, full : BOOLEAN, erased : SUBSET Turns, blind : BOOLEAN]

OutRows == [status : {"none", "PENDING", "DELIVERED", "FAILED"},
            retries : 0 .. MaxRetries, due : BOOLEAN, old : BOOLEAN]

DrainsTyped == dr \in [Drainers -> Drains]

Others(d) == dr' \in [Drainers -> Drains] /\ \A e \in Drainers : e # d => dr'[e] = dr[e]

\* A drain between two pages, or none.
Rests(d) ==
    /\ dr'[d].at \in {"idle", "claim", "prune"}
    /\ dr'[d].erased = {} /\ ~dr'[d].blind
    /\ \A t \in Turns : dr'[d].seen[t] = 0

\* The drain takes up the next row of those left.
Takes(d, left) ==
    /\ dr'[d].at \in {"turns", "parked"}
    /\ dr'[d].cur \in left /\ dr'[d].left = left \ {dr'[d].cur}
    /\ dr'[d].at = "turns" => dr'[d].cur \in readable
    /\ dr'[d].erased = {} /\ dr'[d].blind = dr[d].blind /\ dr'[d].seen = dr[d].seen

\* The record of a drain that has no page.
LEMMA IdleDrain ==
    /\ Idle \in Drains /\ Idle.at = "idle" /\ Idle.erased = {} /\ Idle.blind = FALSE
    /\ \A t \in Turns : Idle.seen[t] = 0
<1>1. MaxRetries \in Nat /\ [t \in Turns |-> 0] \in [Turns -> 0 .. MaxRetries]
  BY OutboxAssumption
<1> QED
  BY <1>1 DEF Idle, Drains, Stages

\* The drain returns, throws or dies, or comes to the end of its page.
LEMMA RestEffect ==
    ASSUME DrainsTyped, NEW d \in Drainers, NEW p \in {"idle", "claim", "prune"},
           dr' = [dr EXCEPT ![d] = [Idle EXCEPT !.at = p]] \/ Stop(d)
    PROVE  Others(d) /\ Rests(d)
<1>1. CASE Stop(d)
  BY <1>1, IdleDrain DEF Stop, DrainsTyped, Others, Rests
<1>2. CASE dr' = [dr EXCEPT ![d] = [Idle EXCEPT !.at = p]]
  <2> DEFINE x == [Idle EXCEPT !.at = p]
  <2>1. x \in Drains /\ x.at = p /\ x.erased = {} /\ x.blind = FALSE /\ x.seen = Idle.seen
    BY IdleDrain DEF Drains, Stages
  <2> HIDE DEF x
  <2>2. dr' = [dr EXCEPT ![d] = x]
    BY <1>2 DEF x
  <2> QED
    BY <2>1, <2>2, IdleDrain, Zenon DEF DrainsTyped, Others, Rests
<1> QED
  BY <1>1, <1>2

\* deliverBatch goes on to one of the rows left, or the page is done.
LEMMA ProceedEffect ==
    ASSUME DrainsTyped, NEW d \in Drainers, NEW rows \in SUBSET Turns, Proceed(d, rows)
    PROVE  Others(d) /\ (Rests(d) \/ Takes(d, rows))
<1>1. ASSUME NEW t \in rows,
             dr' = [dr EXCEPT ![d].cur = t, ![d].left = rows \ {t}, ![d].erased = {},
                              ![d].at = IF t \in readable THEN "turns" ELSE "parked"]
      PROVE  Others(d) /\ Takes(d, rows)
  <2> DEFINE x == [dr[d] EXCEPT !.cur = t, !.left = rows \ {t}, !.erased = {},
                                !.at = IF t \in readable THEN "turns" ELSE "parked"]
  <2>1. /\ x \in Drains /\ x.cur = t /\ x.left = rows \ {t} /\ x.erased = {}
        /\ x.at = IF t \in readable THEN "turns" ELSE "parked"
        /\ x.blind = dr[d].blind /\ x.seen = dr[d].seen
    BY <1>1, Zenon DEF DrainsTyped, Drains, Stages
  <2> HIDE DEF x
  <2>2. dr' = [dr EXCEPT ![d] = x]
    BY <1>1, Zenon DEF DrainsTyped, Drains, x
  <2>3. Others(d) /\ dr'[d] = x
    BY <2>1, <2>2 DEF DrainsTyped, Others
  <2> QED
    BY <1>1, <2>1, <2>3, Zenon DEF Takes
<1>2. ASSUME NEW p \in {"claim", "prune"}, dr' = [dr EXCEPT ![d] = [Idle EXCEPT !.at = p]]
      PROVE  Others(d) /\ Rests(d)
  BY <1>2, RestEffect, Zenon
<1> QED
  BY <1>1, <1>2, Zenon DEF Proceed

\* The drain goes on with the row it has.
LEMMA GotoEffect ==
    ASSUME DrainsTyped, NEW d \in Drainers, NEW p \in Stages, Goto(d, p)
    PROVE  /\ Others(d) /\ dr'[d].at = p
           /\ dr'[d].cur = dr[d].cur /\ dr'[d].left = dr[d].left /\ dr'[d].seen = dr[d].seen
           /\ dr'[d].erased = dr[d].erased /\ dr'[d].blind = dr[d].blind
BY Zenon DEF Goto, DrainsTyped, Drains, Others


----------------------------------------------------------------------------
Acts(d) == Drain(d) \/ Crash(d)

Keeps(d) ==
    /\ dr'[d].cur = dr[d].cur /\ dr'[d].left = dr[d].left /\ dr'[d].seen = dr[d].seen
    /\ dr'[d].erased = dr[d].erased /\ dr'[d].blind = dr[d].blind

\* How a drain gets from a stage to the next.
Moved(d) ==
    /\ Others(d)
    /\ \/ Rests(d)
       \/ /\ dr'[d].at = "check" /\ dr'[d].erased = {} /\ ~dr'[d].blind
          /\ \A t \in Turns : dr'[d].seen[t] < MaxRetries
       \/ /\ dr[d].at = "check" /\ dr'[d].at = "discard" /\ Sealed
          /\ dr'[d].left = dr[d].left /\ dr'[d].seen = dr[d].seen /\ dr'[d].blind = dr[d].blind
          /\ dr'[d].erased = dr[d].left \cap Subject \cap readable
       \/ /\ dr[d].at = "check" /\ Takes(d, dr[d].left)
          /\ Sealed => dr[d].left \cap Subject \cap readable = {}
       \/ dr[d].at = "discard" /\ Takes(d, dr[d].left \ dr[d].erased)
       \/ dr[d].at \in OnRow /\ Takes(d, dr[d].left)
       \/ /\ dr[d].at \in OnRow /\ Keeps(d)
          /\ \/ dr[d].at = "turns" /\ dr'[d].at = "details" /\ <<dr[d].cur, "turns">> \in sink'
             \/ dr[d].at = "details" /\ dr'[d].at = "delivered" /\ <<dr[d].cur, "details">> \in sink'
             \/ dr'[d].at = "failed"

\* What it writes on the way: one row of the sink at a time, the row it has
\* claimed, or what it deletes.
Wrote(d) ==
    /\ UNCHANGED <<turn, erasure, lost>>
    /\ sink' = sink \/ (dr[d].at \in Tables /\ sink' = sink \cup {<<dr[d].cur, dr[d].at>>})
    /\ out' \in [Turns -> OutRows]
    /\ \A t \in Turns :
         \/ out'[t] = out[t]
         \/ out'[t] = NoRow /\ (out[t].status = "DELIVERED" \/ t \in dr[d].erased)
         \/ /\ t = dr[d].cur /\ out'[t].status \in {"PENDING", "FAILED", "DELIVERED"}
            /\ out'[t].status = "PENDING" => out'[t].retries < MaxRetries
            /\ out'[t].status = "DELIVERED" => dr[d].at = "delivered"
    /\ faults' \in Nat

\* The invariant as a drain's steps use it.
DrainReady(d) ==
    /\ TypeOK
    /\ \A t \in Turns : out[t].status = "PENDING" => out[t].retries < MaxRetries
    /\ \A t \in Turns : dr[d].seen[t] < MaxRetries
    /\ dr[d].at \in OnRow => dr[d].cur \in Turns

\* The parts of the type invariant that the proofs below use.
LEMMA TypesOf ==
    ASSUME TypeOK
    PROVE  DrainsTyped /\ out \in [Turns -> OutRows] /\ faults \in Nat
BY Zenon DEF TypeOK, DrainsTyped, Drains, Stages, OutRows

\* A fault spent leaves a legal budget.
LEMMA FaultLeft == ASSUME faults \in Nat, Fault \/ UNCHANGED faults PROVE faults' \in Nat
BY DEF Fault

\* The question to the sink moves nothing but the drain.
LEMMA HealthFlow ==
    ASSUME NEW d \in Drainers, DrainReady(d), Health(d)
    PROVE  Moved(d) /\ Wrote(d)
<1>0. DrainsTyped /\ out \in [Turns -> OutRows] /\ faults \in Nat
  BY TypesOf DEF DrainReady
<1>1. UNCHANGED <<turn, out, sink, erasure, lost>> /\ faults' \in Nat
  BY <1>0, FaultLeft, Zenon DEF Health
<1>2. Others(d) /\ Rests(d)
  BY <1>0, RestEffect, Zenon DEF Health, Stop
<1>3. Wrote(d)
  BY <1>0, <1>1 DEF Wrote
<1> QED
  BY <1>2, <1>3, Zenon DEF Moved

\* claim reads rows that have attempts left.
LEMMA ClaimFlow ==
    ASSUME NEW d \in Drainers, DrainReady(d), Claim(d)
    PROVE  Moved(d) /\ Wrote(d)
<1>1. UNCHANGED <<turn, out, sink, erasure, lost, faults>>
  BY Zenon DEF Claim
<1>2. Wrote(d)
  BY <1>1, TypesOf DEF DrainReady, Wrote
<1>3. ASSUME NEW B \in SUBSET Due,
             dr' = [dr EXCEPT ![d] = [Idle EXCEPT !.at = "check", !.left = B,
                          !.seen = [t \in Turns |-> IF t \in B THEN out[t].retries ELSE 0],
                          !.full = (Cardinality(B) = Batch)]]
      PROVE  Moved(d)
  <2> DEFINE s == [t \in Turns |-> IF t \in B THEN out[t].retries ELSE 0]
             x == [Idle EXCEPT !.at = "check", !.left = B, !.seen = s, !.full = (Cardinality(B) = Batch)]
  <2>1. s \in [Turns -> 0 .. MaxRetries] /\ \A t \in Turns : s[t] < MaxRetries
    BY TypesOf, OutboxAssumption DEF DrainReady, OutRows, Due
  <2>2. B \in SUBSET Turns /\ (Cardinality(B) = Batch) \in BOOLEAN
    BY DEF Due
  <2> HIDE DEF s
  <2>3. x \in Drains /\ x.at = "check" /\ x.erased = {} /\ x.blind = FALSE /\ x.seen = s
    BY <2>1, <2>2, IdleDrain, Zenon DEF Drains, Stages
  <2>4. dr' = [dr EXCEPT ![d] = x]
    BY <1>3 DEF s
  <2> HIDE DEF x
  <2>5. Others(d) /\ dr'[d] = x
    BY <2>3, <2>4, TypesOf, Zenon DEF DrainReady, DrainsTyped, Others
  <2> QED
    BY <2>1, <2>3, <2>5, Zenon DEF Moved
<1>4. CASE dr' = [dr EXCEPT ![d] = [Idle EXCEPT !.at = "prune"]]
  <2>1. Others(d) /\ Rests(d)
    BY <1>4, RestEffect, TypesOf, Zenon DEF DrainReady
  <2> QED
    BY <1>2, <2>1, Zenon DEF Moved
<1> QED
  BY <1>2, <1>3, <1>4, Zenon DEF Claim


\* Steps of the page before its first row: the register is asked, what it names
\* is deleted.
LEMMA CheckFlow ==
    ASSUME NEW d \in Drainers, DrainReady(d), CheckErased(d) \/ Discard(d)
    PROVE  Moved(d) /\ Wrote(d)
<1>0. DrainsTyped /\ out \in [Turns -> OutRows] /\ faults \in Nat /\ dr[d] \in Drains /\ dr[d].left \in SUBSET Turns
  BY TypesOf, Zenon DEF DrainReady, DrainsTyped, Drains
<1>1. UNCHANGED <<turn, sink, erasure, lost>> /\ faults' \in Nat
  BY <1>0, FaultLeft DEF CheckErased, Discard
<1>2. CASE CheckErased(d)
  <2> DEFINE hits == IF Sealed THEN dr[d].left \cap Subject \cap readable ELSE {}
  <2>1. Wrote(d)
    BY <1>0, <1>1, <1>2, Zenon DEF CheckErased, Wrote
  <2>2. CASE hits # {} /\ dr' = [dr EXCEPT ![d].at = "discard", ![d].erased = hits]
    <3>1. hits \in SUBSET Turns /\ Sealed /\ hits = dr[d].left \cap Subject \cap readable
      BY <1>0, <2>2
    <3> HIDE DEF hits
    <3>2. /\ Others(d) /\ dr'[d].at = "discard" /\ dr'[d].left = dr[d].left /\ dr'[d].seen = dr[d].seen
          /\ dr'[d].blind = dr[d].blind /\ dr'[d].erased = hits
      BY <1>0, <2>2, <3>1, Zenon DEF DrainsTyped, Drains, Stages, Others
    <3> QED
      BY <1>2, <2>1, <3>1, <3>2, Zenon DEF Moved, CheckErased
  <2>3. CASE hits = {} /\ Proceed(d, dr[d].left)
    <3>1. Others(d) /\ (Rests(d) \/ Takes(d, dr[d].left))
      BY <1>0, <2>3, ProceedEffect
    <3> QED
      BY <1>2, <2>1, <2>3, <3>1 DEF Moved, CheckErased
  <2>4. CASE Stop(d)
    <3>1. Others(d) /\ Rests(d)
      BY <1>0, <2>4, RestEffect
    <3> QED
      BY <2>1, <3>1, Zenon DEF Moved
  <2> QED
    BY <1>2, <2>2, <2>3, <2>4, Zenon DEF CheckErased
<1>3. CASE Discard(d)
  <2>1. CASE Stop(d) /\ UNCHANGED out
    <3>1. Others(d) /\ Rests(d)
      BY <1>0, <2>1, RestEffect
    <3> QED
      BY <1>0, <1>1, <2>1, <3>1 DEF Moved, Wrote
  <2>2. CASE /\ out' = [t \in Turns |-> IF t \in dr[d].erased THEN NoRow ELSE out[t]]
             /\ Proceed(d, dr[d].left \ dr[d].erased)
    <3>1. Others(d) /\ (Rests(d) \/ Takes(d, dr[d].left \ dr[d].erased))
      BY <1>0, <2>2, ProceedEffect
    <3>2. NoRow \in OutRows
      BY OutboxAssumption DEF NoRow, OutRows
    <3> QED
      BY <1>0, <1>1, <1>3, <2>2, <3>1, <3>2, Zenon DEF Moved, Wrote, Discard
  <2> QED
    BY <1>3, <2>1, <2>2 DEF Discard
<1> QED
  BY <1>2, <1>3

\* writeRows.
LEMMA InsertFlow ==
    ASSUME NEW d \in Drainers, DrainReady(d), Insert(d)
    PROVE  Moved(d) /\ Wrote(d)
<1>0. DrainsTyped /\ out \in [Turns -> OutRows] /\ faults \in Nat
  BY TypesOf DEF DrainReady
<1>1. /\ UNCHANGED <<turn, out, erasure, lost>> /\ faults' \in Nat /\ dr[d].at \in Tables
      /\ sink' \in {sink, sink \cup {<<dr[d].cur, dr[d].at>>}}
  BY <1>0, FaultLeft DEF Insert
<1>2. Wrote(d)
  BY <1>0, <1>1, Zenon DEF Wrote
<1>3. \/ dr[d].at = "turns" /\ Goto(d, "details") /\ <<dr[d].cur, "turns">> \in sink'
      \/ dr[d].at = "details" /\ Goto(d, "delivered") /\ <<dr[d].cur, "details">> \in sink'
      \/ Goto(d, "failed")
  BY <1>1, Zenon DEF Insert, Tables
<1>4. /\ Others(d) /\ Keeps(d)
      /\ \/ dr[d].at = "turns" /\ dr'[d].at = "details" /\ <<dr[d].cur, "turns">> \in sink'
         \/ dr[d].at = "details" /\ dr'[d].at = "delivered" /\ <<dr[d].cur, "details">> \in sink'
         \/ dr'[d].at = "failed"
  BY <1>0, <1>3, GotoEffect, Zenon DEF Stages, Keeps
<1> QED
  BY <1>1, <1>2, <1>4, Zenon DEF Moved, OnRow, Tables


\* A row is settled with an outcome computed from the claim.
LEMMA SettleEffect ==
    ASSUME NEW d \in Drainers, DrainReady(d), dr[d].at \in OnRow, NEW o,
           \/ o = deliverySucceeded(dr[d].seen[dr[d].cur]) /\ dr[d].at = "delivered"
           \/ o = deliveryFailed(dr[d].seen[dr[d].cur])
           \/ o = deliveryUndeliverable(dr[d].seen[dr[d].cur]),
           out' = [out EXCEPT ![dr[d].cur] = o],
           UNCHANGED <<turn, sink, erasure, lost>>, faults' \in Nat
    PROVE  Wrote(d)
<1>1. /\ out \in [Turns -> OutRows] /\ dr[d].cur \in Turns /\ MaxRetries \in Nat
      /\ dr[d].seen[dr[d].cur] \in Nat /\ dr[d].seen[dr[d].cur] < MaxRetries
  BY TypesOf, OutboxAssumption DEF DrainReady, DrainsTyped, Drains
<1>2. /\ o \in OutRows /\ o.status \in {"PENDING", "FAILED", "DELIVERED"}
      /\ o.status = "PENDING" => o.retries < MaxRetries
      /\ o.status = "DELIVERED" => dr[d].at = "delivered"
  <2>1. PICK n : n = dr[d].seen[dr[d].cur] /\ n + 1 \in 0 .. MaxRetries /\ (~(n + 1 >= MaxRetries) => n + 1 < MaxRetries)
    BY <1>1
  <2>2. deliverySucceeded(n) \in OutRows /\ deliverySucceeded(n).status = "DELIVERED"
    BY <2>1, Zenon DEF deliverySucceeded, OutRows
  <2>3. deliveryUndeliverable(n) \in OutRows /\ deliveryUndeliverable(n).status = "FAILED"
    BY <2>1, Zenon DEF deliveryUndeliverable, OutRows
  <2>4. /\ deliveryFailed(n) \in OutRows /\ deliveryFailed(n).status \in {"PENDING", "FAILED"}
        /\ deliveryFailed(n).status = "PENDING" => deliveryFailed(n).retries < MaxRetries
    BY <2>1, Zenon DEF deliveryFailed, OutRows
  <2> QED
    BY <2>1, <2>2, <2>3, <2>4, Zenon
<1>3. out' \in [Turns -> OutRows] /\ out'[dr[d].cur] = o /\ \A t \in Turns : t # dr[d].cur => out'[t] = out[t]
  BY <1>1, <1>2, Zenon
<1> QED
  BY <1>2, <1>3, Zenon DEF Wrote

\* Settling a batch deletes, retries or parks only rows the drain holds.
LEMMA SettleFlow ==
    ASSUME NEW d \in Drainers, DrainReady(d), SettleDelivered(d) \/ SettleFailed(d) \/ Undeliverable(d)
    PROVE  Moved(d) /\ Wrote(d)
<1>0. DrainsTyped /\ out \in [Turns -> OutRows] /\ faults \in Nat /\ dr[d].left \in SUBSET Turns
  BY TypesOf DEF DrainReady, DrainsTyped, Drains
<1>1. /\ UNCHANGED <<turn, sink, erasure, lost>> /\ faults' \in Nat
      /\ dr[d].at \in {"delivered", "failed", "parked"} /\ dr[d].at \in OnRow
  BY <1>0, FaultLeft, Zenon DEF SettleDelivered, SettleFailed, Undeliverable, OnRow
<1>2. CASE UNCHANGED out /\ Goto(d, "failed")
  <2>1. Others(d) /\ Keeps(d) /\ dr'[d].at = "failed"
    BY <1>0, <1>2, GotoEffect DEF Stages, Keeps
  <2> QED
    BY <1>0, <1>1, <1>2, <2>1, Zenon DEF Moved, Wrote
<1>3. CASE UNCHANGED out /\ Stop(d)
  <2>1. Others(d) /\ Rests(d)
    BY <1>0, <1>3, RestEffect
  <2> QED
    BY <1>0, <1>1, <1>3, <2>1, Zenon DEF Moved, Wrote
<1>4. ASSUME NextRow(d), NEW o,
             \/ o = deliverySucceeded(dr[d].seen[dr[d].cur]) /\ dr[d].at = "delivered"
             \/ o = deliveryFailed(dr[d].seen[dr[d].cur])
             \/ o = deliveryUndeliverable(dr[d].seen[dr[d].cur]),
             out' = [out EXCEPT ![dr[d].cur] = o]
      PROVE  Moved(d) /\ Wrote(d)
  <2>1. Others(d) /\ (Rests(d) \/ Takes(d, dr[d].left))
    BY <1>0, <1>4, ProceedEffect DEF NextRow
  <2>2. Wrote(d)
    BY <1>1, <1>4, SettleEffect, Zenon
  <2> QED
    BY <1>1, <2>1, <2>2, Zenon DEF Moved
<1>5. CASE SettleDelivered(d)
  BY <1>2, <1>4, <1>5, Zenon DEF SettleDelivered
<1>6. CASE SettleFailed(d)
  BY <1>3, <1>4, <1>6, Zenon DEF SettleFailed
<1>7. CASE Undeliverable(d)
  BY <1>3, <1>4, <1>7, Zenon DEF Undeliverable
<1> QED
  BY <1>5, <1>6, <1>7

\* Pruning removes nothing that is still to be delivered.
LEMMA PruneFlow ==
    ASSUME NEW d \in Drainers, DrainReady(d), Prune(d) \/ Crash(d)
    PROVE  Moved(d) /\ Wrote(d)
<1>0. DrainsTyped /\ out \in [Turns -> OutRows] /\ faults \in Nat
  BY TypesOf DEF DrainReady
<1>1. UNCHANGED <<turn, sink, erasure, lost>> /\ faults' \in Nat /\ Stop(d)
  BY <1>0, FaultLeft, Zenon DEF Prune, Crash
<1>2. Others(d) /\ Rests(d)
  BY <1>0, <1>1, RestEffect
<1>3. NoRow \in OutRows
  BY OutboxAssumption DEF NoRow, OutRows
<1>4. out' = out \/ out' = [t \in Turns |-> IF out[t].status = "DELIVERED" /\ out[t].old THEN NoRow ELSE out[t]]
  BY DEF Prune, Crash
<1>5. Wrote(d)
  BY <1>0, <1>1, <1>3, <1>4 DEF Wrote
<1> QED
  BY <1>2, <1>5, Zenon DEF Moved

\* Every step of a drain moves and writes as described.
LEMMA DrainFlow ==
    ASSUME NEW d \in Drainers, DrainReady(d), Acts(d)
    PROVE  Moved(d) /\ Wrote(d)
BY HealthFlow, ClaimFlow, CheckFlow, InsertFlow, SettleFlow, PruneFlow, Zenon DEF Acts, Drain


\* The steps that are not a drain's leave the drains alone, apart from the note
\* Seal makes, and deliver nothing.
Beside ==
    /\ out' \in [Turns -> OutRows] /\ faults' \in Nat
    /\ turn' \in [Turns -> {"none", "ACTIVE", "ENDED", "DELETED"}] /\ lost' \subseteq Turns
    /\ erasure' \in {"none", "sealed", "swept", "verified", "done"} /\ (Sealed => Sealed')
    /\ sink' = sink \/ (sink' = sink \ (Subject \X Tables) /\ Sealed')
    /\ \/ dr' = dr /\ (Sealed' => Sealed)
       \/ dr' = [d \in Drainers |-> [dr[d] EXCEPT !.blind =
                     dr[d].at \notin {"idle", "claim", "check", "prune"}]]
    /\ \A t \in Turns :
         /\ out'[t].status = "DELIVERED" => out[t].status = "DELIVERED"
         /\ out'[t].status = "PENDING" => out'[t].retries < MaxRetries
         /\ turn'[t] = "ENDED" /\ t \notin lost' /\ out'[t].status = "none" =>
              turn[t] = "ENDED" /\ t \notin lost /\ out[t].status = "none"

\* What the steps beside the drains (enqueue, seal, lease expiry, crash) may write.
LEMMA BesideFlow ==
    ASSUME TypeOK, AttemptsInv,
           \/ \E t \in Turns : FinishTurn(t) \/ RetryDue(t) \/ Expire(t)
           \/ Seal \/ SweepClickhouse \/ DeleteTurns
    PROVE  Beside
<1>0. /\ out \in [Turns -> OutRows] /\ faults \in Nat /\ lost \subseteq Turns
      /\ turn \in [Turns -> {"none", "ACTIVE", "ENDED", "DELETED"}]
      /\ erasure \in {"none", "sealed", "swept", "verified", "done"}
      /\ \A t \in Turns : out[t].status = "PENDING" => out[t].retries < MaxRetries
  BY TypesOf DEF TypeOK, AttemptsInv
<1>1. ASSUME NEW t \in Turns, FinishTurn(t) PROVE Beside
  <2>1. UNCHANGED <<dr, sink, erasure>> /\ faults' \in Nat
    BY <1>0, <1>1, FaultLeft DEF FinishTurn
  <2>2. CASE UNCHANGED <<turn, out, lost>>
    BY <1>0, <2>1, <2>2 DEF Beside, Sealed
  <2>3. CASE turn' = [turn EXCEPT ![t] = "ENDED"] /\ lost' = lost \cup {t} /\ UNCHANGED out
    BY <1>0, <2>1, <2>3 DEF Beside, Sealed
  <2>4. CASE /\ turn' = [turn EXCEPT ![t] = "ENDED"] /\ UNCHANGED lost
             /\ out' = [out EXCEPT ![t] = [status |-> "PENDING", retries |-> 0, due |-> TRUE, old |-> FALSE]]
    <3> DEFINE o == [status |-> "PENDING", retries |-> 0, due |-> TRUE, old |-> FALSE]
    <3>1. o \in OutRows /\ o.status = "PENDING" /\ o.retries = 0 /\ 0 < MaxRetries
      BY OutboxAssumption DEF OutRows
    <3> HIDE DEF o
    <3>2. out' = [out EXCEPT ![t] = o]
      BY <2>4 DEF o
    <3> QED
      BY <1>0, <2>1, <2>4, <3>1, <3>2, Zenon DEF Beside, Sealed
  <2> QED
    BY <1>1, <2>2, <2>3, <2>4 DEF FinishTurn
<1>2. ASSUME NEW t \in Turns, RetryDue(t) \/ Expire(t) PROVE Beside
  <2>1. UNCHANGED <<turn, dr, sink, erasure, lost, faults>>
    BY <1>2, Zenon DEF RetryDue, Expire
  <2>2. /\ out' \in [Turns -> OutRows]
        /\ \A s \in Turns : out'[s].status = out[s].status /\ out'[s].retries = out[s].retries
    <3>1. CASE out' = [out EXCEPT ![t].due = TRUE]
      BY <1>0, <3>1, Zenon DEF OutRows
    <3>2. CASE out' = [out EXCEPT ![t].old = TRUE]
      BY <1>0, <3>2, Zenon DEF OutRows
    <3> QED
      BY <1>2, <3>1, <3>2, Zenon DEF RetryDue, Expire
  <2> QED
    BY <1>0, <2>1, <2>2 DEF Beside, Sealed
<1>3. CASE Seal
  BY <1>0, <1>3 DEF Seal, Beside, Sealed
<1>4. CASE SweepClickhouse
  BY <1>0, <1>4 DEF SweepClickhouse, Beside, Sealed
<1>5. CASE DeleteTurns
  <2>1. NoRow \in OutRows /\ NoRow.status = "none"
    BY OutboxAssumption DEF NoRow, OutRows
  <2>2. /\ out' \in [Turns -> OutRows] /\ turn' \in [Turns -> {"none", "ACTIVE", "ENDED", "DELETED"}]
        /\ \A t \in Turns : \/ turn'[t] = "DELETED" /\ out'[t].status = "none"
                            \/ turn'[t] = turn[t] /\ out'[t] = out[t]
    BY <1>0, <1>5, <2>1 DEF DeleteTurns
  <2> QED
    BY <1>0, <1>5, <2>2 DEF DeleteTurns, Beside, Sealed
<1> QED
  BY <1>1, <1>2, <1>3, <1>4, <1>5, Zenon

\* Steps are of these two sorts.
LEMMA StepCases ==
    ASSUME OutboxInv, Next
    PROVE  (Beside \/ \E d \in Drainers : Moved(d) /\ Wrote(d)) /\ UNCHANGED readable
<1>1. \A d \in Drainers : DrainReady(d)
  BY DEF OutboxInv, AttemptsInv, CheckedInv, DrainReady
<1> QED
  BY <1>1, DrainFlow, BesideFlow, Zenon DEF Next, Acts, OutboxInv


----------------------------------------------------------------------------
(* The invariants.                                                          *)

\* What was written stays, or the seal is on.
LEMMA WrittenStays ==
    ASSUME Beside \/ (\E d \in Drainers : Wrote(d)), NEW t, NEW X \in SUBSET Tables, Written(t, X)
    PROVE  Written(t, X)'
BY DEF Beside, Wrote, Written, Sealed

\* Every step keeps DeliveredInv.
LEMMA DeliveredStep ==
    ASSUME OutboxInv, Next
    PROVE  DeliveredInv' /\ QueuedInv'
<1>0. DeliveredInv /\ QueuedInv /\ CheckedInv /\ DrainsTyped
  BY TypesOf DEF OutboxInv
<1>1. CASE Beside
  <2>1. \A t : \A X \in SUBSET Tables : Written(t, X) => Written(t, X)'
    BY <1>1, WrittenStays, Zenon
  <2>2. \A d \in Drainers : dr'[d].at = dr[d].at /\ dr'[d].cur = dr[d].cur
    BY <1>0, <1>1 DEF Beside, DrainsTyped, Drains
  <2>3. Tables \in SUBSET Tables /\ {"turns"} \in SUBSET Tables
    BY DEF Tables
  <2>4. DeliveredInv'
    BY <1>0, <1>1, <2>1, <2>2, <2>3 DEF Beside, DeliveredInv
  <2>5. QueuedInv'
    BY <1>0, <1>1, <2>1, <2>3, Zenon DEF Beside, QueuedInv
  <2> QED
    BY <2>4, <2>5, Zenon
<1>2. ASSUME NEW d \in Drainers, Moved(d), Wrote(d) PROVE DeliveredInv' /\ QueuedInv'
  <2>1. \A t : \A X \in SUBSET Tables : Written(t, X) => Written(t, X)'
    BY <1>2, WrittenStays
  <2>2. Tables \in SUBSET Tables /\ {"turns"} \in SUBSET Tables
    BY DEF Tables
  <2>3. UNCHANGED <<turn, lost, erasure>>
    BY <1>2, Zenon DEF Wrote
  <2>4. \A t \in Turns : t \in dr[d].erased => Written(t, Tables)
    BY <1>0 DEF CheckedInv, Written
  <2>5. \A t \in Turns : out'[t].status = "DELIVERED" => Written(t, Tables)'
    BY <1>0, <1>2, <2>1, <2>2 DEF Wrote, DeliveredInv, NoRow
  <2>6. QueuedInv'
    BY <1>0, <1>2, <2>1, <2>2, <2>3, <2>4 DEF Wrote, QueuedInv, DeliveredInv
  <2>7. \A e \in Drainers : e # d => /\ (dr[e].at = "details" => Written(dr[e].cur, {"turns"}))'
                                     /\ (dr[e].at = "delivered" => Written(dr[e].cur, Tables))'
    BY <1>0, <1>2, <2>1, <2>2, Zenon DEF Moved, Others, DeliveredInv
  <2>8. dr'[d].at = "details" => dr'[d].cur = dr[d].cur /\ <<dr[d].cur, "turns">> \in sink'
    BY <1>2, Zenon DEF Moved, Rests, Takes, Keeps
  <2>9. dr'[d].at = "delivered" => /\ dr'[d].cur = dr[d].cur /\ <<dr[d].cur, "details">> \in sink'
                                   /\ dr[d].at = "details"
    BY <1>2, Zenon DEF Moved, Rests, Takes, Keeps
  <2>10. (dr[d].at = "details" => Written(dr[d].cur, {"turns"}))'
    BY <2>8 DEF Written
  <2>11. (dr[d].at = "delivered" => Written(dr[d].cur, Tables))'
    <3> SUFFICES ASSUME dr'[d].at = "delivered" PROVE Written(dr[d].cur, Tables)'
      BY Zenon
    <3>1. PICK t : t = dr[d].cur
      OBVIOUS
    <3>2. Written(t, {"turns"})'
      BY <1>0, <2>1, <2>2, <2>9, <3>1, Zenon DEF DeliveredInv
    <3>3. <<t, "details">> \in sink' /\ dr'[d].cur = t
      BY <2>9, <3>1, Zenon
    <3> QED
      BY <3>2, <3>3 DEF Written, Tables
  <2>12. DeliveredInv'
    BY <2>5, <2>7, <2>10, <2>11 DEF DeliveredInv
  <2> QED
    BY <2>6, <2>12
<1> QED
  BY <1>1, <1>2, StepCases


\* Every step keeps AttemptsInv.
LEMMA AttemptsStep ==
    ASSUME OutboxInv, Next
    PROVE  AttemptsInv'
<1>0. AttemptsInv /\ DrainsTyped /\ 0 < MaxRetries
  BY TypesOf, OutboxAssumption DEF OutboxInv
<1>1. CASE Beside
  <2>1. \A d \in Drainers : dr'[d].seen = dr[d].seen
    BY <1>0, <1>1 DEF Beside, DrainsTyped, Drains
  <2> QED
    BY <1>0, <1>1, <2>1 DEF Beside, AttemptsInv
<1>2. ASSUME NEW d \in Drainers, Moved(d), Wrote(d) PROVE AttemptsInv'
  <2>1. \A t \in Turns : dr'[d].seen[t] < MaxRetries
    BY <1>0, <1>2, Zenon DEF Moved, Rests, Takes, Keeps, AttemptsInv
  <2>2. \A t \in Turns : out'[t].status = "PENDING" => out'[t].retries < MaxRetries
    BY <1>0, <1>2 DEF Wrote, NoRow, AttemptsInv
  <2> QED
    BY <1>0, <1>2, <2>1, <2>2 DEF Moved, Others, AttemptsInv
<1> QED
  BY <1>1, <1>2, StepCases

\* Every step keeps CheckedInv.
LEMMA CheckedStep ==
    ASSUME OutboxInv, Next
    PROVE  CheckedInv'
<1>0. CheckedInv /\ DrainsTyped /\ readable' = readable
  BY TypesOf, StepCases DEF OutboxInv
<1>1. CASE Beside
  <2>1. \A d \in Drainers : /\ dr'[d].at = dr[d].at /\ dr'[d].cur = dr[d].cur
                            /\ dr'[d].left = dr[d].left /\ dr'[d].erased = dr[d].erased
    BY <1>0, <1>1 DEF Beside, DrainsTyped, Drains
  <2>2. Sealed => Sealed'
    BY <1>1 DEF Beside
  <2>3. \A d \in Drainers : Sealed' /\ ~dr'[d].blind => \/ Sealed /\ ~dr[d].blind
                                                        \/ dr[d].at \in {"idle", "claim", "check", "prune"}
    <3>1. CASE dr' = dr /\ (Sealed' => Sealed)
      BY <3>1
    <3>2. CASE dr' = [d \in Drainers |-> [dr[d] EXCEPT !.blind =
                     dr[d].at \notin {"idle", "claim", "check", "prune"}]]
      <4>1. \A d \in Drainers : dr'[d].blind = (dr[d].at \notin {"idle", "claim", "check", "prune"})
        BY <1>0, <3>2 DEF DrainsTyped, Drains
      <4> QED
        BY <4>1, Zenon
    <3> QED
      BY <1>1, <3>1, <3>2, Zenon DEF Beside
  <2> QED
    BY <1>0, <2>1, <2>2, <2>3 DEF CheckedInv, OnRow, Tables
<1>2. ASSUME NEW d \in Drainers, Moved(d), Wrote(d) PROVE CheckedInv'
  <2>0. (Sealed' <=> Sealed) /\ dr[d].left \in SUBSET Turns
    BY <1>0, <1>2 DEF Wrote, Sealed, DrainsTyped, Drains
  <2>1. /\ dr'[d].at \in OnRow => dr'[d].cur \in Turns
        /\ dr'[d].at \in Tables => dr'[d].cur \in readable
        /\ dr'[d].erased # {} => Sealed /\ dr'[d].erased \subseteq Subject
    BY <1>0, <1>2, <2>0, Zenon DEF Moved, Rests, Takes, Keeps, CheckedInv, OnRow, Tables
  <2>2. ASSUME Sealed, ~dr'[d].blind
        PROVE  /\ dr'[d].at = "discard" => dr'[d].left \cap Subject \cap readable \subseteq dr'[d].erased
               /\ dr'[d].at \in OnRow => dr'[d].left \cap Subject \cap readable = {}
               /\ dr'[d].at \in Tables => dr'[d].cur \notin Subject
    BY <1>0, <1>2, <2>0, <2>2, Zenon DEF Moved, Rests, Takes, Keeps, CheckedInv, OnRow, Tables
  <2>3. \A e \in Drainers : e # d => dr'[e] = dr[e]
    BY <1>2 DEF Moved, Others
  <2> QED
    BY <1>0, <2>0, <2>1, <2>2, <2>3 DEF CheckedInv
<1> QED
  BY <1>1, <1>2, StepCases

\* Every step of Next keeps the types.
LEMMA TypeStep ==
    ASSUME OutboxInv, Next
    PROVE  TypeOK'
<1>0. TypeOK /\ DrainsTyped /\ readable' = readable /\ CheckedInv
  BY TypesOf, StepCases DEF OutboxInv
<1> DEFINE Good ==
        /\ dr' \in [Drainers -> Drains] /\ out' \in [Turns -> OutRows] /\ faults' \in Nat
        /\ turn' \in [Turns -> {"none", "ACTIVE", "ENDED", "DELETED"}] /\ lost' \subseteq Turns
        /\ erasure' \in {"none", "sealed", "swept", "verified", "done"} /\ sink' \subseteq Turns \X Tables
<1>1. Good
  <2>1. CASE Beside
    <3>1. dr' \in [Drainers -> Drains]
      <4>1. CASE dr' = dr
        BY <1>0, <4>1 DEF DrainsTyped
      <4>2. CASE dr' = [d \in Drainers |-> [dr[d] EXCEPT !.blind =
                       dr[d].at \notin {"idle", "claim", "check", "prune"}]]
        <5>1. \A d \in Drainers, b \in BOOLEAN : [dr[d] EXCEPT !.blind = b] \in Drains
          BY <1>0, Zenon DEF DrainsTyped, Drains
        <5>2. \A d \in Drainers : (dr[d].at \notin {"idle", "claim", "check", "prune"}) \in BOOLEAN
          OBVIOUS
        <5> QED
          BY <4>2, <5>1, <5>2, Zenon
      <4> QED
        BY <2>1, <4>1, <4>2, Zenon DEF Beside
    <3> QED
      BY <1>0, <2>1, <3>1, Zenon DEF Beside, TypeOK
  <2>2. ASSUME NEW d \in Drainers, Moved(d), Wrote(d) PROVE Good
    <3>1. dr[d].at \in Tables => <<dr[d].cur, dr[d].at>> \in Turns \X Tables
      BY <1>0 DEF CheckedInv, OnRow, Tables
    <3> QED
      BY <1>0, <2>2, <3>1, Zenon DEF Moved, Others, Wrote, TypeOK
  <2> QED
    BY <2>1, <2>2, StepCases
<1> QED
  BY <1>0, <1>1 DEF TypeOK, Drains, Stages, OutRows


\* The initial state satisfies the inductive invariant.
LEMMA OutboxInit == ASSUME Init PROVE OutboxInv
<1>1. NoRow \in OutRows /\ NoRow.status = "none" /\ 0 < MaxRetries
  BY OutboxAssumption DEF NoRow, OutRows
<1>2. /\ out \in [Turns -> OutRows] /\ \A t \in Turns : out[t] = NoRow
      /\ dr \in [Drainers -> Drains] /\ \A d \in Drainers : dr[d] = Idle
  BY <1>1, IdleDrain DEF Init
<1>3. /\ turn \in [Turns -> {"none", "ACTIVE", "ENDED", "DELETED"}] /\ \A t \in Turns : turn[t] # "ENDED"
      /\ readable \subseteq Turns /\ faults \in Nat /\ sink = {} /\ erasure = "none" /\ lost = {}
  BY OutboxAssumption DEF Init
<1>4. TypeOK
  BY <1>2, <1>3 DEF TypeOK, Drains, Stages, OutRows
<1> QED
  BY <1>1, <1>2, <1>3, <1>4, IdleDrain
     DEF OutboxInv, DeliveredInv, QueuedInv, AttemptsInv, CheckedInv, OnRow, Tables

\* A stuttering step keeps the inductive invariant.
LEMMA OutboxStutter == ASSUME OutboxInv, UNCHANGED vars PROVE OutboxInv'
BY Zenon DEF OutboxInv, vars, TypeOK, DeliveredInv, QueuedInv, AttemptsInv, CheckedInv, Written, Sealed

\* The invariant holds in every reachable state.
THEOREM OutboxInvariant == Spec => []OutboxInv
<1>1. Init => OutboxInv
  BY OutboxInit
<1>2. OutboxInv /\ [Next]_vars => OutboxInv'
  BY OutboxStutter, TypeStep, DeliveredStep, AttemptsStep, CheckedStep, Zenon DEF OutboxInv
<1> QED
  BY <1>1, <1>2, PTL DEF Spec

\* Types, and attempt counts that never pass the limit although drains settle
\* rows from counts that others have overtaken.
THEOREM OutboxTypeCorrect == Spec => []TypeOK
<1>1. OutboxInv => TypeOK
  BY DEF OutboxInv
<1> QED
  BY <1>1, OutboxInvariant, PTL

\* "A ROW IS NEVER DROPPED SILENTLY", whatever drains overlap, fail or crash.
THEOREM NoSilentDrop == Spec => []NeverDropped
<1>1. OutboxInv => NeverDropped
  <2> SUFFICES ASSUME OutboxInv, NEW t \in Turns, turn[t] = "ENDED", t \notin lost
               PROVE  Written(t, Tables) \/ out[t].status \in {"PENDING", "FAILED"}
    BY DEF NeverDropped, Written
  <2>1. out[t].status \in {"none", "PENDING", "DELIVERED", "FAILED"}
    BY TypesOf DEF OutboxInv, OutRows
  <2> QED
    BY <2>1 DEF OutboxInv, DeliveredInv, QueuedInv
<1> QED
  BY <1>1, OutboxInvariant, PTL

\* Once sealErasedSubject has returned, rows of the subject are inserted only by
\* a drain that was past its check of the register by then.
THEOREM SealedIsNotDelivered == Spec => SealStopsDelivery
<1> DEFINE Stopped ==
        \A t \in Subject : \A x \in Tables :
            <<t, x>> \in sink' \ sink /\ Sealed => \E d \in Drainers : dr[d].cur = t /\ dr[d].blind
<1>1. OutboxInv /\ [Next]_vars => [Stopped]_vars
  <2> SUFFICES ASSUME OutboxInv, Next PROVE Stopped
    BY DEF vars
  <2>1. CASE Beside
    BY <2>1 DEF Beside
  <2>2. ASSUME NEW d \in Drainers, Wrote(d) PROVE Stopped
    BY <2>2 DEF Wrote, OutboxInv, CheckedInv
  <2> QED
    BY <2>1, <2>2, StepCases
<1> QED
  BY <1>1, OutboxInvariant, PTL DEF Spec, SealStopsDelivery
=============================================================================
