------------------------ MODULE TurnLifecycle_proofs ------------------------
(***************************************************************************)
(* Proofs about TurnLifecycle, for any set of requests, threads and keys.  *)
(* Flow states once where each action may take a request and what it       *)
(* leaves alone; the invariants are then proved from Flow and from the few *)
(* actions that write what they speak of: what holds of a thread's rows,   *)
(* the properties that follow from it, and the in-flight budget.           *)
(***************************************************************************)
EXTENDS TurnLifecycle, TLAPS

----------------------------------------------------------------------------
\* What the code, its consumer or its death does next to one request.
Acts(r) == Step(r) \/ CloseConsumer(r) \/ Crash(r)

\* The control flow of executeStreamingTurn.
Move(p, q) ==
    \/ p = "start" /\ q \in {"thread", "ended"}
    \/ p = "thread" /\ q \in {"mutex", "ended"}
    \/ p = "mutex" /\ q \in {"gates", "ended"}
    \/ p = "gates" /\ q \in {"reserve", "release"}
    \/ p = "reserve" /\ q = "admit"
    \/ p = "admit" /\ q \in {"history", "release", "catch"}
    \/ p = "history" /\ q \in {"open", "release", "catch"}
    \/ p = "open" /\ q \in {"stream", "catch"}
    \/ p = "stream" /\ q \in {"persist", "release", "catch"}
    \/ p = "persist" /\ q \in {"bill", "catch"}
    \/ p = "bill" /\ q \in {"finish", "release"}
    \/ p = "finish" /\ q \in {"release", "catch"}
    \/ p = "catch" /\ q = "release"
    \/ p = "release" /\ q = "dropIdem"
    \/ p = "dropIdem" /\ q = "settle"
    \/ p = "settle" /\ q = "ended"
    \/ p \notin {"start", "ended", "crashed"} /\ q = "crashed"

\* A step of r moves r alone, and each local or shared variable has its writers.
Moved(r) ==
    /\ Move(pc[r], pc'[r])
    /\ \A s \in Requests \ {r} : pc'[s] = pc[s] /\ outcome'[s] = outcome[s]
    /\ pc[r] \in InFinally => outcome'[r] = outcome[r]
    /\ pc[r] \in {"stream", "bill"} /\ pc'[r] = "release" => outcome'[r] = "closed"

Written(r) ==
    /\ UNCHANGED turns \/ OpenTurn(r) \/ PersistReply(r) \/ CatchError(r)
    /\ UNCHANGED openTurn \/ OpenTurn(r)
    /\ UNCHANGED finalized \/ PersistReply(r)
    /\ UNCHANGED billed \/ RecordUsage(r)
    /\ UNCHANGED seen \/ LoadHistory(r)
    /\ UNCHANGED committed \/ BeginReservation(r)
    /\ UNCHANGED <<reserved, missed>> \/ BeginReservation(r) \/ SettleReservation(r)
    /\ UNCHANGED <<delegated, day, crossed>>
    /\ UNCHANGED delegating \/ Crash(r)
    /\ UNCHANGED lock \/ AcquireMutex(r) \/ ReleaseMutex(r)
    /\ UNCHANGED idem \/ ReserveKey(r) \/ AcquireMutex(r) \/ DropIdem(r)

\* Some points are reached by one action only.
Reached(r) ==
    /\ pc'[r] = "gates" => AcquireMutex(r)
    /\ pc'[r] = "admit" => BeginReservation(r)
    /\ pc'[r] = "open" => LoadHistory(r)
    /\ pc'[r] = "stream" => OpenTurn(r)
    /\ pc'[r] = "bill" => PersistReply(r)
    /\ pc[r] = "catch" /\ pc'[r] = "release" => CatchError(r)
    /\ pc[r] = "settle" /\ pc'[r] = "ended" => SettleReservation(r)

\* What one step of a request does to the program counter, the lock and the row counters:
\* each action of Next moves only its own request, along the order of runStreaming.
LEMMA Flow ==
    ASSUME pc \in [Requests -> Points], outcome \in [Requests -> Outcomes],
           NEW r \in Requests, Acts(r)
    PROVE  /\ Moved(r) /\ Written(r) /\ Reached(r)
           /\ pc' \in [Requests -> Points] /\ outcome' \in [Requests -> Outcomes]
<1> DEFINE Typed == pc' \in [Requests -> Points] /\ outcome' \in [Requests -> Outcomes]
<1>1. ASSUME ReserveKey(r) PROVE Moved(r) /\ Written(r) /\ Reached(r) /\ Typed
  BY <1>1 DEF ReserveKey, Moved, Written, Reached, Move, Goto, Exit, InFinally, Points, Outcomes, InBody, subAgents, calendar
<1>2. ASSUME GetThread(r) PROVE Moved(r) /\ Written(r) /\ Reached(r) /\ Typed
  BY <1>2 DEF GetThread, Moved, Written, Reached, Move, Goto, Exit, InFinally, Points, Outcomes, InBody, subAgents, calendar
<1>3. ASSUME AcquireMutex(r) PROVE Moved(r) /\ Written(r) /\ Reached(r) /\ Typed
  BY <1>3 DEF AcquireMutex, Moved, Written, Reached, Move, Goto, Exit, InFinally, Points, Outcomes, InBody, subAgents, calendar
<1>4. ASSUME PassGates(r) PROVE Moved(r) /\ Written(r) /\ Reached(r) /\ Typed
  BY <1>4 DEF PassGates, Moved, Written, Reached, Move, Goto, Exit, InFinally, Points, Outcomes, InBody, subAgents, calendar
<1>5. ASSUME BeginReservation(r) PROVE Moved(r) /\ Written(r) /\ Reached(r) /\ Typed
  BY <1>5 DEF BeginReservation, Moved, Written, Reached, Move, Goto, Exit, InFinally, Points, Outcomes, InBody, subAgents, calendar
<1>6. ASSUME Admit(r) PROVE Moved(r) /\ Written(r) /\ Reached(r) /\ Typed
  BY <1>6 DEF Admit, Moved, Written, Reached, Move, Goto, Exit, InFinally, Points, Outcomes, InBody, subAgents, calendar
<1>7. ASSUME LoadHistory(r) PROVE Moved(r) /\ Written(r) /\ Reached(r) /\ Typed
  BY <1>7 DEF LoadHistory, Moved, Written, Reached, Move, Goto, Exit, InFinally, Points, Outcomes, InBody, subAgents, calendar
<1>8. ASSUME OpenTurn(r) PROVE Moved(r) /\ Written(r) /\ Reached(r) /\ Typed
  BY <1>8 DEF OpenTurn, Moved, Written, Reached, Move, Goto, Exit, InFinally, Points, Outcomes, InBody, subAgents, calendar
<1>9. ASSUME StreamReply(r) PROVE Moved(r) /\ Written(r) /\ Reached(r) /\ Typed
  BY <1>9 DEF StreamReply, Moved, Written, Reached, Move, Goto, Exit, InFinally, Points, Outcomes, InBody, subAgents, calendar
<1>10. ASSUME PersistReply(r) PROVE Moved(r) /\ Written(r) /\ Reached(r) /\ Typed
  BY <1>10 DEF PersistReply, Moved, Written, Reached, Move, Goto, Exit, InFinally, Points, Outcomes, InBody, subAgents, calendar
<1>11. ASSUME RecordUsage(r) PROVE Moved(r) /\ Written(r) /\ Reached(r) /\ Typed
  BY <1>11 DEF RecordUsage, Moved, Written, Reached, Move, Goto, Exit, InFinally, Points, Outcomes, InBody, subAgents, calendar
<1>12. ASSUME FinishTurn(r) PROVE Moved(r) /\ Written(r) /\ Reached(r) /\ Typed
  BY <1>12 DEF FinishTurn, Moved, Written, Reached, Move, Goto, Exit, InFinally, Points, Outcomes, InBody, subAgents, calendar
<1>13. ASSUME CatchError(r) PROVE Moved(r) /\ Written(r) /\ Reached(r) /\ Typed
  BY <1>13, Zenon DEF CatchError, Moved, Written, Reached, Move, Goto, Exit, InFinally, Points, Outcomes, InBody, subAgents, calendar
<1>14. ASSUME ReleaseMutex(r) PROVE Moved(r) /\ Written(r) /\ Reached(r) /\ Typed
  BY <1>14 DEF ReleaseMutex, Moved, Written, Reached, Move, Goto, Exit, InFinally, Points, Outcomes, InBody, subAgents, calendar
<1>15. ASSUME DropIdem(r) PROVE Moved(r) /\ Written(r) /\ Reached(r) /\ Typed
  BY <1>15, Zenon DEF DropIdem, Moved, Written, Reached, Move, Goto, Exit, InFinally, Points, Outcomes, InBody, subAgents, calendar
<1>16. ASSUME SettleReservation(r) PROVE Moved(r) /\ Written(r) /\ Reached(r) /\ Typed
  BY <1>16 DEF SettleReservation, Moved, Written, Reached, Move, Goto, Exit, InFinally, Points, Outcomes, InBody, subAgents, calendar
<1>17. ASSUME CloseConsumer(r) PROVE Moved(r) /\ Written(r) /\ Reached(r) /\ Typed
  BY <1>17 DEF CloseConsumer, Moved, Written, Reached, Move, Goto, Exit, InFinally, Points, Outcomes, InBody, subAgents, calendar
<1>18. ASSUME Crash(r) PROVE Moved(r) /\ Written(r) /\ Reached(r) /\ Typed
  BY <1>18 DEF Crash, Moved, Written, Reached, Move, Goto, Exit, InFinally, Points, Outcomes, InBody, subAgents, calendar, Running
<1> QED
  BY <1>1, <1>2, <1>3, <1>4, <1>5, <1>6, <1>7, <1>8, <1>9, <1>10, <1>11, <1>12, <1>13, <1>14, <1>15, <1>16, <1>17, <1>18, Zenon DEF Acts, Step

\* SET NX: the body is entered only with a lock that was free.
LEMMA Entered ==
    ASSUME pc \in [Requests -> Points], NEW r \in Requests, AcquireMutex(r), pc'[r] = "gates"
    PROVE  lock[ThreadOf[r]] = Free
<1>1. ASSUME NEW o, Exit(r, "ended", o) PROVE pc'[r] = "ended"
  BY <1>1 DEF Exit, Goto
<1> QED
  BY <1>1, Zenon DEF AcquireMutex

\* What no step of a sub-agent, of Redis or of the calendar touches.
turnState == <<pc, outcome, turns, openTurn, finalized, seen, committed, reserved, billed, missed>>

\* Redis expires a key, a sub-agent starts or ends, the date changes, or nothing happens.
Elsewhere ==
    /\ UNCHANGED turnState
    /\ UNCHANGED <<idem, lock>> \/ (\E t \in Threads : LeaseLapse(t)) \/ (\E k \in Keys : IdemExpire(k))
    /\ UNCHANGED subAgents \/ \E r \in Requests : Delegate(r) \/ SubAgentUsage(r)
    /\ UNCHANGED <<day, crossed>> \/ Midnight

\* Every step is a request's, or one of those.
LEMMA Steps ==
    ASSUME [Next]_vars
    PROVE  /\ UNCHANGED fixed /\ mayLapse' = mayLapse
           /\ Elsewhere \/ \E r \in Requests : Acts(r)
<1>1. ASSUME UNCHANGED vars PROVE UNCHANGED fixed /\ Elsewhere
  BY <1>1, Zenon DEF vars, fixed, Elsewhere, turnState, subAgents
<1>2. ASSUME Next PROVE UNCHANGED fixed /\ (Elsewhere \/ \E r \in Requests : Acts(r))
  <2>1. ASSUME NEW r \in Requests, Delegate(r) \/ SubAgentUsage(r) PROVE Elsewhere
    BY <2>1, Zenon DEF Delegate, SubAgentUsage, Elsewhere, turnState, calendar
  <2>2. ASSUME NEW t \in Threads, LeaseLapse(t) PROVE Elsewhere
    BY <2>2, Zenon DEF LeaseLapse, Elsewhere, turnState, subAgents, calendar
  <2>3. ASSUME NEW k \in Keys, IdemExpire(k) PROVE Elsewhere
    BY <2>3, Zenon DEF IdemExpire, Elsewhere, turnState, subAgents, calendar
  <2>4. ASSUME Midnight PROVE Elsewhere
    BY <2>4, Zenon DEF Midnight, Elsewhere, turnState, subAgents
  <2> QED
    BY <1>2, <2>1, <2>2, <2>3, <2>4, Zenon DEF Next, Acts
<1>3. UNCHANGED fixed => mayLapse' = mayLapse
  BY Zenon DEF fixed
<1> QED
  BY <1>1, <1>2, <1>3, Zenon

----------------------------------------------------------------------------
\* storeMessage and failTurn on a thread's rows: one row is added or rewritten
\* and the others are left alone.
LEMMA RowAdded ==
    ASSUME NEW rows \in Seq(Rows), NEW r \in Requests
    PROVE  /\ NewTurn(rows, r) \in Seq(Rows)
           /\ Len(NewTurn(rows, r)) = Len(rows) + 1
           /\ DOMAIN NewTurn(rows, r) = 1..(Len(rows) + 1)
           /\ \A j \in 1..Len(rows) : NewTurn(rows, r)[j] = rows[j]
           /\ NewTurn(rows, r)[Len(rows) + 1] =
                 [owner |-> r, status |-> "ACTIVE", key |-> KeyOf[r]]
           /\ NewTurn(rows, r)[Len(rows) + 1].status = "ACTIVE"
<1> DEFINE row == [owner |-> r, status |-> "ACTIVE", key |-> KeyOf[r]]
<1>1. row \in Rows /\ row.status = "ACTIVE"
  BY RequestAssumption DEF Rows, Statuses
<1>2. NewTurn(rows, r) = Append(rows, row)
  BY DEF NewTurn
<1> HIDE DEF row
<1> QED
  BY <1>1, <1>2 DEF row

\* finalizeTurn turns the one row it addresses into SUCCEEDED and leaves the others alone.
LEMMA RowFinalized ==
    ASSUME NEW rows \in Seq(Rows), NEW i \in 1..Len(rows)
    PROVE  /\ FinalizeTurn(rows, i) \in Seq(Rows) /\ Len(FinalizeTurn(rows, i)) = Len(rows)
           /\ DOMAIN FinalizeTurn(rows, i) = 1..Len(rows)
           /\ \A j \in 1..Len(rows) : j # i => FinalizeTurn(rows, i)[j] = rows[j]
           /\ FinalizeTurn(rows, i)[i] = [owner |-> rows[i].owner, status |-> "SUCCEEDED", key |-> rows[i].key]
           /\ FinalizeTurn(rows, i)[i].status = "SUCCEEDED"
<1> DEFINE row == [owner |-> rows[i].owner, status |-> "SUCCEEDED", key |-> rows[i].key]
<1>1. rows[i] \in Rows
  OBVIOUS
<1>2. row \in Rows /\ row.status = "SUCCEEDED"
  BY <1>1 DEF Rows, Statuses
<1>3. FinalizeTurn(rows, i) = [rows EXCEPT ![i] = row]
  <2>1. [rows[i] EXCEPT !.status = "SUCCEEDED"] = row
    BY <1>1 DEF Rows
  <2> QED
    BY <2>1, Zenon DEF FinalizeTurn
<1> HIDE DEF row
<1>4. /\ [rows EXCEPT ![i] = row] \in Seq(Rows) /\ Len([rows EXCEPT ![i] = row]) = Len(rows)
      /\ DOMAIN [rows EXCEPT ![i] = row] = 1..Len(rows)
      /\ \A j \in 1..Len(rows) : [rows EXCEPT ![i] = row][j] = IF j = i THEN row ELSE rows[j]
  BY <1>2
<1> QED
  BY <1>2, <1>3, <1>4 DEF row

\* failTurn turns the one row it addresses into FAILED, frees its idempotency key, and leaves
\* the others alone.
LEMMA RowFailed ==
    ASSUME NEW rows \in Seq(Rows), NEW i \in 1..Len(rows)
    PROVE  /\ FailTurn(rows, i) \in Seq(Rows) /\ Len(FailTurn(rows, i)) = Len(rows)
           /\ DOMAIN FailTurn(rows, i) = 1..Len(rows)
           /\ \A j \in 1..Len(rows) : j # i => FailTurn(rows, i)[j] = rows[j]
           /\ FailTurn(rows, i)[i] = [owner |-> rows[i].owner, status |-> "FAILED", key |-> NoKey]
           /\ FailTurn(rows, i)[i].status = "FAILED"
<1> DEFINE row == [owner |-> rows[i].owner, status |-> "FAILED", key |-> NoKey]
<1>1. rows[i] \in Rows
  OBVIOUS
<1>2. row \in Rows /\ row.status = "FAILED"
  BY <1>1 DEF Rows, Statuses
<1>3. FailTurn(rows, i) = [rows EXCEPT ![i] = row]
  <2> DEFINE half == [rows[i] EXCEPT !.status = "FAILED"]
  <2>1. half = [owner |-> rows[i].owner, status |-> "FAILED", key |-> rows[i].key]
    BY <1>1 DEF Rows
  <2> HIDE DEF half
  <2>2. [half EXCEPT !.key = NoKey] = row
    <3>1. half \in [owner : {rows[i].owner}, status : {"FAILED"}, key : {rows[i].key}]
      BY <2>1, Zenon
    <3> QED
      BY <3>1
  <2>3. FailTurn(rows, i) = [[rows EXCEPT ![i] = half] EXCEPT ![i] = [@ EXCEPT !.key = NoKey]]
    BY DEF FailTurn, half
  <2> QED
    BY <2>2, <2>3, Zenon
<1> HIDE DEF row
<1>4. /\ [rows EXCEPT ![i] = row] \in Seq(Rows) /\ Len([rows EXCEPT ![i] = row]) = Len(rows)
      /\ DOMAIN [rows EXCEPT ![i] = row] = 1..Len(rows)
      /\ \A j \in 1..Len(rows) : [rows EXCEPT ![i] = row][j] = IF j = i THEN row ELSE rows[j]
  BY <1>2
<1> QED
  BY <1>2, <1>3, <1>4 DEF row

----------------------------------------------------------------------------
\* The points before a request has a Turn row.
Before == {"start", "thread", "mutex", "gates", "reserve", "admit", "history", "open"}

\* What a request's locals say about its row: nothing before it is opened; an
\* open row from the stream on; a SUCCEEDED one once it was finalized.
Local(r) ==
    /\ pc[r] \in Before => openTurn[r] = 0
    /\ pc[r] \in {"stream", "persist", "bill", "finish"} => openTurn[r] # 0
    /\ openTurn[r] # 0 => openTurn[r] \in DOMAIN MyTurns(r) /\ MyTurns(r)[openTurn[r]].owner = r
    /\ finalized[r] => openTurn[r] # 0 /\ MyTurns(r)[openTurn[r]].status = "SUCCEEDED"
    /\ pc[r] \in {"bill", "finish"} => finalized[r]
    /\ delegating[r] => openTurn[r] # 0

\* A row belongs to the request that opened it, and that request to its thread;
\* the request may not have learned of it.  Only failTurn takes the key away.
Owned(t, i) ==
    LET r == turns[t][i].owner
    IN  /\ ThreadOf[r] = t /\ openTurn[r] \in {0, i} /\ pc[r] \notin Before
        /\ turns[t][i].status # "FAILED" => turns[t][i].key = KeyOf[r]

\* Null keys aside, a thread has one row for a key.
KeysUnique ==
    \A t \in Threads : \A i, j \in DOMAIN turns[t] :
        turns[t][i].key = turns[t][j].key /\ turns[t][i].key # NoKey => i = j

AllOwned == \A t \in Threads : \A i \in DOMAIN turns[t] : Owned(t, i)

RInv ==
    /\ TypeOK
    /\ \A r \in Requests : Local(r)
    /\ AllOwned
    /\ KeysUnique
    /\ BilledIsPersisted

\* A fresh database satisfies the row invariant.
LEMMA RowsInit == Init => RInv
<1> SUFFICES ASSUME Init PROVE RInv
  OBVIOUS
<1>1. fixed \in Environments
  <2>1. PICK e \in Environments : mayLapse = e[1] /\ delegates = e[2] /\ lastDay = e[3]
    BY Zenon DEF Init
  <2>2. e = <<e[1], e[2], e[3]>>
    BY SwitchAssumption
  <2> QED
    BY <2>1, <2>2, Zenon DEF fixed
<1>2. 1 \in Days
  BY SwitchAssumption DEF Days
<1>3. TypeOK
  BY <1>1, <1>2, RequestAssumption, SwitchAssumption DEF Init, TypeOK, Points, Outcomes
<1> QED
  BY <1>3, RequestAssumption
     DEF Init, RInv, Local, AllOwned, Owned, KeysUnique, BilledIsPersisted, Before, MyTurns

\* A request's thread has a sequence of rows, and an open turn is one of them.
LEMMA MyRows ==
    ASSUME RInv, NEW r \in Requests
    PROVE  /\ ThreadOf[r] \in Threads /\ MyTurns(r) = turns[ThreadOf[r]] /\ MyTurns(r) \in Seq(Rows)
           /\ DOMAIN MyTurns(r) = 1..Len(MyTurns(r)) /\ Len(MyTurns(r)) \in Nat
           /\ openTurn[r] \in Nat /\ (openTurn[r] # 0 => openTurn[r] \in 1..Len(MyTurns(r)))
<1>1. ThreadOf[r] \in Threads /\ MyTurns(r) \in Seq(Rows) /\ openTurn[r] \in Nat
  BY RequestAssumption DEF MyTurns, RInv, TypeOK
<1> QED
  BY <1>1 DEF RInv, Local, MyTurns

\* A row of a thread is a row: its owner is a request.
LEMMA RowType ==
    ASSUME TypeOK, NEW t \in Threads, NEW i \in DOMAIN turns[t]
    PROVE  /\ turns[t][i] \in Rows /\ turns[t][i].owner \in Requests
           /\ i \in Nat /\ i # 0
<1>1. turns[t] \in Seq(Rows) /\ i \in 1..Len(turns[t]) /\ i \in Nat /\ i # 0
  BY DEF TypeOK
<1>2. turns[t][i] \in Rows
  BY <1>1
<1> QED
  BY <1>1, <1>2, Zenon DEF Rows

\* Every step of Next keeps the types.
LEMMA TypeStep == RInv /\ [Next]_vars => TypeOK'
<1> SUFFICES ASSUME RInv, [Next]_vars PROVE TypeOK'
  OBVIOUS
<1>0. TypeOK /\ (fixed \in Environments)' /\ day \in Days /\ 1 \in Days
  <2>1. TypeOK /\ UNCHANGED fixed
    BY Steps DEF RInv
  <2> QED
    BY <2>1, SwitchAssumption DEF TypeOK, Days
<1>1. ASSUME NEW r \in Requests, Acts(r) PROVE TypeOK'
  <2>1. /\ Written(r) /\ pc' \in [Requests -> Points] /\ outcome' \in [Requests -> Outcomes]
    BY <1>0, <1>1, Flow DEF TypeOK
  <2>2. KeyOf[r] # NoKey => KeyOf[r] \in Keys
    BY RequestAssumption
  <2>3. idem' \in [Keys -> Requests \cup {Free}]
    <3>1. idem \in [Keys -> Requests \cup {Free}]
      BY <1>0 DEF TypeOK
    <3>2. CASE KeyOf[r] # NoKey /\ \E v \in Requests \cup {Free} : idem' = [idem EXCEPT ![KeyOf[r]] = v]
      BY <2>2, <3>1, <3>2
    <3>3. UNCHANGED idem \/ (KeyOf[r] # NoKey /\ \E v \in Requests \cup {Free} : idem' = [idem EXCEPT ![KeyOf[r]] = v])
      BY <2>1, <2>2, <3>1, Zenon DEF Written, ReserveKey, AcquireMutex, DropIdem, DeleteIdem
    <3> QED
      BY <3>1, <3>2, <3>3
  <2>4. lock' \in [Threads -> Requests \cup {Free}]
    <3>1. lock \in [Threads -> Requests \cup {Free}] /\ ThreadOf[r] \in Threads
      BY <1>0, RequestAssumption DEF TypeOK
    <3>2. UNCHANGED lock \/ \E v \in Requests \cup {Free} : lock' = [lock EXCEPT ![ThreadOf[r]] = v]
      BY <2>1, <3>1, Zenon DEF Written, AcquireMutex, ReleaseMutex
    <3> QED
      BY <3>1, <3>2
  <2>5. turns' \in [Threads -> Seq(Rows)]
    <3>1. /\ NewTurn(MyTurns(r), r) \in Seq(Rows)
          /\ openTurn[r] # 0 => /\ FinalizeTurn(MyTurns(r), openTurn[r]) \in Seq(Rows)
                                /\ FailTurn(MyTurns(r), openTurn[r]) \in Seq(Rows)
      BY MyRows, RowAdded, RowFinalized, RowFailed, Zenon
    <3>2. PersistReply(r) => openTurn[r] # 0
      BY DEF PersistReply, RInv, Local
    <3>3. UNCHANGED turns \/ \E rows \in Seq(Rows) : turns' = [turns EXCEPT ![ThreadOf[r]] = rows]
      BY <2>1, <3>1, <3>2, MyRows, Zenon DEF Written, OpenTurn, PersistReply, CatchError
    <3>4. turns \in [Threads -> Seq(Rows)]
      BY <1>0 DEF TypeOK
    <3> QED
      BY <3>3, <3>4, MyRows, Zenon
  <2>6. openTurn' \in [Requests -> Nat]
    <3>1. Len(MyTurns(r)) \in Nat /\ openTurn \in [Requests -> Nat]
      BY <1>0, MyRows DEF TypeOK
    <3> QED
      BY <2>1, <3>1 DEF Written, OpenTurn
  <2>7. finalized' \in [Requests -> BOOLEAN] /\ committed' \in [Requests -> BOOLEAN]
    BY <1>0, <2>1, Zenon DEF Written, PersistReply, BeginReservation, TypeOK
  <2>8. seen' \in [Requests -> SUBSET (Nat \ {0})]
    <3>1. Succeeded(MyTurns(r)) \in SUBSET (Nat \ {0})
      BY MyRows DEF Succeeded
    <3>2. UNCHANGED seen \/ seen' = [seen EXCEPT ![r] = Succeeded(MyTurns(r))]
      BY <2>1 DEF Written, LoadHistory
    <3>3. seen \in [Requests -> SUBSET (Nat \ {0})]
      BY <1>0 DEF TypeOK
    <3> QED
      BY <3>1, <3>2, <3>3, Zenon
  <2>9. reserved' \in [Days -> Int] /\ missed' \in SUBSET Requests
    <3>1. reserved \in [Days -> Int] /\ missed \in SUBSET Requests
      BY <1>0 DEF TypeOK
    <3>2. \A n \in {1, -1} : Count(r, n) => reserved' \in [Days -> Int] /\ missed' \in SUBSET Requests
      BY <1>0, <3>1 DEF Count
    <3> QED
      BY <2>1, <3>1, <3>2 DEF Written, BeginReservation, SettleReservation
  <2>10. billed' \in SUBSET (Threads \X (Nat \ {0}))
    <3>1. RecordUsage(r) => <<ThreadOf[r], openTurn[r]>> \in Threads \X (Nat \ {0})
      BY MyRows, Zenon DEF RecordUsage, RInv, Local
    <3> QED
      BY <1>0, <2>1, <3>1 DEF Written, RecordUsage, TypeOK
  <2>11. /\ delegating' \in [Requests -> BOOLEAN] /\ delegated' \in SUBSET (Threads \X (Nat \ {0}))
         /\ day' \in Days /\ crossed' \in SUBSET Requests
    BY <1>0, <2>1, Zenon DEF Written, Crash, TypeOK
  <2> QED
    BY <1>0, <2>1, <2>3, <2>4, <2>5, <2>6, <2>7, <2>8, <2>9, <2>10, <2>11, Zenon DEF TypeOK
<1>2. ASSUME Elsewhere PROVE TypeOK'
  <2>1. lock' \in [Threads -> Requests \cup {Free}] /\ idem' \in [Keys -> Requests \cup {Free}]
    BY <1>0, <1>2, Zenon DEF Elsewhere, TypeOK, LeaseLapse, IdemExpire
  <2>2. delegating' \in [Requests -> BOOLEAN] /\ delegated' \in SUBSET (Threads \X (Nat \ {0}))
    <3>1. ASSUME NEW r \in Requests, delegating[r] PROVE <<ThreadOf[r], openTurn[r]>> \in Threads \X (Nat \ {0})
      BY <3>1, MyRows, Zenon DEF RInv, Local
    <3> QED
      BY <1>0, <1>2, <3>1, Zenon DEF Elsewhere, subAgents, Delegate, SubAgentUsage, TypeOK
  <2>3. day' \in Days /\ crossed' \in SUBSET Requests
    <3>1. CASE UNCHANGED <<day, crossed>>
      BY <1>0, <3>1, Zenon DEF TypeOK
    <3>2. CASE Midnight
      <4>1. lastDay \in 1 .. MaxDay /\ day \in 1 .. MaxDay
        BY <1>0, SwitchAssumption DEF TypeOK, fixed, Days
      <4>2. day' \in Days
        BY <3>2, <4>1, SwitchAssumption DEF Midnight, Days
      <4> QED
        BY <1>0, <3>2, <4>2, Zenon DEF Midnight, TypeOK
    <3> QED
      BY <1>2, <3>1, <3>2, Zenon DEF Elsewhere
  <2> QED
    BY <1>0, <1>2, <2>1, <2>2, <2>3, Zenon DEF TypeOK, Elsewhere, turnState
<1> QED
  BY <1>1, <1>2, Steps

\* The three writers of rows, thread by thread.
LEMMA Opened ==
    ASSUME RInv, NEW r \in Requests, OpenTurn(r)
    PROVE  \/ UNCHANGED <<turns, openTurn>> /\ pc'[r] = "catch"
           \/ /\ ~KeyTaken(MyTurns(r), KeyOf[r])
              /\ \/ openTurn'[r] = Len(MyTurns(r)) + 1
                 \/ UNCHANGED openTurn /\ pc'[r] = "catch"
              /\ \A s \in Requests \ {r} : openTurn'[s] = openTurn[s]
              /\ turns'[ThreadOf[r]] = NewTurn(MyTurns(r), r)
              /\ \A t \in Threads \ {ThreadOf[r]} : turns'[t] = turns[t]
<1>1. /\ turns \in [Threads -> Seq(Rows)] /\ openTurn \in [Requests -> Nat]
      /\ pc \in [Requests -> Points]
  BY DEF RInv, TypeOK
<1> QED
  BY <1>1, MyRows DEF OpenTurn, Goto, Exit

\* persistReply finalizes the request's own ACTIVE row, and the request knows it or lands in the
\* catch block, or it fails into the catch block.
LEMMA Finalized ==
    ASSUME RInv, NEW r \in Requests, PersistReply(r)
    PROVE  \/ UNCHANGED turns /\ UNCHANGED finalized /\ pc'[r] = "catch"
           \/ /\ openTurn[r] \in 1..Len(MyTurns(r)) /\ MyTurns(r)[openTurn[r]].status = "ACTIVE"
              /\ turns'[ThreadOf[r]] = FinalizeTurn(MyTurns(r), openTurn[r])
              /\ \A t \in Threads \ {ThreadOf[r]} : turns'[t] = turns[t]
              /\ \/ finalized' = [finalized EXCEPT ![r] = TRUE]
                 \/ UNCHANGED finalized /\ pc'[r] = "catch"
<1>1. turns \in [Threads -> Seq(Rows)] /\ pc \in [Requests -> Points] /\ Local(r)
  BY DEF RInv, TypeOK
<1> QED
  BY <1>1, MyRows DEF PersistReply, Goto, Exit, Local

\* The catch block either fails the request's own ACTIVE row, which was never finalized, or finds
\* none to fail.
LEMMA Failed ==
    ASSUME RInv, NEW r \in Requests, CatchError(r)
    PROVE  \/ /\ UNCHANGED turns
              /\ ~SwallowedErrors /\ openTurn[r] # 0 => MyTurns(r)[openTurn[r]].status # "ACTIVE"
           \/ /\ openTurn[r] \in 1..Len(MyTurns(r)) /\ MyTurns(r)[openTurn[r]].status = "ACTIVE"
              /\ turns'[ThreadOf[r]] = FailTurn(MyTurns(r), openTurn[r])
              /\ \A t \in Threads \ {ThreadOf[r]} : turns'[t] = turns[t]
              /\ ~finalized[r]
<1>1. turns \in [Threads -> Seq(Rows)] /\ finalized \in [Requests -> BOOLEAN] /\ Local(r)
  BY DEF RInv, TypeOK
<1> QED
  BY <1>1, MyRows DEF CatchError, Goto, Exit, Local

\* How a row may change in one step.
Advances(t, i) ==
    /\ i \in DOMAIN turns'[t]
    /\ turns'[t][i].owner = turns[t][i].owner
    /\ turns'[t][i].key \in {turns[t][i].key, NoKey}
    /\ turns'[t][i] # turns[t][i] =>
           /\ turns[t][i].status = "ACTIVE"
           /\ turns'[t][i].status # "ACTIVE"
           /\ turns'[t][i].key # turns[t][i].key => turns'[t][i].status = "FAILED"

\* How a row comes to be.
Appears(t, i, r) ==
    /\ OpenTurn(r) /\ t = ThreadOf[r] /\ i = Len(turns[t]) + 1
    /\ openTurn'[r] \in {0, i} /\ pc'[r] \notin Before
    /\ ~KeyTaken(turns[t], KeyOf[r])
    /\ turns'[t][i] = [owner |-> r, status |-> "ACTIVE", key |-> KeyOf[r]]

\* Whatever a request does, the rows of every thread only grow, and a settled row keeps its status.
LEMMA RowsMove ==
    ASSUME RInv, NEW r \in Requests, Acts(r), NEW t \in Threads
    PROVE  /\ \A i \in DOMAIN turns[t] : Advances(t, i)
           /\ \A i \in DOMAIN turns'[t] \ DOMAIN turns[t] : Appears(t, i, r)
<1>0. /\ Moved(r) /\ Written(r) /\ turns[t] \in Seq(Rows) /\ DOMAIN turns[t] = 1..Len(turns[t]) /\ Len(turns[t]) \in Nat
  BY Flow DEF RInv, TypeOK
<1>1. CASE turns'[t] = turns[t]
  BY <1>1 DEF Advances
<1>2. ASSUME OpenTurn(r), turns'[t] # turns[t]
      PROVE  /\ \A i \in DOMAIN turns[t] : Advances(t, i)
             /\ \A i \in DOMAIN turns'[t] \ DOMAIN turns[t] : Appears(t, i, r)
  <2>1. /\ t = ThreadOf[r] /\ MyTurns(r) = turns[t] /\ turns'[t] = NewTurn(turns[t], r)
        /\ ~KeyTaken(turns[t], KeyOf[r]) /\ openTurn'[r] \in {0, Len(turns[t]) + 1}
        /\ pc'[r] \notin Before
    <3>1. openTurn[r] = 0 /\ pc'[r] \notin Before
      BY <1>0, <1>2, Zenon DEF OpenTurn, RInv, Local, Before, Moved, Move
    <3> QED
      BY <1>2, <3>1, Opened, MyRows
  <2>2. /\ DOMAIN turns'[t] = 1..(Len(turns[t]) + 1)
        /\ \A j \in 1..Len(turns[t]) : turns'[t][j] = turns[t][j]
        /\ turns'[t][Len(turns[t]) + 1] = [owner |-> r, status |-> "ACTIVE", key |-> KeyOf[r]]
    <3>1. /\ DOMAIN NewTurn(turns[t], r) = 1..(Len(turns[t]) + 1)
          /\ \A j \in 1..Len(turns[t]) : NewTurn(turns[t], r)[j] = turns[t][j]
          /\ NewTurn(turns[t], r)[Len(turns[t]) + 1] =
                [owner |-> r, status |-> "ACTIVE", key |-> KeyOf[r]]
      BY <1>0, RowAdded, Zenon
    <3> QED
      BY <2>1, <3>1
  <2>3. \A i \in DOMAIN turns[t] : Advances(t, i)
    BY <1>0, <2>2 DEF Advances
  <2>4. \A i \in DOMAIN turns'[t] \ DOMAIN turns[t] : i = Len(turns[t]) + 1
    BY <1>0, <2>2
  <2> QED
    BY <1>2, <2>1, <2>2, <2>3, <2>4, Zenon DEF Appears
<1>3. ASSUME NEW o \in 1..Len(turns[t]), turns[t][o].status = "ACTIVE",
             DOMAIN turns'[t] = 1..Len(turns[t]),
             \A j \in 1..Len(turns[t]) : j # o => turns'[t][j] = turns[t][j],
             \/ turns'[t][o] = [owner |-> turns[t][o].owner, status |-> "SUCCEEDED", key |-> turns[t][o].key]
             \/ turns'[t][o] = [owner |-> turns[t][o].owner, status |-> "FAILED", key |-> NoKey]
      PROVE  /\ \A i \in DOMAIN turns[t] : Advances(t, i)
             /\ DOMAIN turns'[t] = DOMAIN turns[t]
  BY <1>0, <1>3 DEF Advances
<1>4. ASSUME PersistReply(r), turns'[t] # turns[t]
      PROVE  (\A i \in DOMAIN turns[t] : Advances(t, i)) /\ DOMAIN turns'[t] = DOMAIN turns[t]
  <2>1. /\ t = ThreadOf[r] /\ MyTurns(r) = turns[t] /\ openTurn[r] \in 1..Len(turns[t])
        /\ turns[t][openTurn[r]].status = "ACTIVE" /\ turns'[t] = FinalizeTurn(turns[t], openTurn[r])
    BY <1>4, Finalized, MyRows
  <2> DEFINE new == FinalizeTurn(turns[t], openTurn[r])
  <2>2. /\ DOMAIN new = 1..Len(turns[t])
        /\ \A j \in 1..Len(turns[t]) : j # openTurn[r] => new[j] = turns[t][j]
        /\ new[openTurn[r]] = [owner |-> turns[t][openTurn[r]].owner, status |-> "SUCCEEDED", key |-> turns[t][openTurn[r]].key]
    BY <1>0, <2>1, RowFinalized, Zenon
  <2> HIDE DEF new
  <2>3. turns'[t] = new
    BY <2>1 DEF new
  <2> QED
    BY <2>1, <2>2, <2>3, <1>3, Zenon
<1>5. ASSUME CatchError(r), turns'[t] # turns[t]
      PROVE  (\A i \in DOMAIN turns[t] : Advances(t, i)) /\ DOMAIN turns'[t] = DOMAIN turns[t]
  <2>1. /\ t = ThreadOf[r] /\ MyTurns(r) = turns[t] /\ openTurn[r] \in 1..Len(turns[t])
        /\ turns[t][openTurn[r]].status = "ACTIVE" /\ turns'[t] = FailTurn(turns[t], openTurn[r])
    BY <1>5, Failed, MyRows
  <2> DEFINE new == FailTurn(turns[t], openTurn[r])
  <2>2. /\ DOMAIN new = 1..Len(turns[t])
        /\ \A j \in 1..Len(turns[t]) : j # openTurn[r] => new[j] = turns[t][j]
        /\ new[openTurn[r]] = [owner |-> turns[t][openTurn[r]].owner, status |-> "FAILED", key |-> NoKey]
    BY <1>0, <2>1, RowFailed, Zenon
  <2> HIDE DEF new
  <2>3. turns'[t] = new
    BY <2>1, Zenon DEF new
  <2> QED
    BY <2>1, <2>2, <2>3, <1>3, Zenon
<1> QED
  BY <1>0, <1>1, <1>2, <1>4, <1>5 DEF Written

\* Every step of Next keeps the row invariant.
LEMMA RowsStep == RInv /\ [Next]_vars => RInv'
<1> SUFFICES ASSUME RInv, [Next]_vars PROVE RInv'
  OBVIOUS
<1>0. TypeOK /\ TypeOK'
  BY TypeStep DEF RInv
<1>1. ASSUME Elsewhere PROVE RInv'
  <2>0. UNCHANGED <<pc, turns, openTurn, finalized, billed>>
    BY <1>1, Zenon DEF Elsewhere, turnState
  <2>1. ASSUME NEW s \in Requests PROVE delegating'[s] => openTurn[s] # 0
    <3>1. delegating'[s] => delegating[s] \/ pc[s] = "stream"
      BY <1>0, <1>1, Zenon DEF Elsewhere, subAgents, Delegate, SubAgentUsage, TypeOK
    <3> QED
      BY <3>1, Zenon DEF RInv, Local
  <2>2. ASSUME NEW x \in delegated' PROVE x[2] \in DOMAIN turns[x[1]]
    <3>1. x \in delegated \/ \E r \in Requests : delegating[r] /\ x = <<ThreadOf[r], openTurn[r]>>
      BY <1>1, Zenon DEF Elsewhere, subAgents, Delegate, SubAgentUsage
    <3> QED
      BY <3>1 DEF RInv, Local, MyTurns, BilledIsPersisted
  <2>3. BilledIsPersisted'
    BY <2>0, <2>2, Zenon DEF BilledIsPersisted, Charged, RInv
  <2>4. \A s \in Requests : Local(s)'
    BY <2>0, <2>1 DEF RInv, Local, MyTurns
  <2>5. AllOwned' /\ KeysUnique'
    BY <2>0 DEF RInv, AllOwned, Owned, KeysUnique
  <2> QED
    BY <1>0, <2>3, <2>4, <2>5, Zenon DEF RInv
<1>2. ASSUME NEW r \in Requests, Acts(r) PROVE RInv'
  <2>0. Moved(r) /\ Written(r) /\ Reached(r)
    BY <1>0, <1>2, Flow, Zenon DEF TypeOK
  <2>1. \A t \in Threads : /\ \A i \in DOMAIN turns[t] : Advances(t, i)
                           /\ \A i \in DOMAIN turns'[t] \ DOMAIN turns[t] : Appears(t, i, r)
    BY <1>2, RowsMove
  <2>2. \A s \in Requests : Local(s) /\ ThreadOf[s] \in Threads
    BY RequestAssumption DEF RInv
  \* The rows and locals of the request that moved.
  <2>3. /\ openTurn'[r] = openTurn[r] \/ /\ pc[r] = "open" /\ openTurn[r] = 0 /\ pc'[r] # "open"
                                         /\ openTurn'[r] # 0
                                         /\ openTurn'[r] \in DOMAIN MyTurns(r)' /\ MyTurns(r)'[openTurn'[r]].owner = r
        /\ pc'[r] = "stream" => openTurn'[r] # 0
    <3>1. CASE UNCHANGED openTurn
      <4>1. pc'[r] # "stream"
        BY <3>1, <2>0, <2>2, Opened, MyRows DEF Reached, Moved, Move, Local, Before
      <4> QED
        BY <3>1, <4>1
    <3>2. CASE OpenTurn(r) /\ ~UNCHANGED openTurn
      <4>1. /\ openTurn'[r] = Len(MyTurns(r)) + 1 /\ MyTurns(r)' = NewTurn(MyTurns(r), r)
        BY <3>2, Opened DEF MyTurns
      <4>2. /\ DOMAIN NewTurn(MyTurns(r), r) = 1..(Len(MyTurns(r)) + 1)
            /\ NewTurn(MyTurns(r), r)[Len(MyTurns(r)) + 1] =
                  [owner |-> r, status |-> "ACTIVE", key |-> KeyOf[r]]
        BY MyRows, RowAdded, Zenon
      <4>3. pc[r] = "open" /\ openTurn[r] = 0 /\ pc'[r] # "open"
        BY <3>2, <2>0, <2>2, Zenon DEF OpenTurn, Local, Before, Moved, Move
      <4> QED
        BY <4>1, <4>2, <4>3, MyRows
    <3> QED
      BY <2>0, <3>1, <3>2, Zenon DEF Written
  <2>4. /\ finalized'[r] => finalized[r] \/ /\ pc[r] = "persist" /\ openTurn[r] # 0
                                            /\ MyTurns(r)'[openTurn[r]].status = "SUCCEEDED"
        /\ finalized[r] => finalized'[r]
        /\ pc'[r] = "bill" => finalized'[r]
    <3>1. CASE UNCHANGED finalized
      <4>1. pc'[r] = "bill" => finalized'[r]
        <5> SUFFICES ASSUME pc'[r] = "bill" PROVE finalized'[r]
          BY Zenon
        <5>1. PersistReply(r) /\ finalized \in [Requests -> BOOLEAN]
          BY <2>0, <1>0, Zenon DEF Reached, TypeOK
        <5>2. finalized' = [finalized EXCEPT ![r] = TRUE]
          BY <5>1, <1>0, Zenon DEF PersistReply, Goto, Exit, TypeOK
        <5> QED
          BY <5>1, <5>2, Zenon
      <4> QED
        BY <3>1, <4>1, Zenon
    <3>2. CASE PersistReply(r) /\ ~UNCHANGED finalized
      <4>1. /\ openTurn[r] \in 1..Len(MyTurns(r)) /\ finalized'[r]
            /\ MyTurns(r)' = FinalizeTurn(MyTurns(r), openTurn[r])
        BY <3>2, <1>0, Finalized DEF MyTurns, TypeOK
      <4>2. FinalizeTurn(MyTurns(r), openTurn[r])[openTurn[r]].status = "SUCCEEDED"
        BY <4>1, MyRows, RowFinalized, Zenon
      <4> QED
        BY <3>2, <4>1, <4>2 DEF PersistReply
    <3> QED
      BY <2>0, <3>1, <3>2 DEF Written
  <2>5. \A s \in Requests \ {r} : openTurn'[s] = openTurn[s] /\ finalized'[s] = finalized[s]
    BY <1>0, <2>0, Zenon DEF Written, OpenTurn, PersistReply, TypeOK
  <2>d. \A s \in Requests : delegating'[s] => delegating[s]
    BY <1>0, <2>0, Zenon DEF Written, Crash, TypeOK
  <2>6. \A s \in Requests : openTurn[s] # 0 =>
           /\ openTurn[s] \in DOMAIN MyTurns(s)' /\ MyTurns(s)'[openTurn[s]].owner = s
           /\ finalized[s] => MyTurns(s)'[openTurn[s]].status = "SUCCEEDED"
    BY <2>1, <2>2 DEF Local, Advances, MyTurns
  <2>7. \A s \in Requests \ {r} : Local(s)'
    BY <2>0, <2>2, <2>5, <2>6, <2>d DEF Local, Moved
  <2>8. Local(r)'
    <3>1. /\ pc'[r] \in Before => pc[r] \in Before
          /\ pc'[r] \in {"persist", "bill", "finish"} => pc[r] \in {"stream", "persist", "bill"}
          /\ pc'[r] = "finish" => pc[r] = "bill"
      BY <2>0 DEF Moved, Move, Before
    <3>2. /\ pc'[r] \in Before => openTurn'[r] = 0
          /\ pc'[r] \in {"stream", "persist", "bill", "finish"} => openTurn'[r] # 0
      <4>1. pc'[r] \in Before => pc[r] # "open"
        BY <2>0, Zenon DEF Moved, Move, Before
      <4> QED
        BY <2>2, <2>3, <3>1, <4>1 DEF Local
    <3>3. openTurn'[r] # 0 => openTurn'[r] \in DOMAIN MyTurns(r)' /\ MyTurns(r)'[openTurn'[r]].owner = r
      BY <2>3, <2>6
    <3>4. finalized'[r] => openTurn'[r] # 0 /\ MyTurns(r)'[openTurn'[r]].status = "SUCCEEDED"
      BY <2>2, <2>3, <2>4, <2>6, Zenon DEF Local, Before
    <3>5. pc'[r] \in {"bill", "finish"} => finalized'[r]
      BY <2>2, <2>4, <3>1 DEF Local
    <3>6. delegating'[r] => openTurn'[r] # 0
      BY <2>2, <2>3, <2>d, Zenon DEF Local
    <3> QED
      BY <3>2, <3>3, <3>4, <3>5, <3>6 DEF Local
  <2>9. AllOwned'
    <3> SUFFICES ASSUME NEW t \in Threads, NEW i \in DOMAIN turns'[t] PROVE Owned(t, i)'
      BY DEF AllOwned
    <3>1. CASE i \in DOMAIN turns[t]
      <4>1. Owned(t, i) /\ turns'[t][i].owner = turns[t][i].owner /\ turns[t][i].owner \in Requests
        BY <1>0, <2>1, <3>1, RowType DEF RInv, AllOwned, Advances
      <4>2. \A s \in Requests : pc[s] \notin Before => pc'[s] \notin Before /\ openTurn'[s] = openTurn[s]
        BY <2>0, <2>3, <2>5, Zenon DEF Moved, Move, Before
      <4>3. turns'[t][i].status # "FAILED" => turns[t][i].status # "FAILED" /\ turns'[t][i].key = turns[t][i].key
        BY <2>1, <3>1 DEF Advances
      <4> QED
        BY <4>1, <4>2, <4>3, Zenon DEF Owned
    <3>2. CASE i \notin DOMAIN turns[t]
      BY <2>1, <3>2 DEF Owned, Appears
    <3> QED
      BY <3>1, <3>2
  <2>10. KeysUnique'
    <3> SUFFICES ASSUME NEW t \in Threads, NEW i \in DOMAIN turns'[t], NEW j \in DOMAIN turns'[t],
                        turns'[t][i].key = turns'[t][j].key, turns'[t][i].key # NoKey
                 PROVE  i = j
      BY DEF KeysUnique
    <3>1. \A k \in DOMAIN turns'[t] :
             \/ k \in DOMAIN turns[t] /\ turns'[t][k].key \in {turns[t][k].key, NoKey}
             \/ /\ k = Len(turns[t]) + 1 /\ turns'[t][k].key = KeyOf[r]
                /\ ~KeyTaken(turns[t], KeyOf[r])
      BY <2>1 DEF Advances, Appears
    <3> QED
      BY <3>1, Zenon DEF RInv, KeysUnique, KeyTaken
  <2>11. BilledIsPersisted'
    <3>0. ASSUME NEW x, x[1] \in Threads, x[2] \in DOMAIN turns[x[1]]
          PROVE  /\ x[2] \in DOMAIN turns'[x[1]]
                 /\ turns[x[1]][x[2]].status = "SUCCEEDED" => turns'[x[1]][x[2]].status = "SUCCEEDED"
      BY <3>0, <2>1 DEF Advances
    <3>1. \A x \in billed \cup delegated : x[1] \in Threads /\ x[2] \in DOMAIN turns[x[1]]
      BY Zenon DEF RInv, TypeOK, BilledIsPersisted
    <3>2. delegated' = delegated /\ \A x \in billed : turns[x[1]][x[2]].status = "SUCCEEDED"
      BY <2>0, Zenon DEF Written, RInv, BilledIsPersisted, Charged
    <3>3. ASSUME NEW x \in billed', x \notin billed
          PROVE  x[1] \in Threads /\ x[2] \in DOMAIN turns[x[1]] /\ turns[x[1]][x[2]].status = "SUCCEEDED"
      <4>1. RecordUsage(r) /\ x[1] = ThreadOf[r] /\ x[2] = openTurn[r]
        BY <2>0, <3>3 DEF Written, RecordUsage
      <4>2. finalized[r]
        BY <4>1, <2>2, Zenon DEF RecordUsage, Local
      <4> QED
        BY <4>1, <4>2, <2>2 DEF Local, MyTurns
    <3> QED
      BY <3>0, <3>1, <3>2, <3>3, Zenon DEF BilledIsPersisted, Charged
  <2> QED
    BY <1>0, <2>7, <2>8, <2>9, <2>10, <2>11, Zenon DEF RInv
<1> QED
  BY <1>1, <1>2, Steps, Zenon

----------------------------------------------------------------------------
\* Serialization.  Healthy leases keep the lock with the request that needs it,
\* so its row is the thread's last one and the history it read is not outdated
\* before its own row exists.
Held ==
    ~mayLapse => \A r \in Requests : NeedsLock(r) => lock[ThreadOf[r]] = r

LastRow ==
    ~mayLapse => \A r \in Requests :
        NeedsLock(r) /\ openTurn[r] # 0 => openTurn[r] = Len(MyTurns(r))

FreshRead ==
    ~mayLapse => \A r \in Requests : pc[r] = "open" => seen[r] = Succeeded(MyTurns(r))

SInv == Held /\ LastRow /\ FreshRead /\ HistoryComplete

\* Every step keeps Held: where leases do not lapse, a request that needs the lock has it.
LEMMA HeldStep == RInv /\ Held /\ [Next]_vars => Held'
<1> SUFFICES ASSUME RInv, Held, [Next]_vars, ~mayLapse,
                    NEW s \in Requests, NeedsLock(s)'
             PROVE  lock'[ThreadOf[s]] = s
  BY Steps, Zenon DEF Held
<1>0. /\ TypeOK /\ mayLapse' = mayLapse
      /\ \A r \in Requests : ThreadOf[r] \in Threads /\ (NeedsLock(r) => lock[ThreadOf[r]] = r)
  BY RequestAssumption, Steps, Zenon DEF RInv, Held
<1>1. ASSUME NEW r \in Requests, Acts(r) PROVE lock'[ThreadOf[s]] = s
  <2>0. Moved(r) /\ Written(r) /\ Reached(r)
    BY <1>0, <1>1, Flow, Zenon DEF TypeOK
  <2>1. CASE NeedsLock(s)
    <3>1. lock[ThreadOf[s]] = s /\ s # Free
      BY <1>0, <2>1, RequestAssumption, Zenon
    <3>2. s = r => pc'[r] # "dropIdem"
      BY Zenon DEF NeedsLock, InBody
    <3>3. AcquireMutex(r) => lock'[ThreadOf[s]] = s
      BY <1>0, <3>1, Zenon DEF AcquireMutex, TypeOK
    <3>4. ReleaseMutex(r) => lock'[ThreadOf[s]] = s
      BY <1>0, <3>1, <3>2, Zenon DEF ReleaseMutex, Goto, TypeOK
    <3> QED
      BY <2>0, <3>1, <3>3, <3>4, Zenon DEF Written
  <2>2. CASE ~NeedsLock(s)
    <3>1. s = r /\ AcquireMutex(r) /\ pc'[r] = "gates"
      BY <2>0, <2>2, Zenon DEF Moved, Move, Reached, NeedsLock, InBody
    <3> QED
      BY <1>0, <3>1, Zenon DEF AcquireMutex, Goto, Exit, TypeOK
  <2> QED
    BY <2>1, <2>2, Zenon
<1>2. ASSUME UNCHANGED pc, UNCHANGED lock \/ \E t \in Threads : LeaseLapse(t) PROVE lock'[ThreadOf[s]] = s
  BY <1>0, <1>2, Zenon DEF NeedsLock, LeaseLapse, TypeOK
<1>3. \A k \in Keys : IdemExpire(k) => UNCHANGED lock
  BY Zenon DEF IdemExpire
<1> QED
  BY <1>1, <1>2, <1>3, Steps, Zenon DEF Elsewhere, turnState

\* What the writes of a row do to the set of successful turns.
LEMMA SucceededRows ==
    ASSUME NEW rows \in Seq(Rows)
    PROVE  /\ Succeeded(rows) \subseteq 1..Len(rows)
           /\ \A r \in Requests : Succeeded(NewTurn(rows, r)) = Succeeded(rows)
           /\ \A i \in 1..Len(rows) : rows[i].status = "ACTIVE" =>
                 /\ Succeeded(FinalizeTurn(rows, i)) = Succeeded(rows) \cup {i}
                 /\ Succeeded(FailTurn(rows, i)) = Succeeded(rows)
<1>0. Len(rows) \in Nat /\ DOMAIN rows = 1..Len(rows)
  OBVIOUS
<1>1. ASSUME NEW r \in Requests PROVE Succeeded(NewTurn(rows, r)) = Succeeded(rows)
  <2>1. /\ DOMAIN NewTurn(rows, r) = 1..(Len(rows) + 1)
        /\ NewTurn(rows, r)[Len(rows) + 1].status = "ACTIVE"
        /\ \A j \in 1..Len(rows) : NewTurn(rows, r)[j] = rows[j]
    BY RowAdded, Zenon
  <2> QED
    BY <1>0, <2>1 DEF Succeeded
<1>2. ASSUME NEW i \in 1..Len(rows), rows[i].status = "ACTIVE"
      PROVE  Succeeded(FinalizeTurn(rows, i)) = Succeeded(rows) \cup {i}
  <2>1. /\ DOMAIN FinalizeTurn(rows, i) = 1..Len(rows)
        /\ FinalizeTurn(rows, i)[i].status = "SUCCEEDED"
        /\ \A j \in 1..Len(rows) : j # i => FinalizeTurn(rows, i)[j] = rows[j]
    BY RowFinalized, Zenon
  <2> QED
    BY <1>0, <1>2, <2>1, Zenon DEF Succeeded
<1>3. ASSUME NEW i \in 1..Len(rows), rows[i].status = "ACTIVE"
      PROVE  Succeeded(FailTurn(rows, i)) = Succeeded(rows)
  <2>1. /\ DOMAIN FailTurn(rows, i) = 1..Len(rows)
        /\ FailTurn(rows, i)[i].status = "FAILED"
        /\ \A j \in 1..Len(rows) : j # i => FailTurn(rows, i)[j] = rows[j]
    BY RowFailed, Zenon
  <2> QED
    BY <1>0, <1>3, <2>1, Zenon DEF Succeeded
<1> QED
  BY <1>0, <1>1, <1>2, <1>3, Zenon DEF Succeeded

\* Every step keeps the rows serialized by the lock, as the inductive invariant states it.
LEMMA SerialStep == RInv /\ SInv /\ [Next]_vars => SInv'
<1> SUFFICES ASSUME RInv, SInv, [Next]_vars, ~mayLapse
             PROVE  LastRow' /\ FreshRead' /\ HistoryComplete'
  BY HeldStep, Steps, Zenon DEF SInv, LastRow, FreshRead, HistoryComplete
<1>0. \A r, s \in Requests : NeedsLock(r) /\ NeedsLock(s) /\ ThreadOf[r] = ThreadOf[s] => r = s
  BY Zenon DEF SInv, Held
<1>1. \A r \in Requests : /\ openTurn[r] # 0 => seen[r] = {i \in Succeeded(MyTurns(r)) : i < openTurn[r]}
                          /\ pc[r] = "open" => seen[r] = Succeeded(MyTurns(r))
                          /\ NeedsLock(r) /\ openTurn[r] # 0 => openTurn[r] = Len(MyTurns(r))
                          /\ pc[r] \in Before => openTurn[r] = 0
  BY Zenon DEF SInv, HistoryComplete, FreshRead, LastRow, RInv, Local
\* Rows that keep their number and their successes, and requests that keep theirs.
<1>2. ASSUME UNCHANGED openTurn,
             \A s \in Requests : /\ Succeeded(MyTurns(s)') = Succeeded(MyTurns(s))
                                 /\ Len(MyTurns(s)') = Len(MyTurns(s))
                                 /\ openTurn[s] # 0 => seen'[s] = seen[s]
                                 /\ pc'[s] = "open" => seen'[s] = Succeeded(MyTurns(s))
                                 /\ NeedsLock(s)' => NeedsLock(s) \/ openTurn[s] = 0
      PROVE  LastRow' /\ FreshRead' /\ HistoryComplete'
  BY <1>1, <1>2, Zenon DEF LastRow, FreshRead, HistoryComplete
<1>3. ASSUME UNCHANGED <<pc, turns, openTurn, seen>> PROVE LastRow' /\ FreshRead' /\ HistoryComplete'
  BY <1>3, <1>2, <1>1, Zenon DEF MyTurns, NeedsLock
<1>4. ASSUME NEW r \in Requests, Acts(r) PROVE LastRow' /\ FreshRead' /\ HistoryComplete'
  <2>0. /\ Moved(r) /\ Written(r) /\ Reached(r)
        /\ pc \in [Requests -> Points] /\ seen \in [Requests -> SUBSET (Nat \ {0})]
    BY <1>4, Flow, Zenon DEF RInv, TypeOK
  <2>1. \A s \in Requests : NeedsLock(s)' => NeedsLock(s) \/ openTurn[s] = 0
    BY <2>0, <1>1, Zenon DEF Moved, Move, NeedsLock, InBody, Before
  <2>2. \A s \in Requests \ {r} : seen'[s] = seen[s] /\ pc'[s] = pc[s]
    BY <2>0, Zenon DEF Moved, Written, LoadHistory
  <2>3. openTurn[r] # 0 => seen'[r] = seen[r]
    BY <2>0, <1>1, Zenon DEF Written, LoadHistory, Before
  <2>4. pc'[r] = "open" => seen'[r] = Succeeded(MyTurns(r))
    BY <2>0, Zenon DEF Reached, LoadHistory, Goto, Exit
  <2>5. CASE UNCHANGED <<turns, openTurn>>
    BY <2>5, <2>1, <2>2, <2>3, <2>4, <1>1, <1>2, Zenon DEF MyTurns
  \* The thread's rows change: only r holds its lock.
  <2>6. ASSUME NEW rows, turns'[ThreadOf[r]] = rows, \A t \in Threads \ {ThreadOf[r]} : turns'[t] = turns[t]
        PROVE  \A s \in Requests : IF ThreadOf[s] = ThreadOf[r]
                                     THEN MyTurns(s) = MyTurns(r) /\ MyTurns(s)' = rows
                                     ELSE MyTurns(s)' = MyTurns(s)
    BY <2>6, MyRows, Zenon DEF MyTurns
  <2>7. NeedsLock(r) => \A s \in Requests : ThreadOf[s] = ThreadOf[r] /\ s # r => ~NeedsLock(s)' /\ pc'[s] # "open"
    BY <1>0, <2>2, Zenon DEF NeedsLock, InBody
  <2>8. CASE OpenTurn(r) /\ ~UNCHANGED <<turns, openTurn>>
    <3> DEFINE rows == NewTurn(MyTurns(r), r)
    <3>1. /\ openTurn'[r] \in {0, Len(MyTurns(r)) + 1} /\ \A s \in Requests \ {r} : openTurn'[s] = openTurn[s]
          /\ turns'[ThreadOf[r]] = rows /\ \A t \in Threads \ {ThreadOf[r]} : turns'[t] = turns[t]
      <4>1. openTurn[r] = 0
        BY <2>8, <1>1, Zenon DEF OpenTurn, Before
      <4> QED
        BY <2>8, <4>1, Opened, Zenon
    <3>2. /\ Succeeded(rows) = Succeeded(MyTurns(r)) /\ Succeeded(MyTurns(r)) \subseteq 1..Len(MyTurns(r))
          /\ Len(rows) = Len(MyTurns(r)) + 1 /\ Len(MyTurns(r)) \in Nat
      BY MyRows, SucceededRows, RowAdded, Zenon
    <3> HIDE DEF rows
    <3>3. pc[r] = "open" /\ NeedsLock(r) /\ pc'[r] # "open" /\ UNCHANGED seen
      BY <2>0, <2>8, Zenon DEF OpenTurn, NeedsLock, InBody, Moved, Move
    <3>4. \A s \in Requests : IF ThreadOf[s] = ThreadOf[r]
                                THEN MyTurns(s) = MyTurns(r) /\ MyTurns(s)' = rows
                                ELSE MyTurns(s)' = MyTurns(s)
      BY <2>6, <3>1, Zenon
    <3>5. LastRow'
      <4> SUFFICES ASSUME NEW s \in Requests, NeedsLock(s)', openTurn'[s] # 0
                   PROVE  openTurn'[s] = Len(MyTurns(s)')
        BY Zenon DEF LastRow
      <4> QED
        BY <2>1, <2>7, <3>1, <3>2, <3>3, <3>4, <1>1, Zenon
    <3>6. FreshRead'
      <4> SUFFICES ASSUME NEW s \in Requests, pc'[s] = "open" PROVE seen'[s] = Succeeded(MyTurns(s)')
        BY Zenon DEF FreshRead
      <4> QED
        BY <2>2, <2>7, <3>3, <3>4, <1>1, Zenon
    <3>7. HistoryComplete'
      <4> SUFFICES ASSUME NEW s \in Requests, openTurn'[s] # 0
                   PROVE  seen'[s] = {i \in Succeeded(MyTurns(s)') : i < openTurn'[s]}
        BY Zenon DEF HistoryComplete
      <4>1. CASE s = r
        BY <4>1, <3>1, <3>2, <3>3, <3>4, <1>1
      <4>2. CASE s # r
        BY <4>2, <3>1, <3>2, <3>3, <3>4, <1>1, Zenon
      <4> QED
        BY <4>1, <4>2, Zenon
    <3> QED
      BY <3>5, <3>6, <3>7, Zenon
  <2>9. CASE PersistReply(r) /\ ~UNCHANGED turns
    <3> DEFINE rows == FinalizeTurn(MyTurns(r), openTurn[r])
    <3>1. /\ openTurn[r] \in 1..Len(MyTurns(r)) /\ MyTurns(r)[openTurn[r]].status = "ACTIVE"
          /\ turns'[ThreadOf[r]] = rows /\ \A t \in Threads \ {ThreadOf[r]} : turns'[t] = turns[t]
      BY <2>9, Finalized, Zenon
    <3>2. /\ Succeeded(rows) = Succeeded(MyTurns(r)) \cup {openTurn[r]}
          /\ Len(rows) = Len(MyTurns(r)) /\ Len(MyTurns(r)) \in Nat
      <4>1. MyTurns(r) \in Seq(Rows) /\ Len(MyTurns(r)) \in Nat
        BY MyRows, Zenon
      <4> QED
        BY <3>1, <4>1, SucceededRows, RowFinalized, Zenon
    <3> HIDE DEF rows
    <3>3. NeedsLock(r) /\ pc'[r] # "open" /\ UNCHANGED <<seen, openTurn>> /\ openTurn[r] = Len(MyTurns(r))
      BY <2>0, <2>9, <3>1, <1>1, MyRows DEF PersistReply, NeedsLock, InBody, Moved, Move
    <3>4. \A s \in Requests : IF ThreadOf[s] = ThreadOf[r]
                                THEN MyTurns(s) = MyTurns(r) /\ MyTurns(s)' = rows
                                ELSE MyTurns(s)' = MyTurns(s)
      BY <2>6, <3>1, Zenon
    <3>5. LastRow'
      <4> SUFFICES ASSUME NEW s \in Requests, NeedsLock(s)', openTurn'[s] # 0
                   PROVE  openTurn'[s] = Len(MyTurns(s)')
        BY Zenon DEF LastRow
      <4> QED
        BY <2>1, <2>7, <3>2, <3>3, <3>4, <1>1, Zenon
    <3>6. FreshRead'
      <4> SUFFICES ASSUME NEW s \in Requests, pc'[s] = "open" PROVE seen'[s] = Succeeded(MyTurns(s)')
        BY Zenon DEF FreshRead
      <4> QED
        BY <2>2, <2>7, <3>3, <3>4, <1>1, Zenon
    <3>7. HistoryComplete'
      <4> SUFFICES ASSUME NEW s \in Requests, openTurn[s] # 0
                   PROVE  seen[s] = {i \in Succeeded(MyTurns(s)') : i < openTurn[s]}
        BY <3>3, Zenon DEF HistoryComplete
      <4>1. openTurn[s] \in 1..Len(MyTurns(s))
        BY MyRows, Zenon
      <4> QED
        BY <4>1, <3>2, <3>3, <3>4, <1>1
    <3> QED
      BY <3>5, <3>6, <3>7, Zenon
  <2>10. CASE CatchError(r) /\ ~UNCHANGED turns
    <3> DEFINE rows == FailTurn(MyTurns(r), openTurn[r])
    <3>1. /\ openTurn[r] \in 1..Len(MyTurns(r)) /\ MyTurns(r)[openTurn[r]].status = "ACTIVE"
          /\ turns'[ThreadOf[r]] = rows /\ \A t \in Threads \ {ThreadOf[r]} : turns'[t] = turns[t]
      BY <2>10, Failed, Zenon
    <3>2. Succeeded(rows) = Succeeded(MyTurns(r)) /\ Len(rows) = Len(MyTurns(r))
      <4>1. MyTurns(r) \in Seq(Rows)
        BY MyRows, Zenon
      <4> QED
        BY <3>1, <4>1, SucceededRows, RowFailed, Zenon
    <3> HIDE DEF rows
    <3>3. UNCHANGED <<seen, openTurn>>
      BY <2>10, Zenon DEF CatchError
    <3>4. \A s \in Requests : Succeeded(MyTurns(s)') = Succeeded(MyTurns(s)) /\ Len(MyTurns(s)') = Len(MyTurns(s))
      BY <2>6, <3>1, <3>2, Zenon
    <3> QED
      BY <3>3, <3>4, <2>1, <2>2, <2>4, <1>1, <1>2, Zenon
  <2> QED
    BY <2>0, <2>5, <2>8, <2>9, <2>10, Zenon DEF Written
<1> QED
  BY <1>3, <1>4, Steps, Zenon DEF SInv, Elsewhere, turnState

----------------------------------------------------------------------------
\* No step moves a row backwards: the fact behind RowsOnlyAdvance.
LEMMA AdvanceStep ==
    RInv /\ [Next]_vars => \A t \in Threads : \A i \in DOMAIN turns[t] : Advances(t, i)
<1> SUFFICES ASSUME RInv, [Next]_vars, NEW t \in Threads, NEW i \in DOMAIN turns[t]
             PROVE  Advances(t, i)
  BY Zenon
<1>1. CASE UNCHANGED turns
  BY <1>1, Zenon DEF Advances
<1>2. ASSUME NEW r \in Requests, Acts(r) PROVE Advances(t, i)
  BY <1>2, RowsMove, Zenon
<1> QED
  BY <1>1, <1>2, Steps, Zenon DEF Elsewhere, turnState

\* A request that has left its try block left no ACTIVE row, unless it was closed.
AInv ==
    ~SwallowedErrors => \A r \in Requests :
        pc[r] \in InFinally \cup {"ended"} /\ openTurn[r] # 0 /\ outcome[r] # "closed" =>
            MyTurns(r)[openTurn[r]].status # "ACTIVE"

\* Every step keeps AInv: a request leaves its try block with its row settled.
LEMMA AccountedStep == RInv /\ AInv /\ [Next]_vars => AInv'
<1> SUFFICES ASSUME RInv, AInv, [Next]_vars, ~SwallowedErrors, NEW s \in Requests,
                    pc'[s] \in InFinally \cup {"ended"}, openTurn'[s] # 0, outcome'[s] # "closed"
             PROVE  MyTurns(s)'[openTurn'[s]].status # "ACTIVE"
  BY Zenon DEF AInv
<1>0. /\ pc[s] \in InFinally \cup {"ended"} /\ openTurn[s] # 0 /\ outcome[s] # "closed" =>
             MyTurns(s)[openTurn[s]].status # "ACTIVE"
      /\ Local(s)
  BY Zenon DEF AInv, RInv
<1>1. openTurn[s] # 0 /\ MyTurns(s)[openTurn[s]].status # "ACTIVE" =>
         MyTurns(s)'[openTurn[s]].status # "ACTIVE"
  BY <1>0, AdvanceStep, MyRows, Zenon DEF Advances, Local, MyTurns
<1>2. ASSUME UNCHANGED <<pc, openTurn, outcome>> PROVE MyTurns(s)'[openTurn'[s]].status # "ACTIVE"
  BY <1>0, <1>1, <1>2, Zenon
<1>3. ASSUME NEW r \in Requests, Acts(r) PROVE MyTurns(s)'[openTurn'[s]].status # "ACTIVE"
  <2>0. Moved(r) /\ Written(r) /\ Reached(r) /\ openTurn \in [Requests -> Nat]
    BY <1>3, Flow, Zenon DEF RInv, TypeOK
  <2>1. CASE s # r
    <3>1. pc'[s] = pc[s] /\ outcome'[s] = outcome[s] /\ openTurn'[s] = openTurn[s]
      BY <2>0, <2>1, Opened, Zenon DEF Moved, Written
    <3> QED
      BY <3>1, <1>0, <1>1, Zenon
  <2>2. CASE s = r
    <3>1. ~OpenTurn(r) /\ openTurn'[s] = openTurn[s]
      BY <2>0, <2>2, Zenon DEF Moved, Move, Written, OpenTurn, InFinally
    <3>2. CASE pc[s] \in InFinally
      BY <2>0, <2>2, <3>1, <3>2, <1>0, <1>1, Zenon DEF Moved
    <3>3. CASE pc[s] = "catch"
      <4>1. CatchError(r) /\ openTurn[r] # 0 /\ pc[r] = "catch"
        BY <2>0, <2>2, <3>1, <3>3, Zenon DEF Reached, Moved, Move, InFinally
      <4>2. CASE MyTurns(r)[openTurn[r]].status # "ACTIVE"
        BY <4>1, <4>2, <2>2, <3>1, <1>1, Zenon
      <4>3. CASE MyTurns(r)[openTurn[r]].status = "ACTIVE"
        <5>1. openTurn[r] \in 1..Len(MyTurns(r)) /\ turns'[ThreadOf[r]] = FailTurn(MyTurns(r), openTurn[r])
          BY <4>1, <4>3, Failed, Zenon
        <5>2. FailTurn(MyTurns(r), openTurn[r])[openTurn[r]].status = "FAILED"
          BY <5>1, MyRows, RowFailed, Zenon
        <5> QED
          BY <5>1, <5>2, <2>2, <3>1, Zenon DEF MyTurns
      <4> QED
        BY <4>2, <4>3, Zenon
    <3>4. CASE pc[s] \notin InFinally \cup {"catch"}
      <4>1. pc[s] \in {"bill", "finish"}
        BY <2>0, <2>2, <3>1, <3>4, <1>0, Zenon DEF Moved, Move, InFinally, Local, Before
      <4> QED
        BY <4>1, <3>1, <1>0, <1>1, Zenon DEF Local
    <3> QED
      BY <3>2, <3>3, <3>4, Zenon
  <2> QED
    BY <2>1, <2>2, Zenon
<1> QED
  BY <1>2, <1>3, Steps, Zenon DEF Elsewhere, turnState

----------------------------------------------------------------------------
TurnInv == RInv /\ SInv /\ AInv

\* The inductive invariant of the turn's life cycle holds in every behaviour.
LEMMA TurnInvariant == Spec => []TurnInv
<1>1. Init => TurnInv
  <2> SUFFICES ASSUME Init PROVE SInv /\ AInv
    BY RowsInit, Zenon DEF TurnInv
  <2>1. SInv
    BY Zenon DEF Init, SInv, Held, LastRow, FreshRead, HistoryComplete, NeedsLock, InBody
  <2>2. AInv
    BY Zenon DEF Init, AInv, InFinally
  <2> QED
    BY <2>1, <2>2, Zenon
<1>2. TurnInv /\ [Next]_vars => TurnInv'
  BY RowsStep, SerialStep, AccountedStep, Zenon DEF TurnInv
<1> QED
  BY <1>1, <1>2, PTL DEF Spec

\* Every variable keeps its type, whatever the requests, threads and keys.
THEOREM TypeCorrect == Spec => []TypeOK
BY TurnInvariant, PTL DEF TurnInv, RInv

\* With healthy heartbeats, the history executeStreamingTurn loaded for a turn
\* stays exactly the successful turns before it in the thread.
THEOREM HistoryIsComplete == Spec => []HistoryComplete
BY TurnInvariant, PTL DEF TurnInv, SInv

\* A turn's own usage is recorded only for a reply storeMessage persisted, a
\* sub-agent's only for a turn whose row exists.
THEOREM PersistedBeforeBilled == Spec => []BilledIsPersisted
BY TurnInvariant, PTL DEF TurnInv, RInv

\* Of the turns charged for one idempotency key of a thread, for themselves or
\* for their sub-agents, at most one has not FAILED: the unique constraint holds
\* among rows, and only failTurn takes a row's key away.
THEOREM ChargedOncePerKey == Spec => []OneChargePerKey
<1>1. TurnInv => OneChargePerKey
  <2> SUFFICES ASSUME TurnInv, NEW x \in billed \cup delegated, NEW y \in billed \cup delegated,
                      x[1] = y[1], KeyOf[Charged(x).owner] = KeyOf[Charged(y).owner],
                      KeyOf[Charged(x).owner] # NoKey,
                      Charged(x).status # "FAILED", Charged(y).status # "FAILED"
               PROVE  x = y
    BY Zenon DEF OneChargePerKey
  <2>1. x[1] \in Threads /\ x = <<x[1], x[2]>> /\ y = <<y[1], y[2]>>
    BY DEF TurnInv, RInv, TypeOK
  <2>2. x[2] \in DOMAIN turns[x[1]] /\ y[2] \in DOMAIN turns[x[1]]
    BY Zenon DEF TurnInv, RInv, BilledIsPersisted
  <2>3. Owned(x[1], x[2]) /\ Owned(x[1], y[2])
    BY <2>1, <2>2, Zenon DEF TurnInv, RInv, AllOwned
  <2>4. Charged(x).key = Charged(y).key /\ Charged(x).key # NoKey
    BY <2>3, Zenon DEF Owned, Charged
  <2>5. x[2] = y[2]
    BY <2>1, <2>2, <2>4, Zenon DEF TurnInv, RInv, KeysUnique, Charged
  <2> QED
    BY <2>1, <2>5, Zenon
<1> QED
  BY <1>1, TurnInvariant, PTL

\* Only a running, dead or disconnected request, or one that never learned of
\* its row, leaves a turn ACTIVE: every throw of a request that knows its row
\* reaches failTurn before the finally block.
THEOREM ActiveAccounted == Spec => []ActiveTurnsAccounted
<1>1. TurnInv => ActiveTurnsAccounted
  <2> SUFFICES ASSUME TurnInv, ~SwallowedErrors, NEW t \in Threads, NEW i \in DOMAIN turns[t],
                      turns[t][i].status = "ACTIVE"
               PROVE  LET r == turns[t][i].owner
                      IN  Running(r) \/ pc[r] = "crashed" \/ outcome[r] = "closed" \/ openTurn[r] = 0
    BY Zenon DEF ActiveTurnsAccounted
  <2> DEFINE r == turns[t][i].owner
  <2>1. r \in Requests /\ i # 0
    BY RowType, Zenon DEF TurnInv, RInv
  <2>2. ThreadOf[r] = t /\ openTurn[r] \in {0, i}
    BY Zenon DEF TurnInv, RInv, AllOwned, Owned
  <2>3. Local(r)
    BY <2>1, Zenon DEF TurnInv, RInv
  <2> HIDE DEF r
  <2>4. openTurn[r] # 0 => pc[r] # "start" /\ (pc[r] = "ended" => outcome[r] = "closed")
    BY <2>1, <2>2, <2>3, Zenon DEF TurnInv, AInv, Local, Before, MyTurns
  <2> QED
    BY <2>4, Zenon DEF Running, r
<1> QED
  BY <1>1, TurnInvariant, PTL

\* finalizeTurn and failTurn only ever move an ACTIVE row, and only failTurn
\* gives its key back.
THEOREM RowsAdvance == Spec => RowsOnlyAdvance
<1>1. TurnInv /\ [Next]_vars =>
        [\A t \in Threads : \A i \in DOMAIN turns[t] :
           /\ i \in DOMAIN turns'[t]
           /\ turns'[t][i].owner = turns[t][i].owner
           /\ turns'[t][i] # turns[t][i] =>
                  /\ turns[t][i].status = "ACTIVE"
                  /\ turns'[t][i].status # "ACTIVE"
                  /\ turns'[t][i].key # turns[t][i].key => turns'[t][i].status = "FAILED"]_vars
  BY AdvanceStep, Zenon DEF TurnInv, Advances
<1> QED
  BY <1>1, TurnInvariant, PTL DEF Spec, RowsOnlyAdvance

\* RELEASE_TURN_MUTEX_SCRIPT compares the token: a request removes no lock but
\* its own, and every other removal is an expiry.
THEOREM OwnerReleases == Spec => OnlyOwnerReleases
<1> DEFINE Kept(t) == LET h == lock[t]
                      IN  h # Free /\ lock'[t] # h =>
                              /\ lock'[t] = Free
                              /\ pc'[h] # pc[h] \/ pc' = pc
<1>1. TurnInv /\ [Next]_vars => [\A t \in Threads : Kept(t)]_vars
  <2> SUFFICES ASSUME TurnInv, Next, NEW t \in Threads PROVE Kept(t)
    BY Zenon
  <2>0. TypeOK /\ \A r \in Requests : ThreadOf[r] \in Threads
    BY RequestAssumption, Zenon DEF TurnInv, RInv
  <2>1. ASSUME NEW r \in Requests, AcquireMutex(r) PROVE Kept(t)
    BY <2>0, <2>1, Zenon DEF AcquireMutex, TypeOK
  <2>2. ASSUME NEW r \in Requests, ReleaseMutex(r) PROVE Kept(t)
    BY <2>0, <2>2, Zenon DEF ReleaseMutex, Goto, TypeOK
  <2>3. ASSUME NEW u \in Threads, LeaseLapse(u) PROVE Kept(t)
    BY <2>0, <2>3, Zenon DEF LeaseLapse, TypeOK
  <2>4. ASSUME NEW r \in Requests, Acts(r) PROVE Kept(t)
    BY <2>0, <2>1, <2>2, <2>4, Flow, Zenon DEF Written, TypeOK
  <2>5. ASSUME NEW k \in Keys, IdemExpire(k) PROVE UNCHANGED lock
    BY <2>5, Zenon DEF IdemExpire
  <2> QED
    BY <2>3, <2>4, <2>5, Steps, Zenon DEF Elsewhere
<1> QED
  BY <1>1, TurnInvariant, PTL DEF Spec, OnlyOwnerReleases

\* Turns implement the abstract mutex: with healthy leases a thread is entered
\* only while nobody uses it, by the SET NX of acquireTurnMutex, and left by the
\* release in the finally block or by the death of its user.
THEOREM TurnsAreSerialized == Spec => ImplementsMutex
<1> DEFINE Users(t) == {r \in Requests : NeedsLock(r) /\ ThreadOf[r] = t /\ ~mayLapse}
           users == [t \in Threads |-> Users(t)]
<1>1. Init => ThreadMutex!Init
  BY Zenon DEF Init, ThreadMutex!Init, NeedsLock, InBody
<1>2. TurnInv /\ [Next]_vars => [ThreadMutex!Next]_users
  <2> SUFFICES ASSUME TurnInv, [Next]_vars PROVE [ThreadMutex!Next]_users
    BY Zenon
  <2>0. /\ TypeOK /\ mayLapse' = mayLapse
        /\ \A r \in Requests : ThreadOf[r] \in Threads /\ r # Free
    BY RequestAssumption, Steps, Zenon DEF TurnInv, RInv
  <2>1. CASE mayLapse
    <3>1. \A t \in Threads : Users(t) = {} /\ Users(t)' = {}
      BY <2>0, <2>1, Zenon
    <3> QED
      BY <3>1, Zenon
  <2>2. CASE ~mayLapse
    <3>h. \A r \in Requests : NeedsLock(r) => lock[ThreadOf[r]] = r
      BY <2>2, Zenon DEF TurnInv, SInv, Held
    \* A step that lets nobody in or out.
    <3>s. ASSUME \A r \in Requests : NeedsLock(r)' <=> NeedsLock(r) PROVE users' = users
      <4>1. \A t \in Threads : Users(t)' = Users(t)
        BY <2>0, <3>s, Zenon
      <4> HIDE DEF Users
      <4> QED
        BY <4>1, Zenon
    <3>e. ASSUME NEW r \in Requests, Users(ThreadOf[r]) = {}, NeedsLock(r)',
                 \A s \in Requests \ {r} : NeedsLock(s)' <=> NeedsLock(s)
          PROVE  ThreadMutex!Next
      <4>1. Users(ThreadOf[r])' = {r}
        BY <2>0, <2>2, <3>e, Zenon
      <4>2. \A t \in Threads \ {ThreadOf[r]} : Users(t)' = Users(t)
        BY <2>0, <2>2, <3>e, Zenon
      <4>3. users[ThreadOf[r]] = {} /\ users' = [users EXCEPT ![ThreadOf[r]] = {r}]
        <5> HIDE DEF Users
        <5> QED
          BY <2>0, <3>e, <4>1, <4>2, Zenon
      <4> QED
        BY <2>0, <4>3, Zenon DEF ThreadMutex!Next, ThreadMutex!Enter
    <3>l. ASSUME NEW r \in Requests, NeedsLock(r), ~NeedsLock(r)',
                 \A s \in Requests \ {r} : NeedsLock(s)' <=> NeedsLock(s)
          PROVE  ThreadMutex!Next
      <4>1. r \in Users(ThreadOf[r]) /\ Users(ThreadOf[r])' = Users(ThreadOf[r]) \ {r}
        BY <2>0, <2>2, <3>l, Zenon
      <4>2. \A t \in Threads \ {ThreadOf[r]} : Users(t)' = Users(t)
        BY <2>0, <2>2, <3>l, Zenon
      <4>3. r \in users[ThreadOf[r]] /\ users' = [users EXCEPT ![ThreadOf[r]] = users[ThreadOf[r]] \ {r}]
        <5> HIDE DEF Users
        <5> QED
          BY <2>0, <4>1, <4>2, Zenon
      <4> QED
        BY <2>0, <4>3, Zenon DEF ThreadMutex!Next, ThreadMutex!Leave
    <3> HIDE DEF users
    <3>1. ASSUME NEW r \in Requests, Acts(r) PROVE [ThreadMutex!Next]_users
      <4>0. /\ Moved(r) /\ Reached(r) /\ \A s \in Requests \ {r} : NeedsLock(s)' <=> NeedsLock(s)
        BY <2>0, <3>1, Flow, Zenon DEF TypeOK, Moved, NeedsLock
      <4>1. CASE NeedsLock(r)' <=> NeedsLock(r)
        BY <3>s, <4>0, <4>1, Zenon
      <4>2. CASE NeedsLock(r) /\ ~NeedsLock(r)'
        BY <3>l, <4>0, <4>2, Zenon
      <4>3. CASE ~NeedsLock(r) /\ NeedsLock(r)'
        <5>1. AcquireMutex(r) /\ pc'[r] = "gates"
          BY <4>0, <4>3, Zenon DEF Moved, Move, Reached, NeedsLock, InBody
        <5>2. lock[ThreadOf[r]] = Free
          BY <2>0, <5>1, Entered, Zenon DEF TypeOK
        <5>3. Users(ThreadOf[r]) = {}
          BY <2>0, <3>h, <5>2, Zenon
        <5> QED
          BY <3>e, <4>0, <4>3, <5>3, Zenon
      <4> QED
        BY <4>1, <4>2, <4>3, Zenon
    <3>2. CASE UNCHANGED pc
      BY <3>2, <3>s, Zenon DEF NeedsLock
    <3> QED
      BY <3>1, <3>2, Steps, Zenon DEF Elsewhere, turnState
  <2> QED
    BY <2>1, <2>2, Zenon
<1>3. TurnInv /\ [Next]_vars =>
        [ThreadMutex!Next]_([t \in Threads |->
                               {r \in Requests : /\ NeedsLock(r) /\ ThreadOf[r] = t
                                                 /\ ~mayLapse}])
  BY <1>2, Zenon
<1> QED
  BY <1>1, <1>3, TurnInvariant, PTL DEF Spec, ImplementsMutex, ThreadMutex!Spec
----------------------------------------------------------------------------
\* The in-flight budget: what beginReservation took is what the requests that
\* have not settled will return.  IsCount(S, n): a list of n members names each
\* member of S once.
IsCount(S, n) ==
    /\ n \in Nat
    /\ \E f \in [1 .. n -> S] :
          /\ \A i, j \in 1 .. n : f[i] = f[j] => i = j
          /\ \A x \in S : \E i \in 1 .. n : f[i] = x

\* No request holds a reservation exactly when nothing is reserved.
LEMMA CountOfNone == ASSUME NEW n PROVE IsCount({}, n) <=> n = 0
<1>1. IsCount({}, 0)
  <2>1. 0 \in Nat /\ 1 .. 0 = {}
    OBVIOUS
  <2>2. PICK f : f = [i \in 1 .. 0 |-> 0]
    BY Zenon
  <2>3. f \in [1 .. 0 -> {}]
    BY <2>1, <2>2, Zenon
  <2> QED
    BY <2>1, <2>3, Zenon DEF IsCount
<1>2. ASSUME IsCount({}, n), n # 0 PROVE FALSE
  <2>1. n \in Nat /\ \E f : f \in [1 .. n -> {}]
    BY <1>2, Zenon DEF IsCount
  <2>2. 1 \in 1 .. n
    BY <1>2, <2>1
  <2> QED
    BY <2>1, <2>2, Zenon
<1> QED
  BY <1>1, <1>2, Zenon

\* One more request with a reservation: the count goes up by one.
LEMMA CountOneMore ==
    ASSUME NEW S, NEW n, IsCount(S, n), NEW x, x \notin S
    PROVE  IsCount(S \cup {x}, n + 1)
<1>1. PICK f \in [1 .. n -> S] : /\ \A i, j \in 1 .. n : f[i] = f[j] => i = j
                                 /\ \A y \in S : \E i \in 1 .. n : f[i] = y
  BY Zenon DEF IsCount
<1>2. n \in Nat
  BY Zenon DEF IsCount
<1>3. PICK g : g = [i \in 1 .. n + 1 |-> IF i = n + 1 THEN x ELSE f[i]]
  BY Zenon
<1>4. \A i \in 1 .. n : i \in 1 .. n + 1 /\ i # n + 1
  BY <1>2
<1>5. /\ g \in [1 .. n + 1 -> S \cup {x}] /\ g[n + 1] = x
      /\ \A i \in 1 .. n : g[i] = f[i] /\ f[i] \in S
  BY <1>2, <1>3, <1>4
<1>6. \A i \in 1 .. n + 1 : i = n + 1 \/ i \in 1 .. n
  BY <1>2
<1>7. \A i, j \in 1 .. n + 1 : g[i] = g[j] => i = j
  BY <1>1, <1>5, <1>6, Zenon
<1>8. \A y \in S \cup {x} : \E i \in 1 .. n + 1 : g[i] = y
  BY <1>1, <1>2, <1>4, <1>5
<1>9. n + 1 \in Nat
  BY <1>2
<1> QED
  BY <1>5, <1>7, <1>8, <1>9, Zenon DEF IsCount

\* One request settles: the count goes down by one.
LEMMA CountOneLess ==
    ASSUME NEW S, NEW n, IsCount(S, n), NEW x \in S
    PROVE  IsCount(S \ {x}, n - 1)
<1>1. PICK f \in [1 .. n -> S] : /\ \A i, j \in 1 .. n : f[i] = f[j] => i = j
                                 /\ \A y \in S : \E i \in 1 .. n : f[i] = y
  BY Zenon DEF IsCount
<1>2. PICK k \in 1 .. n : f[k] = x
  BY <1>1, Zenon
<1>3. n \in Nat /\ n - 1 \in Nat /\ n \in 1 .. n
  BY <1>2 DEF IsCount
<1>4. PICK g : g = [i \in 1 .. n - 1 |-> IF i = k THEN f[n] ELSE f[i]]
  BY Zenon
<1>5. \A i \in 1 .. n - 1 : i \in 1 .. n /\ i # n
  BY <1>3
<1>6. \A i \in 1 .. n : i = n \/ i \in 1 .. n - 1
  BY <1>3
<1>7. \A i \in 1 .. n - 1 : g[i] = IF i = k THEN f[n] ELSE f[i]
  BY <1>4, Zenon
<1>8. \A i \in 1 .. n - 1 : g[i] \in S \ {x}
  BY <1>1, <1>2, <1>3, <1>5, <1>7
<1>9. g \in [1 .. n - 1 -> S \ {x}]
  BY <1>4, <1>8, Zenon
<1>10. \A i, j \in 1 .. n - 1 : g[i] = g[j] => i = j
  BY <1>1, <1>3, <1>5, <1>7
<1>11. ASSUME NEW y \in S \ {x} PROVE \E i \in 1 .. n - 1 : g[i] = y
  <2>1. PICK j \in 1 .. n : f[j] = y
    BY <1>1, Zenon
  <2>2. j # k
    BY <1>2, <2>1, Zenon
  <2>3. CASE j = n
    BY <1>6, <1>7, <2>1, <2>2, <2>3, Zenon
  <2>4. CASE j \in 1 .. n - 1
    BY <1>7, <2>1, <2>2, <2>4, Zenon
  <2> QED
    BY <1>6, <2>3, <2>4, Zenon
<1> QED
  BY <1>3, <1>9, <1>10, <1>11, Zenon DEF IsCount

\* The estimates still reserved today are those of the requests that have not
\* settled, and no other day has any, as long as no request has died with its
\* reservation, lost a counter update, or met midnight.
Unsettled == {r \in Requests : committed[r] /\ pc[r] # "ended"}

Clean == \A r \in Requests : committed[r] => pc[r] # "crashed" /\ r \notin missed \cup crossed

NotReserved == {"start", "thread", "mutex", "gates", "reserve"}

VInv ==
    /\ \A r \in Requests : committed[r] => pc[r] \notin NotReserved
    /\ \A r \in missed \cup crossed : committed[r]
    /\ Clean => /\ IsCount(Unsettled, reserved[day])
                /\ \A d \in Days \ {day} : reserved[d] = 0

\* Every step keeps the count of reservations equal to the requests that hold one.
LEMMA ReservedStep == RInv /\ VInv /\ [Next]_vars => VInv'
<1> SUFFICES ASSUME RInv, VInv, [Next]_vars PROVE VInv'
  BY Zenon
<1>0. /\ \A r \in Requests : committed[r] => pc[r] \notin NotReserved
      /\ \A r \in missed \cup crossed : committed[r]
      /\ committed \in [Requests -> BOOLEAN] /\ pc \in [Requests -> Points]
      /\ reserved \in [Days -> Int] /\ day \in Days /\ day \in Int
      /\ missed \subseteq Requests /\ crossed \subseteq Requests
  BY DEF VInv, RInv, TypeOK, Days
<1>1. ASSUME Elsewhere PROVE VInv'
  <2>0. UNCHANGED <<pc, committed, reserved, missed>>
    BY <1>1, Zenon DEF Elsewhere, turnState
  <2>1. CASE UNCHANGED <<day, crossed>>
    BY <2>0, <2>1, Zenon DEF VInv, Unsettled, Clean
  <2>2. CASE Midnight
    <3>1. /\ day' = day + 1 /\ day' # day
          /\ crossed' = crossed \cup {r \in Requests : committed[r] /\ Running(r)}
      BY <1>0, <2>2 DEF Midnight
    <3>2. \A r \in missed' \cup crossed' : committed'[r]
      BY <1>0, <2>0, <3>1, Zenon
    <3>3. ASSUME Clean'
          PROVE  IsCount(Unsettled', reserved'[day']) /\ \A d \in Days \ {day'} : reserved'[d] = 0
      <4>1. Clean /\ Unsettled = {} /\ Unsettled' = {}
        BY <1>0, <2>0, <3>1, <3>3, Zenon DEF Clean, Unsettled, Running, NotReserved
      <4>2. reserved[day] = 0 /\ \A d \in Days \ {day} : reserved[d] = 0
        BY <4>1, CountOfNone, Zenon DEF VInv
      <4>3. day' \in Days
        BY TypeStep, Zenon DEF TypeOK
      <4> QED
        BY <2>0, <4>1, <4>2, <4>3, CountOfNone, Zenon
    <3> QED
      BY <1>0, <2>0, <3>2, <3>3, Zenon DEF VInv
  <2> QED
    BY <1>1, <2>1, <2>2, Zenon DEF Elsewhere
<1>2. ASSUME NEW r \in Requests, Acts(r) PROVE VInv'
  <2>0. Moved(r) /\ Written(r) /\ Reached(r)
    BY <1>0, <1>2, Flow, Zenon DEF RInv, TypeOK
  <2>1. \A s \in Requests \ {r} : pc'[s] = pc[s] /\ committed'[s] = committed[s]
    BY <1>0, <2>0, Zenon DEF Moved, Written, BeginReservation
  <2>2. \A s \in Requests : committed'[s] => pc'[s] \notin NotReserved
    BY <1>0, <2>0, <2>1, Zenon DEF Moved, Move, Written, BeginReservation, Goto, NotReserved
  <2>3. UNCHANGED <<day, crossed>> /\ \A s \in Requests : committed[s] => committed'[s]
    BY <1>0, <2>0, Zenon DEF Written, BeginReservation
  <2>4. ASSUME NEW n \in Int, Count(r, n), pc[r] # "crashed", committed'[r]
        PROVE  /\ \A s \in missed' \cup crossed' : committed'[s]
               /\ Clean' => /\ Clean /\ reserved'[day'] = reserved[day] + n
                            /\ \A d \in Days \ {day} : reserved'[d] = reserved[d]
    <3>1. missed' \subseteq missed \cup {r} /\ missed \subseteq missed'
      BY <2>4, Zenon DEF Count
    <3>2. Clean' => r \notin missed'
      BY <2>4, Zenon DEF Clean
    <3>3. Clean' => Clean
      BY <1>0, <2>1, <2>3, <2>4, <3>1, Zenon DEF Clean
    <3>4. r \notin missed' => reserved' = [reserved EXCEPT ![day] = @ + n]
      BY <2>4, Zenon DEF Count
    <3> QED
      BY <1>0, <2>3, <2>4, <3>1, <3>2, <3>3, <3>4, Zenon
  <2>5. CASE BeginReservation(r)
    <3>1. r \notin Unsettled /\ Unsettled' = Unsettled \cup {r}
      BY <2>5, <1>0, Zenon DEF BeginReservation, Goto, Unsettled, NotReserved
    <3>2. Count(r, 1) /\ pc[r] # "crashed" /\ committed'[r]
      BY <2>5, <1>0, Zenon DEF BeginReservation
    <3>3. Clean' => IsCount(Unsettled', reserved[day] + 1)
      <4>1. PICK S : S = Unsettled
        BY Zenon
      <4> QED
        BY <3>1, <3>2, <4>1, <2>4, CountOneMore DEF VInv
    <3> QED
      BY <2>2, <2>3, <2>4, <3>2, <3>3 DEF VInv
  <2>6. CASE SettleReservation(r) /\ committed[r]
    <3>1. r \in Unsettled /\ Unsettled' = Unsettled \ {r}
      BY <2>6, <1>0, Zenon DEF SettleReservation, Goto, Unsettled
    <3>2. Count(r, -1) /\ pc[r] # "crashed" /\ committed'[r]
      BY <2>3, <2>6, Zenon DEF SettleReservation
    <3>3. Clean' => IsCount(Unsettled', reserved[day] - 1)
      BY <3>1, <3>2, <2>4, CountOneLess DEF VInv
    <3>4. reserved[day] - 1 = reserved[day] + (-1)
      BY <1>0
    <3> QED
      BY <2>2, <2>3, <2>4, <3>2, <3>3, <3>4 DEF VInv
  <2>7. CASE ~BeginReservation(r) /\ ~(SettleReservation(r) /\ committed[r])
    <3>1. UNCHANGED <<committed, reserved, missed>>
      BY <2>0, <2>7, Zenon DEF Written, SettleReservation
    <3>2. committed[r] => (pc'[r] = "ended" <=> pc[r] = "ended") /\ pc[r] # "crashed"
      BY <2>0, <2>7, <1>0, Zenon DEF Moved, Move, Reached, NotReserved
    <3>3. Unsettled' = Unsettled
      BY <2>1, <3>1, <3>2, Zenon DEF Unsettled
    <3>4. Clean' => Clean
      BY <2>1, <2>3, <3>1, <3>2, Zenon DEF Clean
    <3> QED
      BY <2>2, <2>3, <3>1, <3>3, <3>4, Zenon DEF VInv
  <2> QED
    BY <2>5, <2>6, <2>7, Zenon
<1> QED
  BY <1>1, <1>2, Steps, Zenon

\* settleReservation undoes beginReservation on every way out of
\* executeStreamingTurn's finally block: what a day's counter keeps is owed to a
\* request that runs, died, met midnight or lost a counter update.
THEOREM ReservationsAllReturned == Spec => []ReservationsReturned
<1>1. Init => RInv /\ VInv
  <2> SUFFICES ASSUME Init PROVE VInv
    BY RowsInit, Zenon
  <2>1. Unsettled = {} /\ day \in Days /\ \A d \in Days : reserved[d] = 0
    BY RowsInit, Zenon DEF Init, Unsettled, RInv, TypeOK
  <2>2. IsCount(Unsettled, reserved[day])
    BY <2>1, CountOfNone, Zenon
  <2> QED
    BY <2>1, <2>2, Zenon DEF Init, VInv
<1>2. RInv /\ VInv /\ [Next]_vars => RInv' /\ VInv'
  BY RowsStep, ReservedStep, Zenon
<1>3. RInv /\ VInv => ReservationsReturned
  <2> SUFFICES ASSUME RInv, VInv,
                      \A r \in Requests : committed[r] =>
                          ~Running(r) /\ pc[r] # "crashed" /\ r \notin missed \cup crossed,
                      NEW d \in Days
               PROVE  reserved[d] = 0
    BY Zenon DEF ReservationsReturned
  <2>1. Clean /\ Unsettled = {}
    BY Zenon DEF Clean, Unsettled, Running, VInv, NotReserved
  <2> QED
    BY <2>1, CountOfNone, Zenon DEF VInv
<1> QED
  BY <1>1, <1>2, <1>3, PTL DEF Spec
=============================================================================
