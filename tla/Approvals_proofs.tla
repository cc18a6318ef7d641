--------------------------- MODULE Approvals_proofs ---------------------------
(***************************************************************************)
(* Proofs about Approvals: the first decision stands, a call goes ahead as *)
(* the ledger says, and one approval is one execution.                     *)
(***************************************************************************)
EXTENDS Approvals, TLAPS

Statuses == {"PENDING", "APPROVED", "REJECTED", "EXPIRED"}

Verdicts == [status : Statuses \ {"PENDING"}, edited : BOOLEAN]

Words == [status : Statuses, edited : BOOLEAN]

Calls == {p.calls[c] : p \in Plans, c \in Callers}

LedgerRows ==
    [call : Calls, status : Statuses, edited : BOOLEAN, late : BOOLEAN, consumed : BOOLEAN,
     runs : Nat, tries : Nat, told : BOOLEAN, socket : BOOLEAN, loose : BOOLEAN]

Silent == {"idle", "create", "again", "wait", "poll"}

Waiting == {"wait", "record", "cleanup"}

Trying == {"poll", "execute", "consume"}

Points == Silent \cup Waiting \cup Trying \cup {"end"}

CallStates == [at : Points, row : Nat, said : Words]

AnswerStates == [at : {"idle", "claim", "push", "end"}, row : Nat, said : Words]

Types ==
    /\ plan \in Plans
    /\ approvals \in Seq(LedgerRows)
    /\ box \in Seq(Seq(Verdicts)) /\ Len(box) = Len(approvals)
    /\ call \in [Callers -> CallStates]
    /\ answer \in [Operators -> AnswerStates]

\* A caller holds a row that is there, of its own call if it waits on it and
\* for its tool if it goes ahead on it, and has heard nothing before it is woken.
CallerOK(c) ==
    /\ call[c].row \in {0} \cup Rows
    /\ call[c].at \in Silent => call[c].said = Nothing
    /\ call[c].row # 0 /\ Kind(c) # "mcp" => approvals[call[c].row].call = Call(c)
    /\ call[c].at \in Waiting => Kind(c) # "mcp"
    /\ call[c].at \in Trying => call[c].row # 0
    /\ call[c].at \in {"execute", "consume"} => approvals[call[c].row].status = "APPROVED"
    /\ Kind(c) = "mcp" /\ call[c].said.status = "APPROVED" => SameTool(c, call[c].row)
    /\ call[c].said.status = "APPROVED" => call[c].row # 0

AnswerOK(h) ==
    /\ answer[h].at \in {"claim", "push"} => answer[h].row \in Rows /\ answer[h].said \in Verdicts
    /\ answer[h].at = "push" => Via(h) \in {"http", "socket"}

\* A decision that travels is the one in the ledger.
Recorded(r, said) == approvals[r].status = said.status /\ approvals[r].edited = said.edited

Pushes(h, r) == answer[h].at = "push" /\ answer[h].row = r /\ Via(h) = "http"

Matched(r) ==
    /\ \A h \in Operators : Pushes(h, r) => Recorded(r, answer[h].said)
    /\ \A i \in 1 .. Len(box[r]) : Recorded(r, box[r][i])
    /\ \A c \in Callers : call[c].row = r /\ call[c].said.status = "APPROVED" => Recorded(r, call[c].said)

\* A decision is in one place: with the operator, in the list, with the caller
\* that popped it, or spent.
Carries(c, r) == call[c].row = r /\ call[c].at \in {"record", "cleanup"} /\ call[c].said.status = "APPROVED"

OneToken(r) ==
    /\ approvals[r].status = "PENDING" => approvals[r].runs = 0
    /\ approvals[r].runs <= 1 /\ Len(box[r]) <= 1
    /\ \A h \in Operators : Pushes(h, r) =>
          /\ approvals[r].runs = 0 /\ box[r] = << >>
          /\ \A g \in Operators : Pushes(g, r) => g = h
          /\ \A c \in Callers : ~Carries(c, r)
    /\ box[r] # << >> => approvals[r].runs = 0 /\ \A c \in Callers : ~Carries(c, r)
    /\ \A c \in Callers : Carries(c, r) =>
          approvals[r].runs = 0 /\ \A d \in Callers : Carries(d, r) => d = c

\* A try that may execute found the row unconsumed and nobody at work on it.
Runs(c, r) == call[c].row = r /\ call[c].at \in {"execute", "consume"}

OneTry(r) ==
    /\ approvals[r].tries <= 1
    /\ approvals[r].consumed => \A c \in Callers : ~Runs(c, r)
    /\ \A c, d \in Callers : Runs(c, r) /\ Runs(d, r) => c = d
    /\ \A c \in Callers : Runs(c, r) /\ call[c].at = "execute" => approvals[r].tries = 0
    /\ approvals[r].tries # 0 =>
          approvals[r].consumed \/ \E c \in Callers : Runs(c, r) /\ call[c].at = "consume"

RowOK(r) ==
    /\ approvals[r].consumed => approvals[r].status = "APPROVED"
    /\ ~approvals[r].socket => Matched(r) /\ OneToken(r)
    /\ ~approvals[r].loose => OneTry(r)

ApprovalsInv ==
    /\ Types
    /\ \A c \in Callers : CallerOK(c)
    /\ \A h \in Operators : AnswerOK(h)
    /\ \A r \in Rows : RowOK(r)


----------------------------------------------------------------------------
(* The model's operators.                                                  *)

\* The other callers are where they were.
Alone(c) == \A d \in Callers : d # c => call'[d] = call[d]

\* Moving a caller.
LEMMA GotoEffect ==
    ASSUME call \in [Callers -> CallStates], NEW c \in Callers, NEW p \in Points, Goto(c, p)
    PROVE  /\ call' \in [Callers -> CallStates] /\ Alone(c)
           /\ call'[c].at = p /\ call'[c].row = call[c].row /\ call'[c].said = call[c].said
<1> DEFINE x == [call[c] EXCEPT !.at = p]
<1>1. x \in CallStates /\ x.at = p /\ x.row = call[c].row /\ x.said = call[c].said
  BY DEF CallStates
<1>2. call' = [call EXCEPT ![c] = x]
  BY Zenon DEF Goto
<1> HIDE DEF x
<1> QED
  BY <1>1, <1>2 DEF Alone

\* Giving a caller a row to wait on or to ask about.
LEMMA HoldEffect ==
    ASSUME call \in [Callers -> CallStates], NEW c \in Callers, NEW r \in Nat, Hold(c, r)
    PROVE  /\ call' \in [Callers -> CallStates] /\ Alone(c)
           /\ call'[c].at = (IF Kind(c) = "mcp" THEN "poll" ELSE "wait")
           /\ call'[c].row = r /\ call'[c].said = call[c].said
<1>0. PICK p \in Points : /\ p = IF Kind(c) = "mcp" THEN "poll" ELSE "wait"
                         /\ call' = [call EXCEPT ![c].row = r, ![c].at = p]
  BY Zenon DEF Hold, Points, Silent
<1> DEFINE x == [[call[c] EXCEPT !.row = r] EXCEPT !.at = p]
<1>1. x \in CallStates /\ x.at = p /\ x.row = r /\ x.said = call[c].said
  BY Zenon DEF CallStates
<1>2. call' = [call EXCEPT ![c] = x]
  BY <1>0, Zenon
<1> HIDE DEF x
<1> QED
  BY <1>0, <1>1, <1>2, Zenon DEF Alone

\* Telling a caller something.
LEMMA HearEffect ==
    ASSUME call \in [Callers -> CallStates], NEW c \in Callers, NEW p \in Points, NEW w \in Words,
           Tell(c, p, w)
    PROVE  /\ call' \in [Callers -> CallStates] /\ Alone(c)
           /\ call'[c].at = p /\ call'[c].row = call[c].row /\ call'[c].said = w
<1> DEFINE x == [[call[c] EXCEPT !.at = p] EXCEPT !.said = w]
<1>1. x \in CallStates /\ x.at = p /\ x.row = call[c].row /\ x.said = w
  BY Zenon DEF CallStates
<1>2. call' = [call EXCEPT ![c] = x]
  BY Zenon DEF Tell
<1> HIDE DEF x
<1> QED
  BY <1>1, <1>2 DEF Alone

\* Adding a row: the others and their lists stay, the new one is pending.
LEMMA AddEffect ==
    ASSUME Types, NEW k \in Calls, Add(k)
    PROVE  /\ approvals' \in Seq(LedgerRows) /\ box' \in Seq(Seq(Verdicts)) /\ Len(box') = Len(approvals')
           /\ Len(approvals) \in Nat /\ Rows = 1 .. Len(approvals) /\ Rows' = 1 .. Len(approvals) + 1
           /\ \A q \in Rows : approvals'[q] = approvals[q] /\ box'[q] = box[q]
           /\ approvals'[Len(approvals) + 1] = NewRow(k) /\ box'[Len(approvals) + 1] = << >>
<1>1. NewRow(k) \in LedgerRows
  BY Zenon DEF NewRow, LedgerRows, Statuses
<1>2. << >> \in Seq(Verdicts)
  OBVIOUS
<1> QED
  BY <1>1, <1>2 DEF Types, Add, Rows

----------------------------------------------------------------------------
(* What a step leaves alone.                                               *)

\* A row keeps its call, a decision stands, and guarantees do not come back.
Stands(q) ==
    /\ q \in Rows' /\ approvals'[q].call = approvals[q].call
    /\ approvals[q].loose => approvals'[q].loose
    /\ approvals[q].socket => approvals'[q].socket
    /\ approvals[q].status # "PENDING" => /\ approvals'[q].status = approvals[q].status
                                          /\ approvals'[q].edited = approvals[q].edited

\* No decision on the row starts to travel, goes on to its next place, or is spent.
Calm(q) ==
    /\ Stands(q) /\ box'[q] \in {box[q], << >>}
    /\ approvals'[q].consumed = approvals[q].consumed /\ approvals'[q].runs = approvals[q].runs
    /\ approvals'[q].tries = approvals[q].tries
    /\ \A h \in Operators : Pushes(h, q)' => Pushes(h, q) /\ answer'[h].said = answer[h].said
    /\ \A c \in Callers :
          /\ call'[c].row = q /\ call'[c].said.status = "APPROVED" =>
                call[c].row = q /\ call'[c].said = call[c].said
          /\ Carries(c, q)' => Carries(c, q)
          /\ Runs(c, q)' <=> Runs(c, q)
          /\ Runs(c, q) => call'[c].at = call[c].at

\* A caller that does not move stays correct while the rows stand.
LEMMA CallerStays ==
    ASSUME NEW c \in Callers, CallerOK(c), call'[c] = call[c], plan' = plan, \A q \in Rows : Stands(q)
    PROVE  CallerOK(c)'
<1>1. call[c].row \in {0} \cup Rows'
  BY DEF CallerOK, Stands
<1>2. Kind(c)' = Kind(c) /\ Call(c)' = Call(c)
  BY Zenon DEF Kind, Call
<1>3. call[c].row # 0 => Stands(call[c].row) /\ call[c].row \in Rows
  BY Zenon DEF CallerOK
<1>4. call[c].at \in {"execute", "consume"} => call[c].at \in Trying
  BY DEF Trying
<1>5. Kind(c) = "mcp" /\ call[c].said.status = "APPROVED" => approvals'[call[c].row].call.tool \in {"none", Call(c).tool}
  BY <1>3, Zenon DEF CallerOK, SameTool, Stands
<1> QED
  BY <1>1, <1>2, <1>3, <1>4, <1>5, Zenon DEF CallerOK, Stands, SameTool

\* So does an operator.
LEMMA AnswerStays ==
    ASSUME NEW h \in Operators, AnswerOK(h), answer'[h] = answer[h], plan' = plan, \A q \in Rows : Stands(q)
    PROVE  AnswerOK(h)'
BY DEF AnswerOK, Stands, Via

\* A row that has guarantees and is pending has no decision under way.
LEMMA PendingIsEmpty ==
    ASSUME Types, \A h \in Operators : AnswerOK(h), NEW q \in Rows, Matched(q), approvals[q].status = "PENDING"
    PROVE  /\ \A h \in Operators : ~Pushes(h, q)
           /\ box[q] = << >>
           /\ \A c \in Callers : ~(call[c].row = q /\ call[c].said.status = "APPROVED")
<1>1. box[q] \in Seq(Verdicts)
  BY DEF Types, Rows
<1>2. Len(box[q]) = 0
  <2> SUFFICES ASSUME Len(box[q]) # 0 PROVE FALSE
    BY Zenon
  <2>1. 1 \in 1 .. Len(box[q]) /\ box[q][1] \in Verdicts
    BY <1>1
  <2>2. Recorded(q, box[q][1])
    BY <2>1 DEF Matched
  <2> QED
    BY <2>1, <2>2, Zenon DEF Recorded, Verdicts
<1>3. \A h \in Operators : ~Pushes(h, q)
  BY Zenon DEF Matched, AnswerOK, Pushes, Recorded, Verdicts
<1>4. \A c \in Callers : ~(call[c].row = q /\ call[c].said.status = "APPROVED")
  BY Zenon DEF Matched, Recorded
<1> QED
  BY <1>1, <1>2, <1>3, <1>4

\* A calm row stays correct.
LEMMA RowStays ==
    ASSUME Types, \A h \in Operators : AnswerOK(h), NEW q \in Rows, RowOK(q), Calm(q)
    PROVE  RowOK(q)'
<1>1. approvals'[q].consumed => approvals'[q].status = "APPROVED"
  BY Zenon DEF RowOK, Calm, Stands
<1>2. /\ ~approvals'[q].socket => Matched(q) /\ OneToken(q)
      /\ ~approvals'[q].loose => OneTry(q)
  BY Zenon DEF Calm, Stands, RowOK
<1>3. box'[q] = box[q] \/ box'[q] = << >>
  BY DEF Calm
<1>4. ASSUME Matched(q) PROVE Matched(q)'
  <2>1. CASE approvals[q].status = "PENDING"
    <3>1. /\ \A h \in Operators : ~Pushes(h, q)
          /\ box[q] = << >>
          /\ \A c \in Callers : ~(call[c].row = q /\ call[c].said.status = "APPROVED")
      BY <1>4, <2>1, PendingIsEmpty, Zenon
    <3>2. /\ \A h \in Operators : ~Pushes(h, q)'
          /\ \A c \in Callers : ~(call'[c].row = q /\ call'[c].said.status = "APPROVED")
      BY <3>1, Zenon DEF Calm
    <3>3. Len(box'[q]) = 0
      BY <1>3, <3>1
    <3> QED
      BY <3>2, <3>3 DEF Matched
  <2>2. CASE approvals[q].status # "PENDING"
    <3>1. approvals'[q].status = approvals[q].status /\ approvals'[q].edited = approvals[q].edited
      BY <2>2, Zenon DEF Calm, Stands
    <3>2. \A i \in 1 .. Len(box'[q]) : Recorded(q, box[q][i]) /\ box'[q] = box[q]
      BY <1>3, <1>4 DEF Matched
    <3> QED
      BY <1>4, <3>1, <3>2, Zenon DEF Matched, Recorded, Calm
  <2> QED
    BY <2>1, <2>2, Zenon
<1>5. ASSUME OneTry(q) PROVE OneTry(q)'
  BY <1>5 DEF OneTry, Calm
<1>6. ASSUME OneToken(q) PROVE OneToken(q)'
  BY <1>3, <1>6 DEF OneToken, Calm, Stands
<1> QED
  BY <1>1, <1>2, <1>4, <1>5, <1>6, Zenon DEF RowOK

----------------------------------------------------------------------------
(* Steps of a caller that leave the rows as they are.                      *)

Fresh(q) ==
    /\ approvals'[q].status = "PENDING" /\ ~approvals'[q].consumed
    /\ approvals'[q].runs = 0 /\ approvals'[q].tries = 0
    /\ box'[q] = << >>

Quiet(c) ==
    /\ Alone(c) /\ answer' = answer /\ plan' = plan
    /\ call[c].at \notin {"execute", "consume"} /\ call'[c].at \notin {"execute", "consume"}
    /\ call'[c].said.status # "APPROVED"
    /\ \A q \in Rows : q \in Rows' /\ approvals'[q] = approvals[q] /\ box'[q] = box[q]
    /\ \A q \in Rows' \ Rows : Fresh(q)

Kept(c) == Types' /\ CallerOK(c)' /\ Quiet(c)

\* Who waits, pushes or runs does so on a row that is there.
LEMMA OnRows ==
    ASSUME ApprovalsInv
    PROVE  /\ \A c \in Callers : call[c].row \in {0} \cup Rows /\ CallerOK(c)
           /\ \A h \in Operators : answer[h].at \in {"claim", "push"} => answer[h].row \in Rows
           /\ 0 \notin Rows
<1>1. 0 \notin Rows
  BY DEF ApprovalsInv, Types, Rows
<1> QED
  BY <1>1 DEF ApprovalsInv, CallerOK, AnswerOK

\* A quiet step keeps the invariant.
LEMMA QuietStep ==
    ASSUME ApprovalsInv, NEW c \in Callers, Kept(c)
    PROVE  ApprovalsInv' /\ \A q \in Rows : Stands(q)
<1>1. \A q \in Rows : Stands(q)
  BY Zenon DEF Kept, Quiet, Stands
<1>2. \A d \in Callers : CallerOK(d)'
  BY <1>1, CallerStays DEF ApprovalsInv, Kept, Quiet, Alone
<1>3. \A h \in Operators : AnswerOK(h)'
  BY <1>1, AnswerStays, Zenon DEF ApprovalsInv, Kept, Quiet
<1>4. ASSUME NEW q \in Rows PROVE RowOK(q)'
  <2>1. \A h \in Operators : Pushes(h, q)' => Pushes(h, q) /\ answer'[h].said = answer[h].said
    BY DEF Kept, Quiet, Pushes, Via
  <2>2. \A d \in Callers :
          /\ call'[d].row = q /\ call'[d].said.status = "APPROVED" =>
                call[d].row = q /\ call'[d].said = call[d].said
          /\ Carries(d, q)' => Carries(d, q)
          /\ Runs(d, q)' <=> Runs(d, q)
          /\ Runs(d, q) => call'[d].at = call[d].at
    BY DEF Kept, Quiet, Alone, Carries, Runs
  <2>3. Calm(q)
    BY <1>1, <1>4, <2>1, <2>2, Zenon DEF Calm, Kept, Quiet
  <2> QED
    BY <2>3, <1>4, RowStays DEF ApprovalsInv
<1>5. ASSUME NEW q \in Rows', q \notin Rows PROVE RowOK(q)'
  <2>1. Fresh(q) /\ q # 0
    BY <1>5 DEF Kept, Quiet, Types, Rows
  <2>2. \A h \in Operators : ~Pushes(h, q)'
    BY <1>5, OnRows DEF Kept, Quiet, Pushes
  <2>3. \A d \in Callers : ~Runs(d, q)' /\ ~Carries(d, q)' /\ ~(call'[d].row = q /\ call'[d].said.status = "APPROVED")
    BY <1>5, <2>1, OnRows DEF Kept, Quiet, Alone, Runs, Carries
  <2>4. Matched(q)' /\ OneToken(q)' /\ OneTry(q)'
    BY <2>1, <2>2, <2>3 DEF Fresh, Matched, OneToken, OneTry
  <2> QED
    BY <2>1, <2>4, Zenon DEF RowOK, Fresh
<1> QED
  BY <1>1, <1>2, <1>3, <1>4, <1>5 DEF ApprovalsInv, Kept

\* The ledger and the lists, after a step that at most adds a row.
Grown ==
    /\ approvals' \in Seq(LedgerRows) /\ box' \in Seq(Seq(Verdicts)) /\ Len(box') = Len(approvals')
    /\ \A q \in Rows : q \in Rows' /\ approvals'[q] = approvals[q] /\ box'[q] = box[q]
    /\ \A q \in Rows' \ Rows : Fresh(q)

\* Nothing added, or one row.
LEMMA GrownBy ==
    ASSUME Types
    PROVE  /\ UNCHANGED <<approvals, box>> => Grown /\ Rows' = Rows
           /\ \A k \in Calls : Add(k) =>
                 /\ Grown /\ Len(approvals) + 1 \in Rows' /\ Len(approvals) + 1 \in Nat
                 /\ approvals'[Len(approvals) + 1].call = k
<1>1. UNCHANGED <<approvals, box>> => Grown /\ Rows' = Rows
  BY DEF Types, Grown, Rows
<1>2. ASSUME NEW k \in Calls, Add(k)
      PROVE  /\ Grown /\ Len(approvals) + 1 \in Rows' /\ Len(approvals) + 1 \in Nat
             /\ approvals'[Len(approvals) + 1].call = k
  <2>1. /\ approvals' \in Seq(LedgerRows) /\ box' \in Seq(Seq(Verdicts)) /\ Len(box') = Len(approvals')
        /\ Len(approvals) \in Nat /\ Rows = 1 .. Len(approvals) /\ Rows' = 1 .. Len(approvals) + 1
        /\ \A q \in Rows : approvals'[q] = approvals[q] /\ box'[q] = box[q]
        /\ approvals'[Len(approvals) + 1] = NewRow(k) /\ box'[Len(approvals) + 1] = << >>
    BY <1>2, AddEffect, Zenon
  <2>0. PICK n \in Nat : n = Len(approvals) /\ Rows = 1 .. n /\ Rows' = 1 .. n + 1
    BY <2>1, Zenon
  <2>2. /\ \A q \in Rows' \ Rows : q = n + 1
        /\ (\A q \in Rows : q \in Rows') /\ n + 1 \in Rows' /\ n + 1 \in Nat
    BY <2>0
  <2>3. Fresh(Len(approvals) + 1) /\ approvals'[Len(approvals) + 1].call = k
    BY <2>1 DEF Fresh, NewRow
  <2> QED
    BY <2>0, <2>1, <2>2, <2>3, Zenon DEF Grown
<1> QED
  BY <1>1, <1>2

\* A caller that was not executing, and was told of no approval, moves on.
LEMMA GotoKept ==
    ASSUME ApprovalsInv, plan' = plan, answer' = answer, Grown, NEW c \in Callers, NEW p,
           call[c].at \in Silent,
           \/ p \in {"create", "again", "end"}
           \/ p = "cleanup" /\ call[c].at = "wait",
           Goto(c, p)
    PROVE  Kept(c)
<1>1. p \in Points \ {"execute", "consume"} /\ p \notin Trying
  BY DEF Points, Silent, Waiting, Trying
<1>2. /\ call' \in [Callers -> CallStates] /\ Alone(c)
      /\ call'[c].at = p /\ call'[c].row = call[c].row /\ call'[c].said = call[c].said
  BY <1>1, GotoEffect DEF ApprovalsInv, Types
<1>3. /\ CallerOK(c) /\ call[c].said = Nothing /\ Nothing.status = "PENDING"
      /\ call[c].at \notin {"execute", "consume"}
  BY Zenon DEF ApprovalsInv, CallerOK, Nothing, Silent
<1>4. Kind(c)' = Kind(c) /\ Call(c)' = Call(c) /\ call[c].row \in {0} \cup Rows'
  BY <1>3, Zenon DEF Kind, Call, CallerOK, Grown
<1>5. p \in Waiting => call[c].at \in Waiting
  BY Zenon DEF Waiting
<1>6. call[c].row # 0 => approvals'[call[c].row] = approvals[call[c].row]
  BY <1>3, Zenon DEF CallerOK, Grown
<1>7. CallerOK(c)'
  BY <1>1, <1>2, <1>3, <1>4, <1>5, <1>6, Zenon DEF CallerOK
<1>8. Types'
  BY <1>2, Zenon DEF Types, Grown, ApprovalsInv
<1>9. Quiet(c)
  BY <1>1, <1>2, <1>3, Zenon DEF Quiet, Grown
<1> QED
  BY <1>7, <1>8, <1>9, Zenon DEF Kept

\* A caller takes a row of its call to wait on, or one to ask about.
LEMMA HoldKept ==
    ASSUME ApprovalsInv, plan' = plan, answer' = answer, Grown, NEW c \in Callers, NEW r \in Nat,
           call[c].at \in Silent,
           \/ r = 0 /\ Kind(c) # "mcp"
           \/ r \in Rows' /\ (Kind(c) # "mcp" => approvals'[r].call = Call(c)),
           Hold(c, r)
    PROVE  Kept(c)
<1>1. /\ call' \in [Callers -> CallStates] /\ Alone(c)
      /\ call'[c].at = (IF Kind(c) = "mcp" THEN "poll" ELSE "wait")
      /\ call'[c].row = r /\ call'[c].said = call[c].said
  BY HoldEffect, Zenon DEF ApprovalsInv, Types
<1>2. /\ call[c].said = Nothing /\ Nothing.status = "PENDING"
      /\ call[c].at \notin {"execute", "consume"}
  BY Zenon DEF ApprovalsInv, CallerOK, Nothing, Silent
<1>3. Kind(c)' = Kind(c) /\ Call(c)' = Call(c) /\ 0 \notin Rows'
  BY DEF Kind, Call, Grown, Rows
<1>4. CallerOK(c)'
  BY <1>1, <1>2, <1>3, Zenon DEF CallerOK, Waiting, Trying
<1>5. Types'
  BY <1>1, Zenon DEF Types, Grown, ApprovalsInv
<1>6. Quiet(c)
  BY <1>1, <1>2, Zenon DEF Quiet, Grown
<1> QED
  BY <1>4, <1>5, <1>6, Zenon DEF Kept

\* createMcpApproval and record: find, create, find again, ask and resend.
LEMMA FindKept ==
    ASSUME ApprovalsInv, plan' = plan, NEW c \in Callers,
           Find(c) \/ Create(c) \/ FindAgain(c) \/ Ask(c) \/ Resend(c)
    PROVE  Kept(c)
<1>0. Types /\ call[c].at \in Points /\ Rows \subseteq Nat /\ approvals \in Seq(LedgerRows)
  BY DEF ApprovalsInv, Types, CallStates, Rows
<1>1. Call(c) \in Calls
  <2>1. plan \in Plans
    BY <1>0, Zenon DEF Types
  <2> QED
    BY <2>1 DEF Call, Calls
<1>2. ASSUME UNCHANGED <<approvals, box, answer>>, call[c].at \in Silent,
             NEW r \in findPending(Call(c)), Hold(c, r)
      PROVE  Kept(c)
  <2>1. Grown /\ Rows' = Rows /\ approvals' = approvals
    BY <1>0, <1>2, GrownBy, Zenon
  <2>2. r \in Rows /\ r \in Nat /\ approvals[r].call = Call(c)
    BY <1>0, <1>2, Zenon DEF findPending
  <2> QED
    BY <1>2, <2>1, <2>2, HoldKept, Zenon
<1>3. ASSUME UNCHANGED <<approvals, box, answer>>, call[c].at \in Silent, NEW p, Goto(c, p),
             p \in {"create", "end"}
      PROVE  Kept(c)
  BY <1>0, <1>3, GrownBy, GotoKept, Zenon
<1>4. CASE Find(c)
  BY <1>2, <1>3, <1>4, Zenon DEF Find, At, Silent
<1>5. CASE FindAgain(c)
  BY <1>2, <1>3, <1>5, Zenon DEF FindAgain, At, Silent
<1>6. CASE Create(c)
  <2>1. call[c].at \in Silent /\ answer' = answer
    BY <1>6, Zenon DEF Create, At, Silent
  <2>2. ASSUME Add(Call(c)), Hold(c, Len(approvals) + 1) PROVE Kept(c)
    BY <1>0, <1>1, <2>1, <2>2, GrownBy, HoldKept, Zenon
  <2>3. ASSUME Goto(c, "again"), Add(Call(c)) \/ UNCHANGED <<approvals, box>> PROVE Kept(c)
    BY <1>0, <1>1, <2>1, <2>3, GrownBy, GotoKept, Zenon
  <2> QED
    BY <1>6, <2>2, <2>3, Zenon DEF Create
<1>7. CASE Ask(c)
  <2>1. call[c].at \in Silent /\ Kind(c) # "mcp" /\ answer' = answer
    BY <1>7, Zenon DEF Ask, At, Silent
  <2>2. ASSUME Add(Call(c)), Hold(c, Len(approvals) + 1) PROVE Kept(c)
    BY <1>0, <1>1, <2>1, <2>2, GrownBy, HoldKept, Zenon
  <2>3. ASSUME Hold(c, 0), UNCHANGED <<approvals, box>> PROVE Kept(c)
    BY <1>0, <2>1, <2>3, GrownBy, HoldKept, Zenon
  <2> QED
    BY <1>7, <2>1, <2>2, <2>3, Zenon DEF Ask
<1>8. CASE Resend(c)
  <2>1. /\ call[c].at \in Silent /\ Kind(c) = "mcp" /\ UNCHANGED <<approvals, box, answer>>
        /\ Grown /\ Rows' = Rows
    BY <1>0, <1>8, GrownBy, Zenon DEF Resend, At, Silent
  <2>2. PICK r \in Rows : Hold(c, r)
    BY <1>8, Zenon DEF Resend
  <2> QED
    BY <1>0, <2>1, <2>2, HoldKept, Zenon
<1> QED
  BY <1>4, <1>5, <1>6, <1>7, <1>8, Zenon

\* A caller stops to wait, or dies.
LEMMA GiveUpKept ==
    ASSUME ApprovalsInv, plan' = plan, NEW c \in Callers, TimeOut(c) \/ WaitFails(c) \/ Crash(c)
    PROVE  Kept(c)
<1>0. Types /\ CallerOK(c) /\ call[c] \in CallStates /\ Kind(c)' = Kind(c) /\ Call(c)' = Call(c)
  BY Zenon DEF ApprovalsInv, Types, Kind, Call
<1>1. UNCHANGED <<approvals, box, answer>> /\ Grown /\ Rows' = Rows
  BY <1>0, GrownBy, Zenon DEF TimeOut, WaitFails, Crash
<1>2. CASE WaitFails(c)
  BY <1>1, <1>2, GotoKept DEF WaitFails, At, Silent
<1>3. ASSUME NEW p \in Points, NEW w \in Words, call[c].at \notin {"execute", "consume"},
             Tell(c, p, w), p = "end" \/ (p = "record" /\ call[c].at = "wait"), w.status # "APPROVED"
      PROVE  Kept(c)
  <2>1. /\ call' \in [Callers -> CallStates] /\ Alone(c)
        /\ call'[c].at = p /\ call'[c].row = call[c].row /\ call'[c].said = w
    BY <1>0, <1>3, HearEffect, Zenon DEF Types
  <2>2. CallerOK(c)'
    BY <1>0, <1>1, <1>3, <2>1, Zenon DEF CallerOK, Silent, Waiting, Trying
  <2>3. Types'
    BY <1>0, <1>1, <2>1, Zenon DEF Types
  <2>4. Quiet(c)
    BY <1>1, <1>3, <2>1, Zenon DEF Quiet, Grown
  <2> QED
    BY <2>2, <2>3, <2>4, Zenon DEF Kept
<1>4. CASE Crash(c)
  <2>1. Nothing \in Words /\ Nothing.status # "APPROVED" /\ "end" \in Points
    BY Zenon DEF Nothing, Words, Statuses, Points
  <2> QED
    BY <1>3, <1>4, <2>1, Zenon DEF Crash
<1>5. CASE TimeOut(c)
  <2> DEFINE w == [Nothing EXCEPT !.status = "EXPIRED"]
  <2>1. w \in Words /\ w.status # "APPROVED" /\ "record" \in Points
    BY Zenon DEF Nothing, Words, Statuses, Points, Waiting
  <2>2. call[c].at = "wait" /\ Tell(c, "record", w)
    BY <1>5, Zenon DEF TimeOut, At
  <2> HIDE DEF w
  <2> QED
    BY <1>3, <2>1, <2>2, Zenon
<1> QED
  BY <1>2, <1>4, <1>5, Zenon

----------------------------------------------------------------------------
(* Steps of a caller on its row.                                           *)

\* Writing one row.
LEMMA UpdateEffect ==
    ASSUME Types, NEW r \in Rows, NEW x \in LedgerRows, approvals' = [approvals EXCEPT ![r] = x]
    PROVE  /\ approvals' \in Seq(LedgerRows) /\ Len(approvals') = Len(approvals) /\ Rows' = Rows
           /\ approvals'[r] = x /\ \A q \in Rows : q # r => approvals'[q] = approvals[q]
BY DEF Types, Rows

\* A caller that stays on its row disturbs no other.
OnItsRow(c) ==
    /\ Types' /\ CallerOK(c)' /\ Alone(c) /\ answer' = answer /\ plan' = plan
    /\ Rows' = Rows /\ call'[c].row = call[c].row
    /\ \A q \in Rows : q # call[c].row => approvals'[q] = approvals[q] /\ box'[q] = box[q]
    /\ call[c].row \in Rows => Stands(call[c].row)

\* So the invariant is kept when its own row stays correct.
LEMMA OwnRowStep ==
    ASSUME ApprovalsInv, NEW c \in Callers, OnItsRow(c), NEW r, r = call[c].row, r \in Rows => RowOK(r)'
    PROVE  ApprovalsInv' /\ \A q \in Rows : Stands(q)
<1>1. \A q \in Rows : Stands(q)
  BY Zenon DEF OnItsRow, Stands
<1>2. \A d \in Callers : CallerOK(d)'
  BY <1>1, CallerStays, Zenon DEF ApprovalsInv, OnItsRow, Alone
<1>3. \A h \in Operators : AnswerOK(h)'
  BY <1>1, AnswerStays, Zenon DEF ApprovalsInv, OnItsRow
<1>4. ASSUME NEW q \in Rows, q # call[c].row PROVE RowOK(q)'
  <2>1. \A h \in Operators : Pushes(h, q)' => Pushes(h, q) /\ answer'[h].said = answer[h].said
    BY Zenon DEF OnItsRow, Pushes, Via
  <2>2. \A d \in Callers :
          /\ call'[d].row = q /\ call'[d].said.status = "APPROVED" =>
                call[d].row = q /\ call'[d].said = call[d].said
          /\ Carries(d, q)' => Carries(d, q)
          /\ Runs(d, q)' <=> Runs(d, q)
          /\ Runs(d, q) => call'[d].at = call[d].at
    BY <1>4, Zenon DEF OnItsRow, Alone, Carries, Runs
  <2>3. Calm(q)
    BY <1>1, <1>4, <2>1, <2>2, Zenon DEF Calm, OnItsRow
  <2> QED
    BY <2>3, <1>4, RowStays, Zenon DEF ApprovalsInv
<1> QED
  BY <1>1, <1>2, <1>3, <1>4, Zenon DEF ApprovalsInv, OnItsRow

\* resolve writes a pending row only.
LEMMA ResolveEffect ==
    ASSUME Types, NEW r \in {0} \cup Rows, NEW w \in Words, approvals' = resolve(r, w)
    PROVE  /\ approvals' \in Seq(LedgerRows) /\ Len(approvals') = Len(approvals) /\ Rows' = Rows
           /\ \A q \in Rows : q # r \/ approvals[q].status # "PENDING" => approvals'[q] = approvals[q]
           /\ r \in Rows /\ approvals[r].status = "PENDING" => Recorded(r, w)'
           /\ \A q \in Rows : /\ approvals'[q].call = approvals[q].call /\ approvals'[q].tries = approvals[q].tries
                              /\ approvals'[q].loose = approvals[q].loose /\ approvals'[q].socket = approvals[q].socket
                              /\ approvals'[q].consumed = approvals[q].consumed
                              /\ approvals'[q].runs = approvals[q].runs
<1>0. 0 \notin Rows
  BY DEF Types, Rows
<1>1. CASE r = 0 \/ approvals[r].status # "PENDING"
  BY <1>0, <1>1, Zenon DEF resolve, Types, Rows
<1>2. CASE r \in Rows /\ approvals[r].status = "PENDING"
  <2> DEFINE x == [[approvals[r] EXCEPT !.status = w.status] EXCEPT !.edited = w.edited]
  <2>1. approvals[r] \in LedgerRows
    BY <1>2 DEF Types, Rows
  <2>2. /\ x \in LedgerRows /\ x.status = w.status /\ x.edited = w.edited
        /\ x.call = approvals[r].call /\ x.loose = approvals[r].loose /\ x.socket = approvals[r].socket
        /\ x.consumed = approvals[r].consumed /\ x.runs = approvals[r].runs /\ x.tries = approvals[r].tries
    BY <2>1, Zenon DEF LedgerRows, Words
  <2>3. approvals' = [approvals EXCEPT ![r] = x]
    BY <1>0, <1>2, Zenon DEF resolve
  <2> HIDE DEF x
  <2>4. /\ approvals' \in Seq(LedgerRows) /\ Len(approvals') = Len(approvals) /\ Rows' = Rows
        /\ approvals'[r] = x /\ \A q \in Rows : q # r => approvals'[q] = approvals[q]
    BY <1>2, <2>2, <2>3, UpdateEffect, Zenon
  <2> QED
    BY <1>2, <2>2, <2>4, Zenon DEF Recorded
<1> QED
  BY <1>1, <1>2, Zenon

\* The invariant holds after the step, and every row stands.
Safe == ApprovalsInv' /\ \A q \in Rows : Stands(q)

\* BLPOP: the decision goes from the list to one caller.
LEMMA WakeStep ==
    ASSUME ApprovalsInv, plan' = plan, NEW c \in Callers, Wake(c)
    PROVE  Safe
<1>1. PICK r, w : r = call[c].row /\ w = Head(box[r])
  BY Zenon
<1>2. /\ Types /\ CallerOK(c) /\ r \in Rows /\ call[c].at = "wait" /\ box[r] # << >>
      /\ UNCHANGED <<approvals, answer>> /\ Rows' = Rows
  BY <1>1, Zenon DEF ApprovalsInv, Wake, At, CallerOK, Rows
<1>3. /\ box[r] \in Seq(Verdicts) /\ Len(box[r]) > 0 /\ w = box[r][1] /\ w \in Verdicts
      /\ Tail(box[r]) \in Seq(Verdicts) /\ Len(Tail(box[r])) = Len(box[r]) - 1
      /\ r \in 1 .. Len(box)
  BY <1>1, <1>2 DEF Types, Rows
<1>4. w \in Words /\ w.status # "PENDING"
  BY <1>3, Zenon DEF Words, Verdicts
<1>5. /\ call' \in [Callers -> CallStates] /\ Alone(c)
      /\ call'[c].at = "record" /\ call'[c].row = r /\ call'[c].said = w
  <2>1. Tell(c, "record", w) /\ "record" \in Points
    BY <1>1, Zenon DEF Wake, Points, Waiting
  <2>2. call \in [Callers -> CallStates]
    BY <1>2, Zenon DEF Types
  <2>3. /\ call' \in [Callers -> CallStates] /\ Alone(c)
        /\ call'[c].at = "record" /\ call'[c].row = call[c].row /\ call'[c].said = w
    BY <1>4, <2>1, <2>2, HearEffect, Zenon
  <2> QED
    BY <1>1, <2>3, Zenon
<1>6. /\ box' \in Seq(Seq(Verdicts)) /\ Len(box') = Len(box)
      /\ box'[r] = Tail(box[r]) /\ \A q \in Rows : q # r => box'[q] = box[q]
  <2>1. box' = [box EXCEPT ![r] = Tail(box[r])]
    BY <1>1, Zenon DEF Wake
  <2> QED
    BY <1>2, <1>3, <2>1 DEF Types, Rows
<1>7. Types'
  BY <1>2, <1>5, <1>6, Zenon DEF Types
<1>8. CallerOK(c)'
  <2>1. 0 \notin Rows
    BY <1>2 DEF Types, Rows
  <2> QED
    BY <1>1, <1>2, <1>5, <2>1, Zenon DEF CallerOK, Kind, Call, Silent, Waiting, Trying
<1>9. OnItsRow(c)
  BY <1>1, <1>2, <1>5, <1>6, <1>7, <1>8, Zenon DEF OnItsRow, Stands
<1>10. ASSUME ~approvals[r].socket PROVE Matched(r)' /\ OneToken(r)'
  <2>1. Matched(r) /\ OneToken(r)
    BY <1>2, <1>10, Zenon DEF ApprovalsInv, RowOK
  <2>2. Len(box[r]) = 1 /\ Len(box'[r]) = 0 /\ box'[r] = << >>
    <3>1. PICK s, t : s = box[r] /\ t = box'[r] /\ Len(s) <= 1
      BY <2>1, Zenon DEF OneToken
    <3>2. s \in Seq(Verdicts) /\ Len(s) > 0 /\ Len(s) <= 1 /\ t \in Seq(Verdicts) /\ Len(t) = Len(s) - 1
      BY <1>3, <1>6, <3>1, Zenon
    <3>3. Len(s) = 1 /\ Len(t) = 0 /\ t = << >>
      <4>1. Len(s) \in Nat /\ Len(t) \in Nat
        BY <3>2
      <4>2. Len(s) = 1 /\ Len(t) = 0
        BY <3>2, <4>1
      <4> QED
        BY <3>2, <4>2
    <3> QED
      BY <3>1, <3>3, Zenon
  <2>3. Recorded(r, w)
    BY <1>3, <2>1 DEF Matched
  <2>4. \A h \in Operators : ~Pushes(h, r)'
    BY <1>2, <2>1, Zenon DEF OneToken, Pushes, Via
  <2>5. approvals[r].runs = 0 /\ \A d \in Callers : Carries(d, r)' => d = c
    BY <1>2, <1>5, <2>1, Zenon DEF OneToken, Carries, Alone
  <2>6. Matched(r)'
    BY <1>2, <1>5, <2>1, <2>2, <2>3, <2>4 DEF Matched, Recorded, Alone
  <2>7. OneToken(r)'
    BY <1>2, <2>2, <2>4, <2>5 DEF OneToken
  <2> QED
    BY <2>6, <2>7, Zenon
<1>12. ASSUME OneTry(r) PROVE OneTry(r)'
  <2>1. \A d \in Callers : (Runs(d, r)' <=> Runs(d, r)) /\ (Runs(d, r) => call'[d].at = call[d].at)
    BY <1>1, <1>2, <1>5, Zenon DEF Runs, Alone
  <2> QED
    BY <1>2, <1>12, <2>1, Zenon DEF OneTry
<1>11. RowOK(r)'
  BY <1>2, <1>10, <1>12, Zenon DEF RowOK, ApprovalsInv
<1> QED
  BY <1>1, <1>9, <1>11, OwnRowStep, Zenon DEF Safe

\* The woken caller's double write changes a pending row only.
LEMMA RecordStep ==
    ASSUME ApprovalsInv, plan' = plan, NEW c \in Callers, Record(c)
    PROVE  Safe
<1>1. PICK r, w : r = call[c].row /\ w = call[c].said
  BY Zenon
<1>2. /\ Types /\ CallerOK(c) /\ r \in {0} \cup Rows /\ call[c].at = "record" /\ w \in Words
      /\ UNCHANGED <<box, answer>>
  BY <1>1, Zenon DEF ApprovalsInv, Record, At, CallerOK, Types, CallStates
<1>3. /\ call' \in [Callers -> CallStates] /\ Alone(c)
      /\ call'[c].at = "cleanup" /\ call'[c].row = r /\ call'[c].said = w
  BY <1>1, <1>2, GotoEffect, Zenon DEF Record, Types, Points, Waiting
<1>4. /\ approvals' \in Seq(LedgerRows) /\ Len(approvals') = Len(approvals) /\ Rows' = Rows
      /\ \A q \in Rows : q # r \/ approvals[q].status # "PENDING" => approvals'[q] = approvals[q]
      /\ \A q \in Rows : /\ approvals'[q].call = approvals[q].call /\ approvals'[q].tries = approvals[q].tries
                         /\ approvals'[q].loose = approvals[q].loose /\ approvals'[q].socket = approvals[q].socket
                         /\ approvals'[q].consumed = approvals[q].consumed
                         /\ approvals'[q].runs = approvals[q].runs
  <2>1. CASE approvals' = resolve(r, w)
    BY <1>2, <2>1, ResolveEffect, Zenon
  <2>2. CASE UNCHANGED approvals
    BY <1>2, <2>2, Zenon DEF Types, Rows
  <2> QED
    BY <1>1, <2>1, <2>2, Zenon DEF Record
<1>5. \A q \in Rows : Stands(q)
  BY <1>4, Zenon DEF Stands
<1>6. Types'
  BY <1>2, <1>3, <1>4, Zenon DEF Types
<1>7. CallerOK(c)'
  <2>1. r # 0 => r \in Rows /\ approvals'[r].call = approvals[r].call
    BY <1>2, <1>4, Zenon
  <2>2. Kind(c)' = Kind(c) /\ Call(c)' = Call(c) /\ Kind(c) # "mcp"
    BY <1>2, Zenon DEF Kind, Call, CallerOK, Waiting
  <2> QED
    BY <1>1, <1>2, <1>3, <1>4, <2>1, <2>2, Zenon DEF CallerOK, Silent, Waiting, Trying
<1>8. OnItsRow(c)
  BY <1>1, <1>2, <1>3, <1>4, <1>5, <1>6, <1>7, Zenon DEF OnItsRow
<1>9. ASSUME r \in Rows PROVE RowOK(r)'
  <2>1. \A h \in Operators : Pushes(h, r)' => Pushes(h, r) /\ answer'[h].said = answer[h].said
    BY <1>2, Zenon DEF Pushes, Via
  <2>2. \A d \in Callers :
          /\ call'[d].row = r /\ call'[d].said.status = "APPROVED" =>
                call[d].row = r /\ call'[d].said = call[d].said
          /\ Carries(d, r)' => Carries(d, r)
          /\ Runs(d, r)' <=> Runs(d, r)
          /\ Runs(d, r) => call'[d].at = call[d].at
    BY <1>1, <1>2, <1>3, Zenon DEF Alone, Carries, Runs
  <2>3. Calm(r)
    BY <1>2, <1>4, <1>5, <1>9, <2>1, <2>2, Zenon DEF Calm
  <2> QED
    BY <1>9, <2>3, RowStays, Zenon DEF ApprovalsInv
<1> QED
  BY <1>1, <1>8, <1>9, OwnRowStep, Zenon DEF Safe

\* The finally block, and the execution after it: the caller that carries the
\* approval spends it.
LEMMA CleanupStep ==
    ASSUME ApprovalsInv, plan' = plan, NEW c \in Callers, Cleanup(c)
    PROVE  Safe
<1>1. PICK r, w : r = call[c].row /\ w = call[c].said
  BY Zenon
<1>2. /\ Types /\ CallerOK(c) /\ r \in {0} \cup Rows /\ call[c].at = "cleanup" /\ 0 \notin Rows
      /\ answer' = answer
  BY <1>1 DEF ApprovalsInv, Cleanup, At, CallerOK, Types, Rows
<1>3. /\ call' \in [Callers -> CallStates] /\ Alone(c)
      /\ call'[c].at = "end" /\ call'[c].row = r /\ call'[c].said = w
  BY <1>1, <1>2, GotoEffect, Zenon DEF Cleanup, Types, Points
<1>4. /\ box' \in Seq(Seq(Verdicts)) /\ Len(box') = Len(box)
      /\ \A q \in Rows : box'[q] \in {box[q], << >>} /\ (q # r => box'[q] = box[q])
  <2>1. CASE box' = box
    BY <1>2, <2>1, Zenon DEF Types
  <2>2. CASE r \in Rows /\ box' = [box EXCEPT ![r] = << >>]
    <3>1. r \in 1 .. Len(box) /\ << >> \in Seq(Verdicts) /\ \A q \in Rows : q \in 1 .. Len(box)
      BY <1>2, <2>2 DEF Types, Rows
    <3> QED
      BY <1>2, <2>2, <3>1 DEF Types
  <2> QED
    BY <1>1, <1>2, <2>1, <2>2, Zenon DEF Cleanup
<1>5. CASE w.status # "APPROVED"
  <2>1. approvals' = approvals /\ Rows' = Rows /\ \A q \in Rows : Stands(q)
    BY <1>1, <1>5, Zenon DEF Cleanup, Stands, Rows
  <2>2. Types' /\ CallerOK(c)'
    BY <1>1, <1>2, <1>3, <1>4, <1>5, <2>1, Zenon DEF Types, CallerOK, Kind, Call, Silent, Waiting, Trying
  <2>3. OnItsRow(c)
    BY <1>1, <1>2, <1>3, <1>4, <2>1, <2>2, Zenon DEF OnItsRow
  <2>4. ASSUME r \in Rows PROVE RowOK(r)'
    <3>1. \A h \in Operators : Pushes(h, r)' => Pushes(h, r) /\ answer'[h].said = answer[h].said
      BY <1>2, Zenon DEF Pushes, Via
    <3>2. \A d \in Callers :
            /\ call'[d].row = r /\ call'[d].said.status = "APPROVED" =>
                  call[d].row = r /\ call'[d].said = call[d].said
            /\ Carries(d, r)' => Carries(d, r)
            /\ Runs(d, r)' <=> Runs(d, r)
            /\ Runs(d, r) => call'[d].at = call[d].at
      BY <1>1, <1>2, <1>3, Zenon DEF Alone, Carries, Runs
    <3>3. Calm(r)
      BY <1>4, <2>1, <2>4, <3>1, <3>2, Zenon DEF Calm
    <3> QED
      BY <2>4, <3>3, RowStays, Zenon DEF ApprovalsInv
  <2> QED
    BY <1>1, <2>3, <2>4, OwnRowStep, Zenon DEF Safe
<1>6. CASE w.status = "APPROVED"
  <2>0. r \in Rows /\ approvals[r] \in LedgerRows
    BY <1>1, <1>2, <1>6 DEF CallerOK, Types, Rows, Waiting
  <2> DEFINE x == [approvals[r] EXCEPT !.runs = @ + 1]
  <2>1. /\ x \in LedgerRows /\ x.runs = approvals[r].runs + 1 /\ x.status = approvals[r].status
        /\ x.edited = approvals[r].edited /\ x.call = approvals[r].call /\ x.loose = approvals[r].loose
        /\ x.consumed = approvals[r].consumed /\ x.tries = approvals[r].tries /\ x.socket = approvals[r].socket
    BY <2>0 DEF LedgerRows
  <2>2. approvals' = [approvals EXCEPT ![r] = x]
    BY <1>1, <1>6, Zenon DEF Cleanup
  <2> HIDE DEF x
  <2>3. /\ approvals' \in Seq(LedgerRows) /\ Len(approvals') = Len(approvals) /\ Rows' = Rows
        /\ approvals'[r] = x /\ \A q \in Rows : q # r => approvals'[q] = approvals[q]
    BY <1>2, <2>0, <2>1, <2>2, UpdateEffect, Zenon
  <2>4. \A q \in Rows : Stands(q)
    BY <2>1, <2>3, Zenon DEF Stands
  <2>5. Types' /\ CallerOK(c)'
    <3>1. Kind(c)' = Kind(c) /\ Call(c)' = Call(c) /\ Kind(c) # "mcp"
      BY <1>2, Zenon DEF Kind, Call, CallerOK, Waiting
    <3> QED
      BY <1>1, <1>2, <1>3, <1>4, <2>0, <2>1, <2>3, <3>1, Zenon DEF Types, CallerOK, Silent, Waiting, Trying
  <2>6. OnItsRow(c)
    BY <1>1, <1>2, <1>3, <1>4, <2>0, <2>3, <2>4, <2>5, Zenon DEF OnItsRow
  <2>7. ASSUME ~approvals[r].socket PROVE Matched(r)' /\ OneToken(r)'
    <3>1. Matched(r) /\ OneToken(r)
      BY <2>0, <2>7, Zenon DEF ApprovalsInv, RowOK
    <3>2. Carries(c, r)
      BY <1>1, <1>2, <1>6, Zenon DEF Carries
    <3>3. approvals[r].runs = 0 /\ box[r] = << >> /\ approvals[r].status = "APPROVED"
      BY <1>1, <1>6, <3>1, <3>2, Zenon DEF OneToken, Matched, Recorded
    <3>4. \A h \in Operators : ~Pushes(h, r)'
      BY <1>2, <3>1, <3>2, Zenon DEF OneToken, Pushes, Via
    <3>5. \A d \in Callers : ~Carries(d, r)'
      BY <1>3, <3>1, <3>2, Zenon DEF OneToken, Carries, Alone
    <3>6. approvals'[r].runs = 1 /\ box'[r] = << >> /\ approvals'[r].status = "APPROVED" /\ Len(<< >>) = 0
      BY <1>4, <2>0, <2>1, <2>3, <3>3
    <3>7. OneToken(r)'
      BY <3>4, <3>5, <3>6 DEF OneToken
    <3>8. Matched(r)'
      BY <1>1, <1>3, <2>1, <2>3, <3>1, <3>4, <3>6 DEF Matched, Recorded, Alone
    <3> QED
      BY <3>7, <3>8, Zenon
  <2>9. ASSUME OneTry(r) PROVE OneTry(r)'
    <3>1. \A d \in Callers : (Runs(d, r)' <=> Runs(d, r)) /\ (Runs(d, r) => call'[d].at = call[d].at)
      BY <1>1, <1>2, <1>3, Zenon DEF Runs, Alone
    <3> QED
      BY <2>1, <2>3, <2>9, <3>1, Zenon DEF OneTry
  <2>8. RowOK(r)'
    BY <2>0, <2>1, <2>3, <2>7, <2>9, Zenon DEF RowOK, ApprovalsInv
  <2> QED
    BY <1>1, <2>6, <2>8, OwnRowStep, Zenon DEF Safe
<1> QED
  BY <1>5, <1>6, Zenon

----------------------------------------------------------------------------
(* Tries of a client.                                                      *)

\* What a try writes: its row, in which the decision stands, and its place.
Tried(c, r, x, p) ==
    /\ plan' = plan /\ UNCHANGED <<box, answer>>
    /\ r = call[c].row /\ call[c].at \in Trying /\ p \in {"execute", "consume", "end"}
    /\ x \in LedgerRows /\ approvals' = [approvals EXCEPT ![r] = x]
    /\ approvals[r].status = "APPROVED" /\ x.status = "APPROVED" /\ x.edited = approvals[r].edited
    /\ x.call = approvals[r].call /\ (approvals[r].loose => x.loose)
    /\ x.socket = approvals[r].socket /\ x.runs = approvals[r].runs
    /\ call' \in [Callers -> CallStates] /\ Alone(c) /\ call'[c].at = p /\ call'[c].row = r
    /\ \/ call'[c].said = call[c].said
       \/ call'[c].said.status = "APPROVED" /\ call'[c].said.edited = approvals[r].edited /\ SameTool(c, r)

\* A try keeps the invariant when it leaves at most one execution behind.
LEMMA TriedStep ==
    ASSUME ApprovalsInv, NEW c \in Callers, NEW r, NEW x, NEW p, Tried(c, r, x, p),
           r \in Rows /\ approvals'[r] = x /\ ~x.loose => OneTry(r)'
    PROVE  Safe
<1>1. Types /\ CallerOK(c) /\ r \in Rows /\ 0 \notin Rows
  BY DEF ApprovalsInv, Tried, CallerOK, Types, Rows
<1>2. /\ approvals' \in Seq(LedgerRows) /\ Len(approvals') = Len(approvals) /\ Rows' = Rows
      /\ approvals'[r] = x /\ \A q \in Rows : q # r => approvals'[q] = approvals[q]
  BY <1>1, UpdateEffect, Zenon DEF Tried
<1>3. \A q \in Rows : Stands(q)
  BY <1>2, Zenon DEF Stands, Tried
<1>4. Types'
  BY <1>1, <1>2, Zenon DEF Types, Tried
<1>5. CallerOK(c)'
  <2>1. Kind(c)' = Kind(c) /\ Call(c)' = Call(c) /\ (SameTool(c, r)' <=> SameTool(c, r))
    BY <1>2, Zenon DEF Kind, Call, SameTool, Tried
  <2>2. Kind(c) = "mcp" /\ call'[c].said.status = "APPROVED" => SameTool(c, r)
    BY <1>1, Zenon DEF CallerOK, Tried
  <2>3. call'[c].row = r /\ SameTool(c, call[c].row)' = SameTool(c, r)'
    BY Zenon DEF Tried, SameTool, Call
  <2>4. call'[c].at \notin Silent \cup Waiting
    BY Zenon DEF Tried, Silent, Waiting
  <2> QED
    BY <1>1, <1>2, <2>1, <2>2, <2>3, <2>4, Zenon DEF CallerOK, Tried
<1>6. OnItsRow(c)
  BY <1>1, <1>2, <1>3, <1>4, <1>5, Zenon DEF OnItsRow, Tried
<1>7. ASSUME ~x.socket PROVE Matched(r)' /\ OneToken(r)'
  <2>1. Matched(r) /\ OneToken(r)
    BY <1>1, <1>7, Zenon DEF ApprovalsInv, RowOK, Tried
  <2>2. approvals'[r].status = approvals[r].status /\ approvals'[r].edited = approvals[r].edited
    BY <1>2, Zenon DEF Tried
  <2>3. \A h \in Operators : Pushes(h, r)' => Pushes(h, r) /\ answer'[h].said = answer[h].said
    BY Zenon DEF Tried, Pushes, Via
  <2>4. \A d \in Callers : call'[d].row = r /\ call'[d].said.status = "APPROVED" =>
          approvals[r].status = "APPROVED" /\ approvals[r].edited = call'[d].said.edited
    <3>1. \A d \in Callers : call[d].row = r /\ call[d].said.status = "APPROVED" =>
            approvals[r].edited = call[d].said.edited
      BY <2>1, Zenon DEF Matched, Recorded
    <3> QED
      BY <3>1 DEF Tried, Alone
  <2>5. Matched(r)'
    BY <2>1, <2>2, <2>3, <2>4, Zenon DEF Matched, Recorded, Tried
  <2>6. \A d \in Callers : Carries(d, r)' <=> Carries(d, r)
    BY Zenon DEF Tried, Carries, Alone, Trying
  <2>7. \A h \in Operators : Pushes(h, r)' <=> Pushes(h, r)
    BY Zenon DEF Tried, Pushes, Via
  <2>8. box'[r] = box[r] /\ approvals'[r].runs = approvals[r].runs
    BY <1>2, Zenon DEF Tried
  <2>9. OneToken(r)'
    BY <2>1, <2>2, <2>6, <2>7, <2>8, Zenon DEF OneToken
  <2> QED
    BY <2>5, <2>9, Zenon
<1>8. RowOK(r)'
  BY <1>1, <1>2, <1>7, Zenon DEF RowOK, Tried
<1>9. r = call[c].row
  BY Zenon DEF Tried
<1> QED
  BY <1>6, <1>8, <1>9, OwnRowStep, Zenon DEF Safe

\* A try that the ledger answers, or that goes on to execute alone.
LEMMA PollStep ==
    ASSUME ApprovalsInv, plan' = plan, NEW c \in Callers, Poll(c)
    PROVE  Safe
<1>1. PICK r : r = call[c].row
  BY Zenon
<1>2. /\ Types /\ CallerOK(c) /\ r \in Rows /\ call[c].at = "poll" /\ approvals[r] \in LedgerRows
      /\ UNCHANGED <<box, answer>> /\ call[c].at \in Trying
  BY <1>1 DEF ApprovalsInv, Poll, At, CallerOK, Types, Rows, Trying
<1>3. CASE Goto(c, "end") /\ UNCHANGED approvals
  <2>1. Grown
    BY <1>2, <1>3, GrownBy, Zenon
  <2>2. Kept(c)
    BY <1>2, <1>3, <2>1, GotoKept DEF Silent
  <2> QED
    BY <2>2, QuietStep, Zenon DEF Safe
<1>4. CASE /\ approvals[r].status = "APPROVED" /\ ~approvals[r].consumed /\ SameTool(c, r)
           /\ Tell(c, "execute", [status |-> "APPROVED", edited |-> approvals[r].edited])
           /\ approvals' = [approvals EXCEPT ![r].loose = @ \/ Running(r) # {}]
  <2>1. PICK w, b : /\ w = [status |-> "APPROVED", edited |-> approvals[r].edited]
                    /\ b = (approvals[r].loose \/ Running(r) # {}) /\ b \in BOOLEAN
    BY Zenon
  <2>2. w \in Words /\ w.status = "APPROVED" /\ w.edited = approvals[r].edited /\ "execute" \in Points
    BY <1>2, <2>1, Zenon DEF Words, LedgerRows, Statuses, Points, Trying
  <2>3. /\ call' \in [Callers -> CallStates] /\ Alone(c)
        /\ call'[c].at = "execute" /\ call'[c].row = call[c].row /\ call'[c].said = w
    <3>1. call \in [Callers -> CallStates] /\ Tell(c, "execute", w)
      BY <1>2, <1>4, <2>1, Zenon DEF Types
    <3> QED
      BY <2>2, <3>1, HearEffect, Zenon
  <2> DEFINE x == [approvals[r] EXCEPT !.loose = b]
  <2>4. /\ x \in LedgerRows /\ x.runs = approvals[r].runs /\ x.status = approvals[r].status
        /\ x.edited = approvals[r].edited /\ x.call = approvals[r].call /\ x.loose = b
        /\ x.consumed = approvals[r].consumed /\ x.tries = approvals[r].tries /\ x.socket = approvals[r].socket
    BY <1>2, <2>1, Zenon DEF LedgerRows
  <2>5. approvals' = [approvals EXCEPT ![r] = x]
    BY <1>4, <2>1, Zenon
  <2> HIDE DEF x
  <2>6. Tried(c, r, x, "execute")
    BY <1>1, <1>2, <1>4, <2>1, <2>2, <2>3, <2>4, <2>5, Zenon DEF Tried
  <2>7. ASSUME approvals'[r] = x, ~x.loose PROVE OneTry(r)'
    <3>1. ~approvals[r].loose /\ Running(r) = {}
      BY <2>1, <2>4, <2>7, Zenon
    <3>2. OneTry(r) /\ \A d \in Callers : ~Runs(d, r)
      BY <1>2, <3>1, Zenon DEF ApprovalsInv, RowOK, Running, Runs
    <3>3. approvals[r].tries = 0
      BY <1>4, <3>2, Zenon DEF OneTry
    <3>4. \A d \in Callers : Runs(d, r)' <=> d = c
      BY <1>1, <2>3, <3>2, Zenon DEF Runs, Alone
    <3> QED
      BY <1>4, <2>4, <2>7, <3>3, <3>4 DEF OneTry
  <2> QED
    BY <2>6, <2>7, TriedStep, Zenon
<1> QED
  BY <1>1, <1>3, <1>4, Zenon DEF Poll

\* The execution and its mark: nobody else works on the row, or it is loose.
LEMMA ExecuteStep ==
    ASSUME ApprovalsInv, plan' = plan, NEW c \in Callers, Execute(c) \/ Consume(c)
    PROVE  Safe
<1>1. PICK r : r = call[c].row
  BY Zenon
<1>2. /\ Types /\ CallerOK(c) /\ r \in Rows /\ call[c].at \in {"execute", "consume"}
      /\ call[c].at \in Trying /\ approvals[r] \in LedgerRows /\ UNCHANGED <<box, answer>>
      /\ approvals[r].status = "APPROVED" /\ Runs(c, r)
  BY <1>1 DEF ApprovalsInv, Execute, Consume, At, CallerOK, Types, Rows, Trying, Runs
<1>3. ASSUME NEW p \in {"consume", "end"}, Goto(c, p)
      PROVE  /\ call' \in [Callers -> CallStates] /\ Alone(c)
             /\ call'[c].at = p /\ call'[c].row = r /\ call'[c].said = call[c].said
  BY <1>1, <1>2, <1>3, GotoEffect, Zenon DEF Types, Points, Trying
<1>4. ASSUME NEW x \in LedgerRows, NEW p \in {"consume", "end"}, Goto(c, p),
             approvals' = [approvals EXCEPT ![r] = x],
             x.status = approvals[r].status, x.edited = approvals[r].edited, x.call = approvals[r].call,
             x.socket = approvals[r].socket, x.runs = approvals[r].runs, approvals[r].loose => x.loose
      PROVE  Tried(c, r, x, p)
  BY <1>1, <1>2, <1>3, <1>4, Zenon DEF Tried
<1>5. approvals[r].loose \/ OneTry(r)
  BY <1>2, Zenon DEF ApprovalsInv, RowOK
<1>6. CASE Execute(c)
  <2>0. call[c].at = "execute"
    BY <1>6, Zenon DEF Execute, At
  <2>1. CASE Goto(c, "consume") /\ approvals' = [approvals EXCEPT ![r].tries = @ + 1]
    <3> DEFINE x == [approvals[r] EXCEPT !.tries = @ + 1]
    <3>1. /\ x \in LedgerRows /\ x.tries = approvals[r].tries + 1 /\ x.status = approvals[r].status
          /\ x.edited = approvals[r].edited /\ x.call = approvals[r].call /\ x.loose = approvals[r].loose
          /\ x.consumed = approvals[r].consumed /\ x.runs = approvals[r].runs /\ x.socket = approvals[r].socket
      BY <1>2 DEF LedgerRows
    <3>2. approvals' = [approvals EXCEPT ![r] = x]
      BY <2>1, Zenon
    <3> HIDE DEF x
    <3>3. Tried(c, r, x, "consume")
      BY <1>4, <2>1, <3>1, <3>2, Zenon
    <3>4. ASSUME approvals'[r] = x, ~x.loose PROVE OneTry(r)'
      <4>1. /\ OneTry(r) /\ approvals[r].tries = 0 /\ approvals'[r].tries = 1
            /\ \A d \in Callers : Runs(d, r) => d = c
        BY <1>2, <1>5, <2>0, <3>1, <3>4 DEF OneTry
      <4>2. \A d \in Callers : Runs(d, r)' <=> d = c
        BY <1>2, <1>3, <2>1, <4>1, Zenon DEF Runs, Alone
      <4>3. call'[c].at = "consume" /\ ~approvals'[r].consumed
        BY <1>2, <1>3, <2>1, <3>1, <3>4, <4>1, Zenon DEF OneTry
      <4> QED
        BY <4>1, <4>2, <4>3 DEF OneTry
    <3> QED
      BY <3>3, <3>4, TriedStep, Zenon
  <2>2. CASE /\ Goto(c, "end")
             /\ approvals' = [approvals EXCEPT ![r].tries = @ + 1, ![r].loose = TRUE]
    <3> DEFINE y == [approvals[r] EXCEPT !.tries = @ + 1]
               x == [y EXCEPT !.loose = TRUE]
    <3>0. /\ y \in LedgerRows /\ y.status = approvals[r].status /\ y.edited = approvals[r].edited
          /\ y.call = approvals[r].call /\ y.runs = approvals[r].runs /\ y.socket = approvals[r].socket
      BY <1>2 DEF LedgerRows
    <3>2. approvals' = [approvals EXCEPT ![r] = x]
      BY <2>2, Zenon
    <3> HIDE DEF y
    <3>1. /\ x \in LedgerRows /\ x.status = approvals[r].status /\ x.edited = approvals[r].edited
          /\ x.call = approvals[r].call /\ x.runs = approvals[r].runs /\ x.socket = approvals[r].socket /\ x.loose
      BY <3>0, Zenon DEF LedgerRows
    <3> HIDE DEF x
    <3>3. Tried(c, r, x, "end")
      BY <1>4, <2>2, <3>1, <3>2, Zenon
    <3> QED
      BY <3>1, <3>3, TriedStep, Zenon
  <2> QED
    BY <1>1, <1>6, <2>1, <2>2, Zenon DEF Execute
<1>7. CASE Consume(c)
  <2>0. call[c].at = "consume" /\ Goto(c, "end")
    BY <1>7, Zenon DEF Consume, At
  <2>1. CASE approvals' = [approvals EXCEPT ![r].consumed = TRUE]
    <3> DEFINE x == [approvals[r] EXCEPT !.consumed = TRUE]
    <3>1. /\ x \in LedgerRows /\ x.runs = approvals[r].runs /\ x.status = approvals[r].status
          /\ x.edited = approvals[r].edited /\ x.call = approvals[r].call /\ x.loose = approvals[r].loose
          /\ x.consumed /\ x.tries = approvals[r].tries /\ x.socket = approvals[r].socket
      BY <1>2, Zenon DEF LedgerRows
    <3>2. approvals' = [approvals EXCEPT ![r] = x]
      BY <2>1, Zenon
    <3> HIDE DEF x
    <3>3. Tried(c, r, x, "end")
      BY <1>4, <2>0, <3>1, <3>2, Zenon
    <3>4. ASSUME approvals'[r] = x, ~x.loose PROVE OneTry(r)'
      <4>1. OneTry(r) /\ approvals'[r].tries <= 1 /\ \A d \in Callers : Runs(d, r) => d = c
        BY <1>2, <1>5, <3>1, <3>4, Zenon DEF OneTry
      <4>2. \A d \in Callers : ~Runs(d, r)'
        BY <1>3, <2>0, <4>1, Zenon DEF Runs, Alone
      <4> QED
        BY <3>1, <3>4, <4>1, <4>2, Zenon DEF OneTry
    <3> QED
      BY <3>3, <3>4, TriedStep, Zenon
  <2>2. CASE approvals' = [approvals EXCEPT ![r].loose = TRUE]
    <3> DEFINE x == [approvals[r] EXCEPT !.loose = TRUE]
    <3>1. /\ x \in LedgerRows /\ x.status = approvals[r].status /\ x.edited = approvals[r].edited
          /\ x.call = approvals[r].call /\ x.runs = approvals[r].runs /\ x.socket = approvals[r].socket /\ x.loose
      BY <1>2, Zenon DEF LedgerRows
    <3>2. approvals' = [approvals EXCEPT ![r] = x]
      BY <2>2, Zenon
    <3> HIDE DEF x
    <3>3. Tried(c, r, x, "end")
      BY <1>4, <2>0, <3>1, <3>2, Zenon
    <3> QED
      BY <3>1, <3>3, TriedStep, Zenon
  <2> QED
    BY <1>1, <1>7, <2>1, <2>2, Zenon DEF Consume
<1> QED
  BY <1>6, <1>7, Zenon

----------------------------------------------------------------------------
(* Steps of an operator, and of time.                                      *)

\* An operator that answers about row r.
Answers(h, r) ==
    /\ Types' /\ plan' = plan /\ call' = call /\ Rows' = Rows
    /\ \A g \in Operators : g # h => answer'[g] = answer[g]
    /\ AnswerOK(h)' /\ answer'[h].row = r /\ (answer[h].at = "push" => answer[h].row = r)
    /\ \A q \in Rows : Stands(q)
    /\ \A q \in Rows : q # r => approvals'[q] = approvals[q] /\ box'[q] = box[q]

\* An answer disturbs no other row.
LEMMA AnswersStep ==
    ASSUME ApprovalsInv, NEW h \in Operators, NEW r, Answers(h, r), r \in Rows => RowOK(r)'
    PROVE  Safe
<1>1. \A q \in Rows : Stands(q)
  BY Zenon DEF Answers
<1>2. \A d \in Callers : CallerOK(d)'
  BY <1>1, CallerStays, Zenon DEF ApprovalsInv, Answers
<1>3. \A g \in Operators : AnswerOK(g)'
  BY <1>1, AnswerStays, Zenon DEF ApprovalsInv, Answers
<1>4. ASSUME NEW q \in Rows, q # r PROVE RowOK(q)'
  <2>1. \A g \in Operators : Pushes(g, q)' => Pushes(g, q) /\ answer'[g].said = answer[g].said
    BY <1>4, Zenon DEF Answers, Pushes, Via
  <2>2. \A d \in Callers :
          /\ call'[d].row = q /\ call'[d].said.status = "APPROVED" =>
                call[d].row = q /\ call'[d].said = call[d].said
          /\ Carries(d, q)' => Carries(d, q)
          /\ Runs(d, q)' <=> Runs(d, q)
          /\ Runs(d, q) => call'[d].at = call[d].at
    BY Zenon DEF Answers, Carries, Runs
  <2>3. Calm(q)
    BY <1>1, <1>4, <2>1, <2>2, Zenon DEF Calm, Answers
  <2> QED
    BY <2>3, <1>4, RowStays, Zenon DEF ApprovalsInv
<1> QED
  BY <1>1, <1>2, <1>3, <1>4, Zenon DEF ApprovalsInv, Answers, Safe

\* Moving an operator.
LEMMA AnswerEffect ==
    ASSUME Types, NEW h \in Operators, NEW p \in {"claim", "push", "end"},
           answer' = [answer EXCEPT ![h].at = p]
    PROVE  /\ answer' \in [Operators -> AnswerStates]
           /\ \A g \in Operators : g # h => answer'[g] = answer[g]
           /\ answer'[h].at = p /\ answer'[h].row = answer[h].row /\ answer'[h].said = answer[h].said
<1> DEFINE x == [answer[h] EXCEPT !.at = p]
<1>1. x \in AnswerStates /\ x.at = p /\ x.row = answer[h].row /\ x.said = answer[h].said
  BY Zenon DEF Types, AnswerStates
<1>2. answer' = [answer EXCEPT ![h] = x]
  BY Zenon
<1> HIDE DEF x
<1> QED
  BY <1>1, <1>2, Zenon DEF Types

\* An operator makes up their mind.
LEMMA DecideStep ==
    ASSUME ApprovalsInv, plan' = plan, NEW h \in Operators, Decide(h)
    PROVE  Safe
<1>1. PICK r \in Rows, w \in Decisions(Via(h)) :
         answer' = [answer EXCEPT ![h] =
                      [at |-> IF Via(h) = "socket" THEN "push" ELSE "claim", row |-> r, said |-> w]]
  BY Zenon DEF Decide
<1>2. /\ Types /\ UNCHANGED <<approvals, box, call>> /\ Rows' = Rows /\ answer[h].at = "idle" /\ r \in Nat
      /\ \A g \in Operators : AnswerOK(g)
  BY DEF ApprovalsInv, Decide, Types, Rows
<1>3. w \in Verdicts
  <2>1. /\ [status : {"APPROVED", "REJECTED"}, edited : {FALSE}] \subseteq Verdicts
        /\ [status |-> "APPROVED", edited |-> TRUE] \in Verdicts
        /\ [status |-> "EXPIRED", edited |-> FALSE] \in Verdicts
    BY Zenon DEF Verdicts, Statuses
  <2> QED
    BY <2>1, Zenon DEF Decisions
<1>4. PICK p \in {"claim", "push"} :
         /\ p = "push" => Via(h) = "socket"
         /\ answer' = [answer EXCEPT ![h] = [at |-> p, row |-> r, said |-> w]]
  BY <1>1, Zenon
<1> DEFINE x == [at |-> p, row |-> r, said |-> w]
<1>5. x \in AnswerStates /\ x.at = p /\ x.row = r /\ x.said = w
  BY <1>2, <1>3, Zenon DEF AnswerStates, Verdicts, Words
<1> HIDE DEF x
<1>6. /\ answer' \in [Operators -> AnswerStates] /\ answer'[h] = x
      /\ \A g \in Operators : g # h => answer'[g] = answer[g]
  BY <1>2, <1>4, <1>5, Zenon DEF Types, x
<1>7. Types' /\ \A q \in Rows : Stands(q)
  BY <1>2, <1>6, Zenon DEF Types, Stands
<1>8. Answers(h, r)
  BY <1>2, <1>3, <1>4, <1>5, <1>6, <1>7, Zenon DEF Answers, AnswerOK, Via
<1>9. Calm(r)
  <2>1. \A g \in Operators : Pushes(g, r)' => Pushes(g, r) /\ answer'[g].said = answer[g].said
    BY <1>4, <1>5, <1>6, Zenon DEF Pushes, Via
  <2> QED
    BY <1>2, <1>7, <2>1, Zenon DEF Calm, Carries, Runs
<1>10. RowOK(r)'
  BY <1>2, <1>9, RowStays, Zenon DEF ApprovalsInv
<1> QED
  BY <1>8, <1>10, AnswersStep, Zenon

\* resolve: the one who decides the row goes on to push, and nobody else.
LEMMA ClaimStep ==
    ASSUME ApprovalsInv, plan' = plan, NEW h \in Operators, Claim(h)
    PROVE  Safe
<1>1. PICK r, w : r = answer[h].row /\ w = answer[h].said
  BY Zenon
<1>2. /\ Types /\ AnswerOK(h) /\ r \in Rows /\ w \in Verdicts /\ w \in Words /\ answer[h].at = "claim"
      /\ UNCHANGED <<box, call>>
  BY <1>1, Zenon DEF ApprovalsInv, Claim, AnswerOK, Verdicts, Words
<1>3. /\ approvals' \in Seq(LedgerRows) /\ Len(approvals') = Len(approvals) /\ Rows' = Rows
      /\ \A q \in Rows : q # r \/ approvals[q].status # "PENDING" => approvals'[q] = approvals[q]
      /\ \A q \in Rows : /\ approvals'[q].call = approvals[q].call /\ approvals'[q].tries = approvals[q].tries
                         /\ approvals'[q].loose = approvals[q].loose /\ approvals'[q].socket = approvals[q].socket
                         /\ approvals'[q].consumed = approvals[q].consumed
                         /\ approvals'[q].runs = approvals[q].runs
  <2>1. CASE approvals' = resolve(r, w)
    BY <1>2, <2>1, ResolveEffect, Zenon
  <2>2. CASE approvals' = approvals
    BY <1>2, <2>2, Zenon DEF Types, Rows
  <2> QED
    BY <1>1, <2>1, <2>2, Zenon DEF Claim
<1>4. \A q \in Rows : Stands(q)
  BY <1>3, Zenon DEF Stands
<1>5. PICK p \in {"push", "end"} :
         /\ answer' = [answer EXCEPT ![h].at = p]
         /\ p = "push" => /\ Via(h) = "http" /\ approvals[r].status = "PENDING"
                          /\ approvals' = resolve(r, w)
  BY <1>1, Zenon DEF Claim
<1>6. /\ answer' \in [Operators -> AnswerStates]
      /\ \A g \in Operators : g # h => answer'[g] = answer[g]
      /\ answer'[h].at = p /\ answer'[h].row = r /\ answer'[h].said = w
  BY <1>1, <1>2, <1>5, AnswerEffect, Zenon
<1>7. Types'
  BY <1>2, <1>3, <1>6, Zenon DEF Types
<1>8. Answers(h, r)
  BY <1>2, <1>3, <1>4, <1>5, <1>6, <1>7 DEF Answers, AnswerOK, Via
<1>9. CASE p = "end"
  <2>1. \A g \in Operators : Pushes(g, r)' => Pushes(g, r) /\ answer'[g].said = answer[g].said
    BY <1>6, <1>9, Zenon DEF Pushes, Via
  <2>2. Calm(r)
    BY <1>2, <1>3, <1>4, <2>1, Zenon DEF Calm, Carries, Runs
  <2>3. RowOK(r)'
    BY <1>2, <2>2, RowStays, Zenon DEF ApprovalsInv
  <2> QED
    BY <1>8, <2>3, AnswersStep, Zenon
<1>10. CASE p = "push"
  <2>1. /\ approvals[r].status = "PENDING" /\ Via(h) = "http" /\ ~approvals[r].consumed
        /\ approvals'[r].status = w.status /\ approvals'[r].edited = w.edited
    BY <1>2, <1>5, <1>10, ResolveEffect DEF Recorded, ApprovalsInv, RowOK
  <2>4. ASSUME OneTry(r) PROVE OneTry(r)'
    BY <1>2, <1>3, <2>4, Zenon DEF OneTry, Runs
  <2>2. ASSUME ~approvals[r].socket
        PROVE  Matched(r)' /\ OneToken(r)'
    <3>1. Matched(r) /\ OneToken(r)
      BY <1>2, <2>2, Zenon DEF ApprovalsInv, RowOK
    <3>2. /\ \A g \in Operators : ~Pushes(g, r)
          /\ box[r] = << >>
          /\ \A c \in Callers : ~(call[c].row = r /\ call[c].said.status = "APPROVED")
      BY <1>2, <2>1, <3>1, PendingIsEmpty, Zenon DEF ApprovalsInv
    <3>3. \A g \in Operators : Pushes(g, r)' => g = h
      BY <1>6, <3>2, Zenon DEF Pushes, Via
    <3>4. Len(box'[r]) = 0 /\ box'[r] = << >> /\ \A c \in Callers : ~Carries(c, r)'
      BY <1>2, <3>2, Zenon DEF Carries
    <3>5. Matched(r)'
      BY <1>2, <1>6, <2>1, <3>2, <3>3, <3>4 DEF Matched, Recorded
    <3>7. OneToken(r)'
      BY <1>2, <1>3, <2>1, <3>1, <3>3, <3>4, Zenon DEF OneToken
    <3> QED
      BY <3>5, <3>7, Zenon
  <2>3. RowOK(r)'
    BY <1>2, <1>3, <2>1, <2>2, <2>4, Zenon DEF RowOK, ApprovalsInv
  <2> QED
    BY <1>8, <2>3, AnswersStep, Zenon
<1> QED
  BY <1>9, <1>10, Zenon

\* RPUSH: the decision goes from the operator to the list; over a socket it is
\* not in the ledger yet.
LEMMA PushStep ==
    ASSUME ApprovalsInv, plan' = plan, NEW h \in Operators, Push(h)
    PROVE  Safe
<1>1. PICK r, w : r = answer[h].row /\ w = answer[h].said
  BY Zenon
<1>2. /\ Types /\ AnswerOK(h) /\ r \in Rows /\ w \in Verdicts /\ answer[h].at = "push"
      /\ call' = call /\ Via(h) \in {"http", "socket"} /\ approvals[r] \in LedgerRows
  BY <1>1 DEF ApprovalsInv, Push, AnswerOK, Types, Rows
<1>3. PICK t \in BOOLEAN, b \in BOOLEAN :
         /\ b = (approvals[r].socket \/ Via(h) = "socket")
         /\ approvals' = [approvals EXCEPT ![r].told = t, ![r].socket = b]
  BY <1>1, Zenon DEF Push
<1> DEFINE x == [[approvals[r] EXCEPT !.told = t] EXCEPT !.socket = b]
<1>4. /\ x \in LedgerRows /\ x.runs = approvals[r].runs /\ x.status = approvals[r].status
      /\ x.edited = approvals[r].edited /\ x.call = approvals[r].call /\ x.socket = b
      /\ x.consumed = approvals[r].consumed /\ x.tries = approvals[r].tries /\ x.loose = approvals[r].loose
  BY <1>2, Zenon DEF LedgerRows
<1>5. approvals' = [approvals EXCEPT ![r] = x]
  BY <1>3, Zenon
<1> HIDE DEF x
<1>6. /\ approvals' \in Seq(LedgerRows) /\ Len(approvals') = Len(approvals) /\ Rows' = Rows
      /\ approvals'[r] = x /\ \A q \in Rows : q # r => approvals'[q] = approvals[q]
  BY <1>2, <1>4, <1>5, UpdateEffect, Zenon
<1>7. \A q \in Rows : Stands(q)
  BY <1>3, <1>4, <1>6, Zenon DEF Stands
<1>8. /\ box' \in Seq(Seq(Verdicts)) /\ Len(box') = Len(box)
      /\ box'[r] \in {box[r], Append(box[r], w)} /\ \A q \in Rows : q # r => box'[q] = box[q]
  <2>1. /\ r \in 1 .. Len(box) /\ Append(box[r], w) \in Seq(Verdicts)
        /\ \A q \in Rows : q \in 1 .. Len(box)
    BY <1>2 DEF Types, Rows
  <2>2. CASE box' = box
    BY <1>2, <2>2, Zenon DEF Types
  <2>3. CASE box' = [box EXCEPT ![r] = Append(box[r], w)]
    BY <1>2, <2>1, <2>3 DEF Types
  <2> QED
    BY <1>1, <2>2, <2>3, Zenon DEF Push
<1>9. PICK p \in {"claim", "end"} : answer' = [answer EXCEPT ![h].at = p]
  BY <1>1, Zenon DEF Push
<1>10. /\ answer' \in [Operators -> AnswerStates]
       /\ \A g \in Operators : g # h => answer'[g] = answer[g]
       /\ answer'[h].at = p /\ answer'[h].row = r /\ answer'[h].said = w
  BY <1>1, <1>2, <1>9, AnswerEffect, Zenon
<1>11. Types'
  BY <1>2, <1>6, <1>8, <1>10, Zenon DEF Types
<1>12. Answers(h, r)
  BY <1>1, <1>2, <1>6, <1>7, <1>8, <1>10, <1>11, Zenon DEF Answers, AnswerOK
<1>13. ASSUME ~b
       PROVE  Matched(r)' /\ OneToken(r)'
  <2>1. Pushes(h, r) /\ ~approvals[r].socket
    BY <1>1, <1>2, <1>3, <1>13, Zenon DEF Pushes
  <2>2. Matched(r) /\ OneToken(r)
    BY <1>2, <2>1, Zenon DEF ApprovalsInv, RowOK
  <2>3. Recorded(r, w) /\ approvals[r].status # "PENDING"
    BY <1>1, <1>2, <2>1, <2>2, Zenon DEF Matched, Recorded, Verdicts
  <2>4. \A g \in Operators : Pushes(g, r)' => Pushes(g, r) /\ g # h /\ answer'[g].said = answer[g].said
    BY <1>10, Zenon DEF Pushes, Via
  <2>5. \A i \in 1 .. Len(box'[r]) : Recorded(r, box'[r][i])
    <3>1. box[r] \in Seq(Verdicts) /\ \A i \in 1 .. Len(box[r]) : Recorded(r, box[r][i])
      <4>1. box[r] \in Seq(Verdicts)
        BY <1>2 DEF Types, Rows
      <4> QED
        BY <2>2, <4>1, Zenon DEF Matched
    <3>2. CASE box'[r] = box[r]
      BY <3>1, <3>2, Zenon
    <3>3. CASE box'[r] = Append(box[r], w)
      BY <1>2, <2>3, <3>1, <3>3
    <3> QED
      BY <1>8, <3>2, <3>3, Zenon
  <2>6. Matched(r)'
    BY <1>2, <1>4, <1>6, <2>2, <2>4, <2>5 DEF Matched, Recorded
  <2>8. OneToken(r)'
    <3>1. /\ approvals[r].runs = 0 /\ box[r] = << >> /\ \A c \in Callers : ~Carries(c, r)
          /\ \A g \in Operators : ~Pushes(g, r)'
      BY <2>1, <2>2, <2>4, Zenon DEF OneToken
    <3>2. Len(box'[r]) <= 1
      <4>1. Len(<< >>) = 0 /\ Len(Append(<< >>, w)) = 1
        OBVIOUS
      <4>2. PICK s : s = box'[r] /\ (s = << >> \/ s = Append(<< >>, w))
        BY <1>8, <3>1, Zenon
      <4>3. Len(s) = 0 \/ Len(s) = 1
        BY <4>1, <4>2, Zenon
      <4>4. Len(s) <= 1
        <5>1. 0 <= 1 /\ 1 <= 1
          OBVIOUS
        <5> QED
          BY <4>3, <5>1, Zenon
      <4> QED
        BY <4>2, <4>4, Zenon
    <3>3. approvals'[r].runs = 0 /\ \A c \in Callers : ~Carries(c, r)'
      BY <1>2, <1>4, <1>6, <3>1, Zenon DEF Carries
    <3> QED
      BY <3>1, <3>2, <3>3 DEF OneToken
  <2> QED
    BY <2>6, <2>8, Zenon
<1>15. ASSUME OneTry(r) PROVE OneTry(r)'
  BY <1>2, <1>4, <1>6, <1>15, Zenon DEF OneTry, Runs
<1>14. RowOK(r)'
  BY <1>2, <1>4, <1>6, <1>13, <1>15, Zenon DEF RowOK, ApprovalsInv
<1> QED
  BY <1>12, <1>14, AnswersStep, Zenon

\* Deadlines pass, the sweep expires what is overdue, Redis drops a list.
LEMMA TimeStep ==
    ASSUME ApprovalsInv, plan' = plan, (\E r \in Rows : Late(r) \/ DropKey(r)) \/ Sweep
    PROVE  Safe
<1>1. Types /\ UNCHANGED <<call, answer>> /\ \A q \in Rows : approvals[q] \in LedgerRows
  BY DEF ApprovalsInv, Late, DropKey, Sweep, Types, Rows
<1> DEFINE Good ==
      /\ approvals' \in Seq(LedgerRows) /\ Len(approvals') = Len(approvals) /\ Rows' = Rows
      /\ box' \in Seq(Seq(Verdicts)) /\ Len(box') = Len(box)
      /\ \A q \in Rows : /\ box'[q] \in {box[q], << >>} /\ Stands(q)
                         /\ approvals'[q].consumed = approvals[q].consumed
                         /\ approvals'[q].runs = approvals[q].runs
                         /\ approvals'[q].tries = approvals[q].tries
<1>2. ASSUME NEW r \in Rows, Late(r) PROVE Good
  <2> DEFINE x == [approvals[r] EXCEPT !.late = TRUE]
  <2>1. /\ x \in LedgerRows /\ x.runs = approvals[r].runs /\ x.status = approvals[r].status
        /\ x.edited = approvals[r].edited /\ x.call = approvals[r].call /\ x.loose = approvals[r].loose
        /\ x.consumed = approvals[r].consumed /\ x.tries = approvals[r].tries /\ x.socket = approvals[r].socket
    BY <1>1, <1>2, Zenon DEF LedgerRows
  <2>2. approvals' = [approvals EXCEPT ![r] = x] /\ box' = box
    BY <1>2, Zenon DEF Late
  <2> HIDE DEF x
  <2>3. /\ approvals' \in Seq(LedgerRows) /\ Len(approvals') = Len(approvals) /\ Rows' = Rows
        /\ approvals'[r] = x /\ \A q \in Rows : q # r => approvals'[q] = approvals[q]
    BY <1>1, <1>2, <2>1, <2>2, UpdateEffect, Zenon
  <2> QED
    BY <1>1, <2>1, <2>2, <2>3, Zenon DEF Types, Stands
<1>3. ASSUME NEW r \in Rows, DropKey(r) PROVE Good
  <2>1. /\ r \in 1 .. Len(box) /\ << >> \in Seq(Verdicts) /\ approvals' = approvals /\ Rows' = Rows
        /\ box' = [box EXCEPT ![r] = << >>] /\ \A q \in Rows : q \in 1 .. Len(box)
    BY <1>1, <1>3 DEF DropKey, Types, Rows
  <2>2. box' \in Seq(Seq(Verdicts)) /\ Len(box') = Len(box) /\ \A q \in Rows : box'[q] \in {box[q], << >>}
    BY <1>1, <2>1 DEF Types
  <2> QED
    BY <1>1, <2>1, <2>2, Zenon DEF Types, Stands
<1>4. ASSUME Sweep PROVE Good
  <2>1. /\ Rows = 1 .. Len(approvals) /\ Len(approvals) \in Nat /\ box' = box
        /\ approvals' = [q \in Rows |-> IF q \in findExpired THEN [approvals[q] EXCEPT !.status = "EXPIRED"]
                                                            ELSE approvals[q]]
    BY <1>1, <1>4 DEF Sweep, Types, Rows
  <2>2. ASSUME NEW q \in Rows
        PROVE  /\ approvals'[q] \in LedgerRows /\ approvals'[q].call = approvals[q].call
               /\ approvals'[q].tries = approvals[q].tries /\ approvals'[q].socket = approvals[q].socket
               /\ approvals'[q].loose = approvals[q].loose /\ approvals'[q].consumed = approvals[q].consumed
               /\ approvals'[q].runs = approvals[q].runs
               /\ approvals[q].status # "PENDING" => approvals'[q] = approvals[q]
    <3> DEFINE x == [approvals[q] EXCEPT !.status = "EXPIRED"]
    <3>1. /\ x \in LedgerRows /\ x.call = approvals[q].call /\ x.loose = approvals[q].loose
          /\ x.tries = approvals[q].tries /\ x.socket = approvals[q].socket
          /\ x.consumed = approvals[q].consumed /\ x.runs = approvals[q].runs
      BY <1>1, <2>2, Zenon DEF LedgerRows, Statuses
    <3>2. approvals'[q] = IF q \in findExpired THEN x ELSE approvals[q]
      BY <2>1, <2>2, Zenon
    <3> HIDE DEF x
    <3> QED
      BY <1>1, <2>2, <3>1, <3>2, Zenon DEF findExpired
  <2>3. approvals' \in Seq(LedgerRows) /\ Len(approvals') = Len(approvals) /\ Rows' = Rows
    BY <2>1, <2>2 DEF Rows
  <2>4. \A q \in Rows : Stands(q)
    BY <2>2, <2>3, Zenon DEF Stands
  <2> QED
    BY <1>1, <2>1, <2>2, <2>3, <2>4, Zenon DEF Types
<1>5. Good
  BY <1>2, <1>3, <1>4, Zenon
<1>6. Types' /\ \A q \in Rows : Stands(q)
  BY <1>1, <1>5, Zenon DEF Types
<1>7. \A d \in Callers : CallerOK(d)'
  BY <1>1, <1>6, CallerStays, Zenon DEF ApprovalsInv
<1>8. \A g \in Operators : AnswerOK(g)'
  BY <1>1, <1>6, AnswerStays, Zenon DEF ApprovalsInv
<1>9. ASSUME NEW q \in Rows PROVE RowOK(q)'
  <2>1. Calm(q)
    BY <1>1, <1>5, <1>9, Zenon DEF Calm, Pushes, Carries, Runs, Via
  <2> QED
    BY <1>9, <2>1, RowStays, Zenon DEF ApprovalsInv
<1> QED
  BY <1>5, <1>6, <1>7, <1>8, <1>9, Zenon DEF ApprovalsInv, Safe

----------------------------------------------------------------------------
(* The invariant and what follows from it.                                 *)

\* Every step of Next keeps the invariant and every row stands.
LEMMA NextSafe == ApprovalsInv /\ Next => Safe
<1> SUFFICES ASSUME ApprovalsInv, Next PROVE Safe
  BY Zenon
<1>1. plan' = plan
  BY Zenon DEF Next
<1>2. ASSUME NEW c \in Callers,
             \/ Find(c) \/ Create(c) \/ FindAgain(c) \/ Ask(c) \/ Resend(c)
             \/ TimeOut(c) \/ WaitFails(c) \/ Crash(c)
      PROVE  Safe
  BY <1>1, <1>2, FindKept, GiveUpKept, QuietStep, Zenon DEF Safe
<1>3. ASSUME NEW c \in Callers, Wake(c) \/ Record(c) \/ Cleanup(c) \/ Poll(c) \/ Execute(c) \/ Consume(c)
      PROVE  Safe
  BY <1>1, <1>3, WakeStep, RecordStep, CleanupStep, PollStep, ExecuteStep, Zenon
<1>4. ASSUME NEW h \in Operators, Decide(h) \/ Claim(h) \/ Push(h) PROVE Safe
  BY <1>1, <1>4, DecideStep, ClaimStep, PushStep, Zenon
<1>5. ASSUME (\E r \in Rows : Late(r) \/ DropKey(r)) \/ Sweep PROVE Safe
  BY <1>1, <1>5, TimeStep, Zenon
<1> QED
  BY <1>2, <1>3, <1>4, <1>5, Zenon DEF Next, Progress, Step

\* The initial state satisfies the invariant.
LEMMA ApprovalsInit == Init => ApprovalsInv
<1> SUFFICES ASSUME Init PROVE ApprovalsInv
  BY Zenon
<1>1. /\ approvals = << >> /\ box = << >> /\ Rows = {} /\ Nothing \in Words /\ Nothing.status = "PENDING"
      /\ approvals \in Seq(LedgerRows) /\ box \in Seq(Seq(Verdicts)) /\ Len(box) = Len(approvals)
  BY DEF Init, Rows, Nothing, Words, Statuses
<1>2. /\ [at |-> "idle", row |-> 0, said |-> Nothing] \in CallStates
      /\ [at |-> "idle", row |-> 0, said |-> Nothing] \in AnswerStates
  BY <1>1, Zenon DEF CallStates, AnswerStates, Points, Silent
<1>3. /\ \A c \in Callers : call[c].at = "idle" /\ call[c].row = 0 /\ call[c].said = Nothing
      /\ \A h \in Operators : answer[h].at = "idle"
  BY Zenon DEF Init
<1>4. Types
  BY <1>1, <1>2, Zenon DEF Types, Init
<1>5. \A c \in Callers : CallerOK(c)
  BY <1>1, <1>3, Zenon DEF CallerOK, Waiting, Trying
<1>6. \A h \in Operators : AnswerOK(h)
  BY <1>3, Zenon DEF AnswerOK
<1> QED
  BY <1>1, <1>4, <1>5, <1>6, Zenon DEF ApprovalsInv

\* A stuttering step keeps the invariant.
LEMMA ApprovalsStutter == ApprovalsInv /\ UNCHANGED vars => ApprovalsInv'
<1> SUFFICES ASSUME ApprovalsInv, UNCHANGED vars PROVE ApprovalsInv'
  BY Zenon
<1>1. /\ plan' = plan /\ approvals' = approvals /\ box' = box /\ call' = call /\ answer' = answer
      /\ Rows' = Rows
  BY Zenon DEF vars, Rows
<1>2. Types' /\ \A q \in Rows : Stands(q)
  BY <1>1, Zenon DEF ApprovalsInv, Types, Stands
<1>3. \A d \in Callers : CallerOK(d)'
  BY <1>1, <1>2, CallerStays, Zenon DEF ApprovalsInv
<1>4. \A g \in Operators : AnswerOK(g)'
  BY <1>1, <1>2, AnswerStays, Zenon DEF ApprovalsInv
<1>5. ASSUME NEW q \in Rows PROVE RowOK(q)'
  <2>1. Calm(q)
    BY <1>1, <1>2, <1>5, Zenon DEF Calm, Pushes, Carries, Runs, Via
  <2> QED
    BY <1>5, <2>1, RowStays, Zenon DEF ApprovalsInv
<1> QED
  BY <1>1, <1>2, <1>3, <1>4, <1>5, Zenon DEF ApprovalsInv

\* The inductive invariant: a decision under way is the ledger's and is in one
\* place, and a try that executes works alone.
THEOREM ApprovalsInvariant == Spec => []ApprovalsInv
<1>1. ApprovalsInv /\ [Next]_vars => ApprovalsInv'
  BY NextSafe, ApprovalsStutter, Zenon DEF Safe
<1> QED
  BY ApprovalsInit, <1>1, PTL DEF Spec

\* Types; a consumed approval was given; callers and operators hold rows that exist.
THEOREM ApprovalsTypeCorrect == Spec => []ApprovalsTypeOK
<1>1. ApprovalsInv => ApprovalsTypeOK
  <2> SUFFICES ASSUME ApprovalsInv PROVE ApprovalsTypeOK
    BY Zenon
  <2>1. \A r \in Rows : approvals[r].status \in Statuses
    <3>1. approvals \in Seq(LedgerRows)
      BY Zenon DEF ApprovalsInv, Types
    <3>2. \A r \in Rows : approvals[r] \in LedgerRows
      BY <3>1 DEF Rows
    <3> QED
      BY <3>2, Zenon DEF LedgerRows
  <2>2. \A r \in Rows : approvals[r].consumed => approvals[r].status = "APPROVED"
    BY Zenon DEF ApprovalsInv, RowOK
  <2> QED
    BY <2>1, <2>2, OnRows, Zenon DEF ApprovalsTypeOK, Statuses
<1> QED
  BY ApprovalsInvariant, <1>1, PTL

\* The first decision on an approval stands, whatever second answers, timeouts,
\* sweeps and double writes come after it (ApprovalsService.resolve).
THEOREM FirstDecisionStands == Spec => DecisionStands
<1> DEFINE Standing == \A r \in Rows : approvals[r].status # "PENDING" =>
                         /\ approvals'[r].status = approvals[r].status
                         /\ approvals'[r].edited = approvals[r].edited
<1>1. ApprovalsInv /\ [Next]_vars => [Standing]_vars
  BY NextSafe, Zenon DEF Safe, Stands
<1> QED
  BY ApprovalsInvariant, <1>1, PTL DEF Spec, DecisionStands

\* A call that goes ahead does so on the decision in the ledger, with the
\* operator's arguments exactly if the ledger has some, unless it was answered
\* over a socket: a waiting one on a row of its own call, a try on one for its
\* tool.
THEOREM GoesAheadAsRecorded == Spec => []RunAsRecorded
<1>1. ApprovalsInv => RunAsRecorded
  <2> SUFFICES ASSUME ApprovalsInv, NEW c \in Callers, call[c].said.status = "APPROVED",
                      ~approvals[call[c].row].socket
               PROVE  /\ approvals[call[c].row].status = "APPROVED"
                      /\ approvals[call[c].row].edited = call[c].said.edited
                      /\ Kind(c) = "mcp" => SameTool(c, call[c].row)
                      /\ Kind(c) # "mcp" => approvals[call[c].row].call = Call(c)
    BY Zenon DEF RunAsRecorded
  <2>1. call[c].row \in Rows /\ CallerOK(c) /\ call[c].row # 0
    BY OnRows, Zenon DEF CallerOK
  <2>2. Matched(call[c].row)
    BY <2>1, Zenon DEF ApprovalsInv, RowOK
  <2> QED
    BY <2>1, <2>2, Zenon DEF Matched, Recorded, CallerOK
<1> QED
  BY ApprovalsInvariant, <1>1, PTL

\* One approval is one execution by those who wait and one over MCP, for any
\* number of duplicates of the call, operators and tries; unless it was answered
\* over a socket, and unless tries overlapped or failed.
THEOREM ApprovalRunsOnce == Spec => []OncePerApproval
<1>1. ApprovalsInv => OncePerApproval
  <2> SUFFICES ASSUME ApprovalsInv, NEW r \in Rows
               PROVE  /\ approvals[r].runs > 1 => approvals[r].socket
                      /\ approvals[r].tries > 1 => approvals[r].loose
    BY Zenon DEF OncePerApproval
  <2>1. approvals[r].runs \in Nat /\ approvals[r].tries \in Nat
    <3>1. approvals \in Seq(LedgerRows)
      BY Zenon DEF ApprovalsInv, Types
    <3>2. approvals[r] \in LedgerRows
      BY <3>1 DEF Rows
    <3> QED
      BY <3>2, Zenon DEF LedgerRows
  <2>2. /\ approvals[r].socket \/ approvals[r].runs <= 1
        /\ approvals[r].loose \/ approvals[r].tries <= 1
    BY Zenon DEF ApprovalsInv, RowOK, OneTry, OneToken
  <2> QED
    BY <2>1, <2>2
<1> QED
  BY ApprovalsInvariant, <1>1, PTL
=============================================================================
