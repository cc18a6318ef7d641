------------------------------ MODULE Approvals ------------------------------
(***************************************************************************)
(* Human approval of tool calls: the ledger (monitoring/                   *)
(* approvals.service.ts), the calls that wait for a decision, and those    *)
(* who give it.  A caller is a "dispatch" (tool-gateway/                   *)
(* tool-executor.service.ts: blocks on a Redis list, concurrent duplicates *)
(* of a call share a row), an "ask" (the request_approval and cancel_run   *)
(* tools: the same with a row of its own) or one try of an "mcp" client    *)
(* (mcp-platform/mcp-router.ts: comes back with the approval's id).        *)
(* A decision is given over "http" (agent.controller.ts), a "socket"       *)
(* (connections.gateway.ts) or the approvals.resolve "tool".               *)
(*                                                                         *)
(* A call is its kind, tool and arguments (the request hash).  A step is   *)
(* one statement, Redis command or handler; a failed one may have been     *)
(* executed.                                                               *)
(***************************************************************************)
EXTENDS Integers, Sequences

CONSTANTS
    Callers,
    Operators,      \* each gives one decision
    Plans           \* the call of each caller, the way of each operator, and
                    \* failures (a bound)

VARIABLES
    plan,           \* fixed
    approvals,      \* the AgentApproval rows
    box,            \* the Redis list of each row
    call,           \* the callers
    answer,         \* the operators
    left            \* failures still to come

vars == <<plan, approvals, box, call, answer, left>>

Nothing == [status |-> "PENDING", edited |-> FALSE]

\* Row 0 is no row.
Init ==
    /\ plan \in Plans
    /\ approvals = << >>
    /\ box = << >>
    /\ call = [c \in Callers |-> [at |-> "idle", row |-> 0, said |-> Nothing]]
    /\ answer = [h \in Operators |-> [at |-> "idle", row |-> 0, said |-> Nothing]]
    /\ left = plan.faults

Rows == DOMAIN approvals

Call(c) == plan.calls[c]

Kind(c) == Call(c).kind

Via(h) == plan.by[h]

Fault == left > 0 /\ left' = left - 1

Fine == UNCHANGED left

\* Ghosts: executions by callers that waited and by tries over MCP; an approval
\* sent to a waiting call before its deadline; and what takes guarantees away
\* from a row: a socket's answer; tries that overlap, a failed execution or
\* consumption.
NewRow(k) ==
    [call |-> k, status |-> "PENDING", edited |-> FALSE, late |-> FALSE, consumed |-> FALSE,
     runs |-> 0, tries |-> 0, told |-> FALSE, socket |-> FALSE, loose |-> FALSE]

\* create: the list of a new row is empty.
Add(k) ==
    /\ approvals' = Append(approvals, NewRow(k))
    /\ box' = Append(box, << >>)

resolve_Always(r, said) ==
    IF r = 0 THEN approvals
    ELSE [approvals EXCEPT ![r].status = said.status, ![r].edited = said.edited]

\* resolve: only a PENDING row, in one statement.
resolve(r, said) ==
    IF r = 0 \/ approvals[r].status # "PENDING" THEN approvals
    ELSE [approvals EXCEPT ![r].status = said.status, ![r].edited = said.edited]

\* findPendingByRequestHash: the newest pending row, unless its time is up.
findPending(k) ==
    LET open == {r \in Rows : approvals[r].call = k /\ approvals[r].status = "PENDING"}
    IN  {r \in open : ~approvals[r].late /\ \A q \in open : q <= r}
----------------------------------------------------------------------------
(* Calls.                                                                  *)

At(c, p) == call[c].at = p

Goto(c, p) == call' = [call EXCEPT ![c].at = p]

Hold(c, r) ==
    call' = [call EXCEPT ![c].row = r, ![c].at = IF Kind(c) = "mcp" THEN "poll" ELSE "wait"]

Tell(c, p, w) == call' = [call EXCEPT ![c].at = p, ![c].said = w]

\* createMcpApproval joins a pending row of the same call.
Find(c) ==
    /\ At(c, "idle") /\ Kind(c) \in {"dispatch", "mcp"}
    /\ \/ (\E r \in findPending(Call(c)) : Hold(c, r)) /\ Fine
       \/ findPending(Call(c)) = {} /\ Goto(c, "create") /\ Fine
       \/ Fault /\ Goto(c, "end")
    /\ UNCHANGED <<approvals, box, answer>>

Create(c) ==
    /\ At(c, "create")
    /\ \/ Add(Call(c)) /\ Hold(c, Len(approvals) + 1) /\ Fine
       \/ Fault /\ Goto(c, "again") /\ (Add(Call(c)) \/ UNCHANGED <<approvals, box>>)
    /\ UNCHANGED answer

\* The create failed: another caller's row will do.
FindAgain(c) ==
    /\ At(c, "again")
    /\ \/ \E r \in findPending(Call(c)) : Hold(c, r)
       \/ findPending(Call(c)) = {} /\ Goto(c, "end")
    /\ Fine /\ UNCHANGED <<approvals, box, answer>>

\* record swallows its error: the tool waits whether or not there is a row.
Ask(c) ==
    /\ At(c, "idle") /\ Kind(c) = "ask"
    /\ \/ (Fine \/ Fault) /\ Add(Call(c)) /\ Hold(c, Len(approvals) + 1)
       \/ Fault /\ Hold(c, 0) /\ UNCHANGED <<approvals, box>>
    /\ UNCHANGED answer

\* BLPOP returns a decision.
Wake(c) ==
    /\ At(c, "wait") /\ call[c].row # 0 /\ box[call[c].row] # << >>
    /\ Tell(c, "record", Head(box[call[c].row]))
    /\ box' = [box EXCEPT ![call[c].row] = Tail(@)]
    /\ Fine /\ UNCHANGED <<approvals, answer>>

TimeOut_Early(c) ==
    /\ At(c, "wait")
    /\ call[c].row # 0 => box[call[c].row] = << >>
    /\ Tell(c, "record", [Nothing EXCEPT !.status = "EXPIRED"])
    /\ Fine /\ UNCHANGED <<approvals, box, answer>>

\* BLPOP returns nothing.  It waits as long as the row is valid, and started
\* later.
TimeOut(c) ==
    /\ At(c, "wait")
    /\ call[c].row # 0 => approvals[call[c].row].late /\ box[call[c].row] = << >>
    /\ Tell(c, "record", [Nothing EXCEPT !.status = "EXPIRED"])
    /\ Fine /\ UNCHANGED <<approvals, box, answer>>

WaitFails(c) ==
    /\ At(c, "wait") /\ Fault /\ Goto(c, "cleanup")
    /\ UNCHANGED <<approvals, box, answer>>

\* The caller writes the decision, or the timeout, to the ledger too.
Record(c) ==
    /\ At(c, "record") /\ Goto(c, "cleanup")
    /\ \/ approvals' = resolve(call[c].row, call[c].said) /\ Fine
       \/ Fault /\ UNCHANGED approvals
    /\ UNCHANGED <<box, answer>>

\* The finally block deletes the list; what was approved is then executed.
Cleanup(c) ==
    /\ At(c, "cleanup") /\ Goto(c, "end")
    /\ LET r == call[c].row IN
       /\ \/ Fine /\ box' = IF r = 0 THEN box ELSE [box EXCEPT ![r] = << >>]
          \/ Fault /\ UNCHANGED box
       /\ approvals' = IF call[c].said.status # "APPROVED" THEN approvals
                       ELSE [approvals EXCEPT ![r].runs = @ + 1]
    /\ UNCHANGED answer

\* A client sends a call with the id of an approval, whichever way that came
\* about.
Resend(c) ==
    /\ At(c, "idle") /\ Kind(c) = "mcp"
    /\ \E r \in Rows : Hold(c, r)
    /\ Fine /\ UNCHANGED <<approvals, box, answer>>

Running(r) == {d \in Callers : call[d].row = r /\ call[d].at \in {"execute", "consume"}}

\* The tool is compared, if the row has one; the arguments are not.
SameTool(c, r) == approvals[r].call.tool \in {"none", Call(c).tool}

Poll_Unconsumed(c) ==
    /\ At(c, "poll")
    /\ LET r == call[c].row row == approvals[r] IN
       \/ /\ \/ row.status \in {"REJECTED", "EXPIRED"} \/ (row.status = "PENDING" /\ row.late)
             \/ row.status = "APPROVED" /\ ~SameTool(c, r)
          /\ Goto(c, "end") /\ UNCHANGED approvals
       \/ /\ row.status = "APPROVED" /\ SameTool(c, r)
          /\ Tell(c, "execute", [status |-> "APPROVED", edited |-> row.edited])
          /\ approvals' = [approvals EXCEPT ![r].loose = @ \/ Running(r) # {}]
    /\ Fine /\ UNCHANGED <<box, answer>>

\* A try with an id: refused, answered from the cache, or executed with the
\* operator's arguments or its own.  A pending row changes nothing.  Edited
\* arguments may fail the tool's schema.
Poll(c) ==
    /\ At(c, "poll")
    /\ LET r == call[c].row row == approvals[r] IN
       \/ /\ \/ row.status \in {"REJECTED", "EXPIRED"} \/ row.consumed
             \/ row.status = "PENDING" /\ row.late
             \/ row.status = "APPROVED" /\ (row.edited \/ ~SameTool(c, r))
          /\ Goto(c, "end") /\ UNCHANGED approvals
       \/ /\ row.status = "APPROVED" /\ ~row.consumed /\ SameTool(c, r)
          /\ Tell(c, "execute", [status |-> "APPROVED", edited |-> row.edited])
          /\ approvals' = [approvals EXCEPT ![r].loose = @ \/ Running(r) # {}]
    /\ Fine /\ UNCHANGED <<box, answer>>

Execute(c) ==
    /\ At(c, "execute")
    /\ \/ Fine /\ Goto(c, "consume")
          /\ approvals' = [approvals EXCEPT ![call[c].row].tries = @ + 1]
       \/ Fault /\ Goto(c, "end")
          /\ approvals' = [approvals EXCEPT ![call[c].row].tries = @ + 1, ![call[c].row].loose = TRUE]
    /\ UNCHANGED <<box, answer>>

\* markMcpConsumed, whose failure is swallowed.
Consume(c) ==
    /\ At(c, "consume") /\ Goto(c, "end")
    /\ \/ Fine /\ approvals' = [approvals EXCEPT ![call[c].row].consumed = TRUE]
       \/ Fault /\ approvals' = [approvals EXCEPT ![call[c].row].loose = TRUE]
    /\ UNCHANGED <<box, answer>>

\* The process of a waiting call dies, and what it popped with it.
Crash(c) ==
    /\ call[c].at \in {"create", "again", "wait", "record", "cleanup", "poll"} /\ Fault
    /\ Tell(c, "end", Nothing)
    /\ UNCHANGED <<approvals, box, answer>>

Step(c) ==
    \/ FindAgain(c) \/ Create(c) \/ Wake(c) \/ TimeOut(c) \/ WaitFails(c)
    \/ Record(c) \/ Cleanup(c) \/ Poll(c) \/ Execute(c) \/ Consume(c)
----------------------------------------------------------------------------
(* Decisions.                                                              *)

Decisions(via) ==
    [status : {"APPROVED", "REJECTED"}, edited : {FALSE}]
        \cup (IF via = "socket" THEN {} ELSE {[status |-> "APPROVED", edited |-> TRUE]})
        \cup (IF via = "tool" THEN {[status |-> "EXPIRED", edited |-> FALSE]} ELSE {})

\* Only the HTTP handler looks at the status first.
Decide(h) ==
    /\ answer[h].at = "idle" /\ Via(h) # "none"
    /\ \E r \in Rows, said \in Decisions(Via(h)) :
         /\ Via(h) = "http" => approvals[r].status = "PENDING"
         /\ answer' = [answer EXCEPT ![h] =
                         [at |-> IF Via(h) = "socket" THEN "push" ELSE "claim", row |-> r, said |-> said]]
    /\ Fine /\ UNCHANGED <<approvals, box, call>>

Claim_Unchecked(h) ==
    /\ answer[h].at = "claim"
    /\ LET r == answer[h].row IN
       /\ approvals' = resolve(r, answer[h].said) /\ Fine
       /\ answer' = [answer EXCEPT ![h].at = IF Via(h) = "http" THEN "push" ELSE "end"]
    /\ UNCHANGED <<box, call>>

\* resolve returns whether it changed the row; an error counts as no.  Over
\* HTTP only the one who changed it goes on to wake the caller.
Claim(h) ==
    /\ answer[h].at = "claim"
    /\ LET r == answer[h].row IN
       \/ /\ approvals' = resolve(r, answer[h].said) /\ Fine
          /\ answer' = [answer EXCEPT ![h].at =
                          IF Via(h) = "http" /\ approvals[r].status = "PENDING" THEN "push" ELSE "end"]
       \/ /\ Fault /\ approvals' \in {approvals, resolve(r, answer[h].said)}
          /\ answer' = [answer EXCEPT ![h].at = "end"]
    /\ UNCHANGED <<box, call>>

Push(h) ==
    /\ answer[h].at = "push"
    /\ LET r == answer[h].row
           sent == [box EXCEPT ![r] = Append(@, answer[h].said)] IN
       /\ \/ box' = sent /\ Fine
             /\ answer' = [answer EXCEPT ![h].at = IF Via(h) = "socket" THEN "claim" ELSE "end"]
          \/ box' \in {box, sent} /\ Fault
             /\ answer' = [answer EXCEPT ![h].at = "end"]
       /\ approvals' = [approvals EXCEPT
            ![r].told = @ \/ (answer[h].said.status = "APPROVED" /\ ~approvals[r].late),
            ![r].socket = @ \/ Via(h) = "socket"]
    /\ UNCHANGED call
----------------------------------------------------------------------------
(* Time.                                                                   *)

\* Rows of a kind are valid equally long.
Late(r) ==
    /\ ~approvals[r].late /\ \A q \in 1 .. r - 1 : approvals[q].late
    /\ approvals' = [approvals EXCEPT ![r].late = TRUE]
    /\ Fine /\ UNCHANGED <<box, call, answer>>

findExpired == {r \in Rows : approvals[r].status = "PENDING" /\ approvals[r].late}

Sweep_McpOnly ==
    LET due == {r \in findExpired : approvals[r].call.kind = "mcp"} IN
    /\ due # {}
    /\ approvals' = [r \in Rows |-> IF r \in due THEN [approvals[r] EXCEPT !.status = "EXPIRED"]
                                                 ELSE approvals[r]]
    /\ Fine /\ UNCHANGED <<box, call, answer>>

\* sweepExpired.
Sweep ==
    /\ findExpired # {}
    /\ approvals' = [r \in Rows |-> IF r \in findExpired THEN [approvals[r] EXCEPT !.status = "EXPIRED"]
                                                        ELSE approvals[r]]
    /\ Fine /\ UNCHANGED <<box, call, answer>>

\* A decision nobody waits for is dropped after a minute.
DropKey(r) ==
    /\ box[r] # << >> /\ ~\E c \in Callers : At(c, "wait") /\ call[c].row = r
    /\ box' = [box EXCEPT ![r] = << >>]
    /\ Fine /\ UNCHANGED <<approvals, call, answer>>
----------------------------------------------------------------------------
Progress ==
    \/ \E c \in Callers : Step(c)
    \/ \E h \in Operators : Claim(h) \/ Push(h)
    \/ \E r \in Rows : Late(r)
    \/ Sweep

Next ==
    /\ \/ Progress
       \/ \E c \in Callers : Find(c) \/ Ask(c) \/ Resend(c) \/ Crash(c)
       \/ \E h \in Operators : Decide(h)
       \/ \E r \in Rows : DropKey(r)
    /\ UNCHANGED plan

Spec == Init /\ [][Next]_vars

\* Statements return, time passes and the sweep is scheduled; nobody has to
\* call or to decide.
FairSpec == Spec /\ WF_vars(Progress /\ UNCHANGED plan)
----------------------------------------------------------------------------
(* Properties.                                                             *)

\* Types; who waits on a row waits on one that exists.
ApprovalsTypeOK ==
    /\ \A r \in Rows : approvals[r].status \in {"PENDING", "APPROVED", "REJECTED", "EXPIRED"}
    /\ \A r \in Rows : approvals[r].consumed => approvals[r].status = "APPROVED"
    /\ \A c \in Callers : call[c].row \in {0} \cup Rows
    /\ \A h \in Operators : answer[h].at \in {"claim", "push"} => answer[h].row \in Rows

\* The first decision stands: no second answer, timeout of the caller, sweep or
\* double write by the woken caller changes a row that was resolved.
DecisionStands ==
    [][\A r \in Rows : approvals[r].status # "PENDING" =>
          /\ approvals'[r].status = approvals[r].status
          /\ approvals'[r].edited = approvals[r].edited]_vars

\* A call goes ahead only on a row the ledger has as APPROVED, with the
\* operator's arguments exactly if the ledger has some, whatever answers,
\* deadlines and failures crossed; unless it was answered over a socket.  One
\* that waited is the call of the row, arguments included; a try over MCP has
\* at least the tool of the row.
RunAsRecorded ==
    \A c \in Callers :
        LET row == approvals[call[c].row] IN
        call[c].said.status = "APPROVED" /\ ~row.socket =>
            /\ row.status = "APPROVED" /\ row.edited = call[c].said.edited
            /\ IF Kind(c) = "mcp" THEN SameTool(c, call[c].row) ELSE row.call = Call(c)

\* One approval is one execution by those who wait, although duplicates of a
\* call wait on one row and operators answer twice, unless it was answered over
\* a socket; and one over MCP, although clients come back, unless tries
\* overlapped or execution or its mark failed.  (What ran for a waiting call is
\* not marked as consumed: its id is still good for one try over MCP.)
OncePerApproval ==
    \A r \in Rows : /\ approvals[r].runs > 1 => approvals[r].socket
                    /\ approvals[r].tries > 1 => approvals[r].loose

\* An approval sent over HTTP before the deadline is not lost: without failures
\* some waiting call is executed.
ToldIsRun ==
    <>[](left = plan.faults => \A r \in Rows :
            approvals[r].told /\ ~approvals[r].socket /\ approvals[r].call.kind # "mcp" =>
                approvals[r].runs > 0)

\* Nobody waits for ever and no row stays open.
Settled ==
    <>[](/\ \A c \in Callers : call[c].at \in {"idle", "end"}
         /\ \A r \in Rows : approvals[r].status # "PENDING")
=============================================================================
