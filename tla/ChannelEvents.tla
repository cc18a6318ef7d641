--------------------------- MODULE ChannelEvents ---------------------------
(***************************************************************************)
(* One Slack event from its durable admission to the reply: the leased     *)
(* inbox row (ChannelAppEventsController.processInbox and the persistence  *)
(* calls it makes), the turn it runs through TurnDispatchService           *)
(* .collectTurn (in process, or on a durable session that outlives the     *)
(* caller), and the message it posts, with the installation's grant        *)
(* (module ChannelGrant) as the token of the reply.                        *)
(*                                                                         *)
(* A step is the code between two awaits.  leaseGeneration is an integer   *)
(* the code only compares; here it counts modulo Generations.              *)
(***************************************************************************)
EXTENDS ChannelGrant

CONSTANTS
    Gone,           \* the workerId of a process that died
    Session,        \* the durable session's run, as the executor of a turn
    Generations,    \* bound: lease generations told apart
    Scenarios       \* the kinds of event, modes and workspaces explored

ASSUME InboxAssumption ==
    /\ {Gone, Session} \cap (Workers \cup {Nobody}) = {}
    /\ Gone # Session
    /\ Generations \in Nat \ {0, 1}
    /\ Scenarios \subseteq [kind : {"message", "quiet", "command", "uninstall", "other"},
                            durable : BOOLEAN, gated : BOOLEAN, rotating : BOOLEAN,
                            installs : Nat \ {0}]

VARIABLES
    kind,           \* fixed: what the event asks for
    durable,        \* fixed: resolveMode's answer for the agent
    gated,          \* fixed: does the app require its authors to be linked?
    row,            \* the ChannelEventInbox row
    wk,             \* each process's call of processInbox
    turn,           \* the Turn row under the event's idempotency key
    turnBy,         \* who executes that turn
    queued,         \* session runs dispatched for the event and not started
    answered,       \* turns of the event that succeeded
    shown,          \* the messages Slack shows in reply to the event
    skipped         \* an attempt dropped the event: installation revoked, no agent bound

inboxVars == <<kind, durable, gated, row, wk, turn, turnBy, queued, answered, shown, skipped>>

vars == <<grantVars, inboxVars>>

fixed == <<kind, durable, gated, rotating, maxInstalls>>

----------------------------------------------------------------------------
\* A message to answer, one whose turn says nothing, a linking command (posted
\* without a turn), and app_uninstalled or tokens_revoked; or events of other
\* conversations, of which only the need for a bot token is of interest.
Kinds == {"message", "quiet", "command", "uninstall", "other"}

Stages == {"idle", "read", "serve", "token", "turn", "open", "running", "drain",
           "record", "post", "connect", "mark", "complete", "fail", "discard"}

Statuses == {"none", "PENDING", "PROCESSING", "FAILED", "COMPLETED", "DISCARDED"}

Terminal == row.status \in {"COMPLETED", "DISCARDED"}

NoWork == [at |-> "idle", gen |-> 0, aborted |-> FALSE, turn |-> FALSE]

Init ==
    /\ GrantInit
    /\ \E s \in Scenarios :
         /\ kind = s.kind         /\ durable = s.durable   /\ gated = s.gated
         /\ rotating = s.rotating /\ maxInstalls = s.installs
    /\ row = [status |-> "none", due |-> FALSE, owner |-> Nobody, gen |-> 0,
              leased |-> FALSE, turn |-> FALSE, delivered |-> FALSE]
    /\ wk = [w \in Workers |-> NoWork]
    /\ turn = "none"
    /\ turnBy = Nobody
    /\ queued = 0
    /\ answered = 0
    /\ shown = {}
    /\ skipped = FALSE

\* The where clause of every stage of the inbox: lease owner and generation.
Holds(w) ==
    /\ row.status = "PROCESSING"
    /\ row.owner = w
    /\ row.gen = wk[w].gen

\* assertEventActive between stages: a lost lease turns the next stage into fail.
Go(w, p) == wk' = [wk EXCEPT ![w].at = IF wk[w].aborted THEN "fail" ELSE p]

Throw(w, p) == wk' = [wk EXCEPT ![w].at = p]

Leave(w) == wk' = [wk EXCEPT ![w] = NoWork]

\* Where a reply goes that needs no further turn.
ReplyStage == IF kind = "quiet" THEN "mark" ELSE "post"

\* A row that claimChannelEvent and listRecoverableChannelEvents accept.
Claimable ==
    \/ row.status \in {"PENDING", "FAILED"} /\ row.due
    \/ row.status = "PROCESSING" /\ ~row.leased

grant == <<inst, spent, issued, ref, installs>>

turns == <<turn, turnBy, queued, answered>>

(* Faulty variants of actions below, each a mistake the code avoids; only   *)
(* mutation runs use them.                                                  *)

\* A duplicate delivery re-arms the row.
Deliver_Rearms ==
    /\ row' = [row EXCEPT !.status = "PENDING", !.due = TRUE]
    /\ UNCHANGED <<grant, faults, wk, turns, shown, skipped>>

\* A stage writes without comparing owner and generation.
RecordTurn_NoFence(w) ==
    /\ wk[w].at = "record"
    /\ row' = [row EXCEPT !.turn = TRUE]
    /\ Go(w, ReplyStage)
    /\ UNCHANGED <<grant, faults, turns, shown, skipped>>

\* The delivery is recorded before the reply is posted.
RecordTurn_MarksDelivered(w) ==
    /\ wk[w].at = "record"
    /\ Holds(w)
    /\ row' = [row EXCEPT !.turn = TRUE, !.delivered = TRUE]
    /\ Go(w, ReplyStage)
    /\ UNCHANGED <<grant, faults, turns, shown, skipped>>

\* The turn carries no idempotency key.
OpenTurn_NoKey(w) ==
    /\ wk[w].at = "open"
    /\ turn' = "ACTIVE"
    /\ turnBy' = w
    /\ Go(w, "running")
    /\ UNCHANGED <<grant, faults, row, queued, answered, shown, skipped>>

\* Each claim of the event posts under an id of its own.
slackClientMessageId_PerClaim(w) == <<"event", wk[w].gen>>

\* The recovery sweep does not look at leases.
LeaseExpires_Never ==
    /\ row.status = "PROCESSING" /\ row.leased
    /\ \E w \in Workers : row.owner = w /\ wk[w].at # "idle"
    /\ Fault
    /\ row' = [row EXCEPT !.leased = FALSE]
    /\ UNCHANGED <<grant, wk, turns, shown, skipped>>

----------------------------------------------------------------------------
\* events: Slack delivers the event, again until it is acknowledged; the unique
\* (appId, eventId) makes a duplicate find the row that is there.
Deliver ==
    /\ kind # "other"
    /\ row' = IF row.status = "none" THEN [row EXCEPT !.status = "PENDING", !.due = TRUE] ELSE row
    /\ UNCHANGED <<grant, faults, wk, turns, shown, skipped>>

\* processInbox, started by the delivery or by the recovery sweep: activeInbox
\* admits one call per process, claimChannelEvent is a compare-and-set.
Claim(w) ==
    /\ wk[w].at = "idle"
    /\ Claimable
    /\ row' = [row EXCEPT !.status = "PROCESSING", !.owner = w, !.leased = TRUE,
                          !.gen = (@ + 1) % Generations]
    /\ wk' = [wk EXCEPT ![w] = [NoWork EXCEPT !.at = "read"]]
    /\ UNCHANGED <<grant, faults, turns, shown, skipped>>

\* The second statement of claimChannelEvent reads the row back, as it then is.
\* When it throws, processInbox has no generation yet and its failChannelEvent
\* matches nothing: the row waits for its lease to expire.
ReadClaim(w) ==
    /\ wk[w].at = "read"
    /\ \/ /\ row.turn => turn = "SUCCEEDED"
          /\ wk' = [wk EXCEPT ![w] = [at |-> IF row.delivered THEN "complete" ELSE "serve",
                                      gen |-> row.gen, aborted |-> FALSE, turn |-> row.turn]]
          /\ UNCHANGED faults
       \/ row.turn /\ turn # "SUCCEEDED" /\ Leave(w) /\ UNCHANGED faults
       \/ Fault /\ Leave(w)
    /\ UNCHANGED <<grant, row, turns, shown, skipped>>

\* processVerifiedEvent: app_uninstalled revokes what is installed now, and
\* so does tokens_revoked unless it names only tokens of users; any other event
\* needs an active installation, and fails without one.
ServeEvent(w) ==
    /\ wk[w].at = "serve"
    /\ \/ kind = "uninstall" /\ inst' \in {inst, Revoked} /\ Go(w, "mark") /\ UNCHANGED faults
       \/ /\ kind # "uninstall" /\ inst.status = "active"
          /\ Go(w, "token")
          /\ UNCHANGED <<inst, faults>>
       \/ /\ kind # "uninstall" /\ inst.status # "active"
          /\ Throw(w, "fail")
          /\ UNCHANGED <<inst, faults>>
       \/ /\ Fault /\ Throw(w, "fail")
          /\ inst' \in {inst} \cup (IF kind = "uninstall" THEN {Revoked} ELSE {})
    /\ UNCHANGED <<spent, issued, ref, installs, row, turns, shown, skipped>>

\* Another event of the workspace reaches the same point.
OtherEvent(w) ==
    /\ kind = "other"
    /\ wk[w].at = "idle"
    /\ wk' = [wk EXCEPT ![w].at = "token"]
    /\ UNCHANGED <<grant, faults, row, turns, shown, skipped>>

\* handleAppEvent loads the installation again: revoked in between, it returns
\* and the event completes unanswered.  Otherwise it asks for the bot token.
LoadInstallation(w) ==
    /\ wk[w].at = "token"
    /\ ref[w].at = "none"
    /\ \/ inst.status = "active" /\ LoadToken(w) /\ UNCHANGED <<wk, skipped>>
       \/ /\ inst.status # "active"
          /\ Go(w, IF kind = "other" THEN "idle" ELSE "mark")
          /\ skipped' = TRUE
          /\ UNCHANGED <<grant, faults>>
       \/ Fault /\ Throw(w, IF kind = "other" THEN "idle" ELSE "fail") /\ UNCHANGED <<grant, skipped>>
    /\ UNCHANGED <<row, turns, shown>>

\* handleAppEvent with its token.  With no agent bound just now it returns, and
\* the event completes unanswered.  The linking gate answers a command by itself
\* and, where linking is required, whoever is not linked as this attempt looks
\* (links come and go between attempts, and a failed look counts as none).  Else
\* the thread is bound, which may fail, and a recorded turn is not run again.
Proceed(w) ==
    \/ Go(w, "mark") /\ skipped' = TRUE /\ UNCHANGED faults
    \/ (kind = "command" \/ gated) /\ Go(w, "connect") /\ UNCHANGED <<skipped, faults>>
    \/ /\ kind # "command"
       /\ Go(w, IF wk[w].turn THEN ReplyStage ELSE "turn")
       /\ UNCHANGED <<skipped, faults>>
    \/ Fault /\ Throw(w, "fail") /\ UNCHANGED skipped

\* The bot token arrived, or did not.
TakeToken(w) ==
    /\ wk[w].at = "token"
    /\ \/ kind = "other" /\ ref[w].at \in {"have", "failed"} /\ Throw(w, "idle") /\ UNCHANGED <<skipped, faults>>
       \/ kind # "other" /\ ref[w].at = "failed" /\ Throw(w, "fail") /\ UNCHANGED <<skipped, faults>>
       \/ kind # "other" /\ ref[w].at = "have" /\ Proceed(w)
    /\ ref' = [ref EXCEPT ![w] = NoCall]
    /\ UNCHANGED <<inst, spent, issued, installs, row, turns, shown>>

\* Grant steps of a worker that waits for its token.
RefreshToken(w) ==
    /\ wk[w].at = "token"
    /\ TokenStep(w)
    /\ UNCHANGED <<row, wk, turns, shown, skipped>>

\* collectTurn: a persisted SUCCEEDED turn is the answer, any other row under
\* the key throws; else the mode decides.  A session whose send failed falls
\* back to the direct path, whether or not the send started a run.
CollectTurn(w) ==
    /\ wk[w].at = "turn"
    /\ \/ turn = "SUCCEEDED" /\ Go(w, "record") /\ UNCHANGED <<queued, faults>>
       \/ turn = "ACTIVE" /\ Throw(w, "fail") /\ UNCHANGED <<queued, faults>>
       \/ turn = "none" /\ ~durable /\ Throw(w, "open") /\ UNCHANGED <<queued, faults>>
       \/ /\ turn = "none" /\ durable
          /\ \/ Throw(w, "drain") /\ queued' = queued + 1 /\ UNCHANGED faults
             \/ Fault /\ Throw(w, "open") /\ queued' \in {queued, queued + 1}
       \/ Fault /\ Throw(w, "fail") /\ UNCHANGED queued
    /\ UNCHANGED <<grant, row, turn, turnBy, answered, shown, skipped>>

\* executeStreamingTurn up to the Turn row: a taken key, a gate or an error
\* ends it without one, and collectDirect throws for want of a message id.
OpenTurn(w) ==
    /\ wk[w].at = "open"
    /\ \/ /\ turn = "none"
          /\ turn' = "ACTIVE"
          /\ turnBy' = w
          /\ Throw(w, "running")
          /\ UNCHANGED faults
       \/ turn # "none" /\ Throw(w, "fail") /\ UNCHANGED <<turn, turnBy, faults>>
       \/ Fault /\ Throw(w, "fail") /\ UNCHANGED <<turn, turnBy>>
    /\ UNCHANGED <<grant, row, queued, answered, shown, skipped>>

\* The turn is stored as SUCCEEDED; the stream may still break after that.
TurnSucceeds(w) ==
    /\ turn' = "SUCCEEDED"
    /\ answered' = answered + 1
    /\ \/ Go(w, "record") /\ UNCHANGED faults
       \/ Fault /\ Throw(w, "fail")

\* failTurn marks it FAILED and frees its key; when that fails as well the row
\* stays ACTIVE.  An aborted signal ends a turn without any failure.
TurnFails(w) ==
    /\ \/ Fault /\ turn' \in {"none", "ACTIVE"}
       \/ wk[w].aborted /\ turn' = "none" /\ UNCHANGED faults
    /\ Throw(w, "fail")
    /\ UNCHANGED answered

EndTurn(w) ==
    /\ wk[w].at = "running"
    /\ turnBy' = Nobody
    /\ TurnSucceeds(w) \/ TurnFails(w)
    /\ UNCHANGED <<grant, row, queued, shown, skipped>>

\* driveSession: the drain saw message_persisted, or it ended without (the run
\* failed, the stream broke, the wall clock ran out) and the call throws.
DrainSession(w) ==
    /\ wk[w].at = "drain"
    /\ \/ turn = "SUCCEEDED" /\ Go(w, "record") /\ UNCHANGED faults
       \/ queued = 0 /\ turnBy # Session /\ Throw(w, "fail") /\ UNCHANGED faults
       \/ Fault /\ Throw(w, "fail")
    /\ UNCHANGED <<grant, row, turns, shown, skipped>>

\* recordChannelEventTurn: set once, under the lease; again by the same holder.
RecordTurn(w) ==
    /\ wk[w].at = "record"
    /\ \/ Holds(w) /\ row' = [row EXCEPT !.turn = TRUE] /\ Go(w, ReplyStage) /\ UNCHANGED faults
       \/ ~Holds(w) /\ Throw(w, "fail") /\ UNCHANGED <<row, faults>>
       \/ Fault /\ Throw(w, "fail") /\ UNCHANGED row
    /\ UNCHANGED <<grant, turns, shown, skipped>>

\* The digest of app and event id: what posts for the event has one client_msg_id,
\* whoever posts it and whatever it says.
slackClientMessageId(w) == <<"event">>

\* Slack's chat.postMessage: a client_msg_id it has seen is answered with
\* duplicate_message, and shows nothing new.
chatPostMessage(id, text) ==
    shown' = IF \E m \in shown : m.id = id THEN shown ELSE shown \cup {[id |-> id, text |-> text]}

\* postSlackMessage, of the turn's answer or of what the linking gate says; a
\* duplicate counts as posted.  The request may fail before or after Slack
\* accepted it, an abort included; Slack may refuse it for good, as it does once
\* the app is uninstalled, while a token only the operator revoked still posts.
PostReply(w) ==
    /\ wk[w].at \in {"post", "connect"}
    /\ \/ /\ chatPostMessage(slackClientMessageId(w), IF wk[w].at = "post" THEN "answer" ELSE "connect")
          /\ \/ Go(w, "mark") /\ UNCHANGED faults
             \/ Fault /\ Throw(w, "fail")
       \/ /\ Fault \/ (wk[w].aborted /\ UNCHANGED faults)
          /\ Throw(w, "fail")
          /\ UNCHANGED shown
       \/ /\ Fault \/ (inst.status # "active" /\ UNCHANGED faults)
          /\ Throw(w, "discard")
          /\ UNCHANGED shown
    /\ UNCHANGED <<grant, row, turns, skipped>>

\* markEventDelivery and recordChannelEventDelivery.
RecordDelivery(w) ==
    /\ wk[w].at = "mark"
    /\ \/ /\ Holds(w) /\ ~wk[w].aborted
          /\ row' = [row EXCEPT !.delivered = TRUE]
          /\ Throw(w, "complete")
          /\ UNCHANGED faults
       \/ (~Holds(w) \/ wk[w].aborted) /\ Throw(w, "fail") /\ UNCHANGED <<row, faults>>
       \/ Fault /\ Throw(w, "fail") /\ UNCHANGED row
    /\ UNCHANGED <<grant, turns, shown, skipped>>

\* completeChannelEvent, only after the delivery was recorded.
CompleteEvent(w) ==
    /\ wk[w].at = "complete"
    /\ \/ /\ Holds(w) /\ ~wk[w].aborted /\ row.delivered
          /\ row' = [row EXCEPT !.status = "COMPLETED", !.owner = Nobody, !.leased = FALSE]
          /\ Leave(w)
          /\ UNCHANGED faults
       \/ (~Holds(w) \/ wk[w].aborted) /\ Throw(w, "fail") /\ UNCHANGED <<row, faults>>
       \/ Fault /\ Throw(w, "fail") /\ UNCHANGED row
    /\ UNCHANGED <<grant, turns, shown, skipped>>

\* The catch block: failChannelEvent re-arms the row 5 s later, and
\* discardChannelEvent ends an event Slack refuses; both only under the lease.
\* Their own failure leaves the row to its lease.
Settle(w, from, status) ==
    /\ wk[w].at = from
    /\ \/ /\ row' = IF Holds(w)
                    THEN [row EXCEPT !.status = status, !.due = FALSE,
                                     !.owner = Nobody, !.leased = FALSE]
                    ELSE row
          /\ UNCHANGED faults
       \/ Fault /\ UNCHANGED row
    /\ Leave(w)
    /\ UNCHANGED <<grant, turns, shown, skipped>>

FailEvent(w) == Settle(w, "fail", "FAILED")

DiscardEvent(w) == Settle(w, "discard", "DISCARDED")

\* The heartbeat, every third of the lease: it extends a lease that is still
\* the worker's, expired or not, and aborts the work otherwise or on an error.
Renew(w) ==
    /\ kind # "other"
    /\ wk[w].at \notin {"idle", "read"}
    /\ \/ Holds(w) /\ row' = [row EXCEPT !.leased = TRUE] /\ UNCHANGED <<wk, faults>>
       \/ ~Holds(w) /\ wk' = [wk EXCEPT ![w].aborted = TRUE] /\ UNCHANGED <<row, faults>>
       \/ Fault /\ wk' = [wk EXCEPT ![w].aborted = TRUE] /\ UNCHANGED row
    /\ UNCHANGED <<grant, turns, shown, skipped>>

\* The lease runs out: under a working process only when it or its heartbeats
\* stall for the 60 s of the lease.
LeaseExpires ==
    /\ row.status = "PROCESSING" /\ row.leased
    /\ IF \E w \in Workers : row.owner = w /\ wk[w].at # "idle"
       THEN Fault ELSE UNCHANGED faults
    /\ row' = [row EXCEPT !.leased = FALSE]
    /\ UNCHANGED <<grant, wk, turns, shown, skipped>>

\* The retry delay of a FAILED row passes.
RowDue ==
    /\ row.status = "FAILED" /\ ~row.due
    /\ row' = [row EXCEPT !.due = TRUE]
    /\ UNCHANGED <<grant, faults, wk, turns, shown, skipped>>

\* platosChatSession starts a dispatched run: it calls back into the agent,
\* which opens the turn or refuses a taken key.
SessionStart ==
    /\ queued > 0 /\ turnBy # Session
    /\ queued' = queued - 1
    /\ \/ turn = "none" /\ turn' = "ACTIVE" /\ turnBy' = Session
       \/ turn # "none" /\ UNCHANGED <<turn, turnBy>>
    /\ UNCHANGED <<grant, faults, row, wk, answered, shown, skipped>>

\* Its turn ends, or the process that runs it dies and the row stays ACTIVE.
SessionEnd ==
    /\ turnBy = Session
    /\ turnBy' = Nobody
    /\ \/ turn' = "SUCCEEDED" /\ answered' = answered + 1 /\ UNCHANGED faults
       \/ Fault /\ turn' \in {"none", "ACTIVE"} /\ UNCHANGED answered
    /\ UNCHANGED <<grant, row, wk, queued, shown, skipped>>

\* A process dies; its successor has another workerId and other claim ids.
Crash(w) ==
    /\ wk[w].at # "idle"
    /\ Fault
    /\ Leave(w)
    /\ ref' = [ref EXCEPT ![w] = NoCall]
    /\ row' = [row EXCEPT !.owner = IF @ = w THEN Gone ELSE @]
    /\ turnBy' = IF turnBy = w THEN Nobody ELSE turnBy
    /\ UNCHANGED <<inst, spent, issued, installs, turn, queued, answered, shown, skipped>>

\* The workspace's side: it installs the app again, and its token ages.
Workspace ==
    /\ Reinstall \/ NearExpiry
    /\ UNCHANGED <<row, wk, turns, shown, skipped>>

\* revokeInstallation by an operator of the app.
Revoke ==
    /\ Fault
    /\ inst.status = "active"
    /\ inst' = Revoked
    /\ UNCHANGED <<spent, issued, ref, installs, row, wk, turns, shown, skipped>>

Step(w) ==
    \/ ReadClaim(w) \/ ServeEvent(w) \/ LoadInstallation(w) \/ TakeToken(w)
    \/ RefreshToken(w) \/ CollectTurn(w) \/ OpenTurn(w) \/ EndTurn(w)
    \/ DrainSession(w) \/ RecordTurn(w) \/ PostReply(w) \/ RecordDelivery(w)
    \/ CompleteEvent(w) \/ FailEvent(w) \/ DiscardEvent(w)

Next ==
    /\ \/ \E w \in Workers : Claim(w) \/ OtherEvent(w) \/ Step(w) \/ Renew(w) \/ Crash(w)
       \/ Deliver \/ LeaseExpires \/ RowDue \/ SessionStart \/ SessionEnd
       \/ Workspace \/ Revoke
    /\ UNCHANGED fixed

Spec == Init /\ [][Next]_vars

\* Every awaited call settles (each has a timeout), the recovery sweep runs
\* every 5 s, leases and retry delays run out, and dispatched runs are run.
Fairness ==
    /\ \A w \in Workers : WF_vars(Step(w) /\ UNCHANGED fixed)
    /\ WF_vars((\E w \in Workers : Claim(w)) /\ UNCHANGED fixed)
    /\ WF_vars(LeaseExpires /\ UNCHANGED fixed)
    /\ WF_vars(RowDue /\ UNCHANGED fixed)
    /\ WF_vars(SessionStart /\ UNCHANGED fixed)
    /\ WF_vars(SessionEnd /\ UNCHANGED fixed)

FairSpec == Spec /\ Fairness

----------------------------------------------------------------------------
TypeOK ==
    /\ GrantTypeOK
    /\ kind \in Kinds
    /\ durable \in BOOLEAN
    /\ gated \in BOOLEAN
    /\ row \in [status : Statuses, due : BOOLEAN, owner : Workers \cup {Nobody, Gone},
                gen : 0 .. Generations - 1, leased : BOOLEAN, turn : BOOLEAN,
                delivered : BOOLEAN]
    /\ wk \in [Workers -> [at : Stages, gen : 0 .. Generations - 1,
                           aborted : BOOLEAN, turn : BOOLEAN]]
    /\ turn \in {"none", "ACTIVE", "SUCCEEDED"}
    /\ turnBy \in Workers \cup {Nobody, Session}
    /\ queued \in Nat
    /\ answered \in Nat
    /\ shown \subseteq [id : {<<"event">>}, text : {"answer", "connect"}]
    /\ skipped \in BOOLEAN

\* However often an event is claimed, retried, or raced by a session whose send
\* looked failed, its turn succeeds at most once.
OneTurn == answered <= 1

\* Slack shows at most one message for an event, an answer or a request to link,
\* although the post is repeated after a lost answer, a lost lease and a crash by
\* attempts that may disagree on what to say; and an answer is shown only once
\* its turn is recorded, so that no attempt can run another.
OneReply ==
    /\ \A m, n \in shown : m = n
    /\ \A m \in shown : m.text = "answer" => row.turn /\ answered = 1

\* A completed event was answered: Slack shows a message for it, its turn's
\* answer if no link is required; and unless the gate withheld the turn, that
\* turn is recorded.  Only an event that an attempt found without an active
\* installation or a bound agent completes unanswered.
CompletedIsAnswered ==
    row.status = "COMPLETED" /\ ~skipped =>
        /\ kind \in {"message", "command"} => shown # {}
        /\ kind \in {"message", "quiet"} =>
              \/ row.turn /\ answered = 1
              \/ gated /\ \E m \in shown : m.text = "connect"
        /\ kind = "message" /\ ~gated => \E m \in shown : m.text = "answer"

\* The row's stages are written only by the worker that holds the lease; what
\* they record is kept, and a terminal row never changes again.
StagesFenced ==
    [][/\ row'.turn # row.turn \/ row'.delivered # row.delivered
             \/ (row'.status # row.status /\ row.status = "PROCESSING")
             => \E w \in Workers : Holds(w) /\ wk'[w] # wk[w]
       /\ row.turn => row'.turn
       /\ row.delivered => row'.delivered
       /\ Terminal => row' = row]_vars

\* The turn under the event's key is ACTIVE and nobody executes it.
Stranded == turn = "ACTIVE" /\ turnBy = Nobody

\* Every admitted event comes to an end once failures cease: completed or
\* discarded.  It is retried for ever only while its installation is revoked
\* or its grant awaits repair, or after the process died that executed its turn
\* or could not store its failure (the row stays ACTIVE, and collectTurn takes it for one in progress).
EventEnds ==
    row.status # "none" ~>
        Terminal \/ Stranded \/ inst.status = "revoked" \/ inst.state # "IDLE"
=============================================================================
