---------------------------- MODULE ChannelGrant ----------------------------
(***************************************************************************)
(* The Slack grant of one channel installation: the bot token every reply  *)
(* is posted with, and the refresh token that replaces it before it        *)
(* expires.  A refresh token is single-use, so callers in several          *)
(* processes rotate it under a compare-and-set on the ChannelInstallation  *)
(* row (tokenRefreshState, tokenRefreshClaimId, tokenGeneration).          *)
(*                                                                         *)
(* A grant is a pair of numbers in the order Slack issued them.  The       *)
(* revision of the Credential row (its updatedAt) changes exactly when     *)
(* another grant is written to it, so the bot number stands for it.        *)
(***************************************************************************)
EXTENDS Integers, FiniteSets

CONSTANTS
    Workers,        \* processes that need a bot token, one call of each at a time
    Nobody,         \* a null column
    MaxGrants,      \* bound: no bot token nears its expiry once Slack has issued this many
    MaxFaults       \* bound: failures of Slack, of the database, of a process

ASSUME GrantAssumption ==
    /\ Nobody \notin Workers
    /\ MaxGrants \in Nat \ {0}
    /\ MaxFaults \in Nat

VARIABLES
    inst,           \* the ChannelInstallation row and its Credential
    spent,          \* refresh tokens Slack has consumed
    issued,         \* bot tokens Slack has issued
    ref,            \* each worker's call of getFreshBotToken
    installs,       \* times the app was installed
    faults,         \* failures so far
    rotating,       \* fixed: do the workspace's bot tokens expire?
    maxInstalls     \* fixed: bound on the times it installs the app

grantVars == <<inst, spent, issued, ref, installs, faults, rotating,
               maxInstalls>>

----------------------------------------------------------------------------
Grants == [bot : Nat, refresh : Nat]

NoGrant == [bot |-> 0, refresh |-> 0]

Points == {"none", "begin", "ask", "commit", "keep", "mark", "await", "have", "failed"}

\* A call that does not run.
NoCall == [at |-> "none", gen |-> 0, grant |-> NoGrant, got |-> NoGrant]

GrantInit ==
    /\ inst = [status |-> "active", gen |-> 1, state |-> "IDLE", claim |-> Nobody,
               grant |-> [bot |-> 1, refresh |-> 1], near |-> FALSE]
    /\ spent = {}
    /\ issued = 1
    /\ ref = [w \in Workers |-> NoCall]
    /\ installs = 1
    /\ faults = 0

\* One of the failures the bound allows.
Fault == faults < MaxFaults /\ faults' = faults + 1

At(w, p) == ref' = [ref EXCEPT ![w].at = p]

\* The call of w ends with the bot token b.
Have(w, b) == ref' = [ref EXCEPT ![w] = [NoCall EXCEPT !.at = "have", !.got.bot = b]]

Failed(w) == ref' = [ref EXCEPT ![w] = [NoCall EXCEPT !.at = "failed"]]

(* Faulty variants of actions below, each a mistake the code avoids; only   *)
(* mutation runs use them.                                                  *)

\* The claim is not a compare-and-set.
BeginRefresh_NoCompare(w) ==
    /\ ref[w].at = "begin"
    /\ inst' = [inst EXCEPT !.state = "REFRESHING", !.claim = w]
    /\ At(w, "ask")
    /\ UNCHANGED <<spent, issued, installs, faults>>

\* A failed request puts the row back to IDLE for the next attempt.
MarkRepair_Resets(w) ==
    /\ ref[w].at = "mark"
    /\ inst' = [inst EXCEPT !.state = "IDLE", !.claim = Nobody]
    /\ Failed(w)
    /\ UNCHANGED <<spent, issued, installs, faults>>

----------------------------------------------------------------------------
\* The row is still the one the refresh of w claimed.
Claimed(w) ==
    /\ inst.gen = ref[w].gen
    /\ inst.state = "REFRESHING"
    /\ inst.claim = w

\* getFreshBotToken on the row as the caller loaded it: a refresh under way or
\* broken fails the call, a token that is not about to expire is the answer.
LoadToken(w) ==
    /\ ref[w].at = "none"
    /\ \/ inst.state # "IDLE" /\ Failed(w)
       \/ inst.state = "IDLE" /\ ~inst.near /\ Have(w, inst.grant.bot)
       \/ /\ inst.state = "IDLE" /\ inst.near
          /\ ref' = [ref EXCEPT ![w] = [at |-> "begin", gen |-> inst.gen,
                                        grant |-> inst.grant, got |-> NoGrant]]
    /\ UNCHANGED <<inst, spent, issued, installs, faults>>

\* rotateBotToken and beginInstallationRefresh: compare-and-set to REFRESHING,
\* rolled back unless the credential is the one the caller saw.
BeginRefresh(w) ==
    /\ ref[w].at = "begin"
    /\ LET mine == /\ inst.status = "active" /\ inst.state = "IDLE"
                   /\ inst.gen = ref[w].gen  /\ inst.grant = ref[w].grant
       IN  \/ /\ mine
              /\ inst' = [inst EXCEPT !.state = "REFRESHING", !.claim = w]
              /\ At(w, "ask")
              /\ UNCHANGED faults
           \/ ~mine /\ At(w, "await") /\ UNCHANGED <<inst, faults>>
           \/ Fault /\ Failed(w) /\ UNCHANGED inst
    /\ UNCHANGED <<spent, issued, installs>>

\* performRefresh up to Slack's answer.  Slack issues a bot token and may roll
\* the refresh token, which consumes the old one; the answer may be lost after
\* that, and the request may fail or be rejected before it.
AskSlack(w) ==
    /\ ref[w].at = "ask"
    /\ \/ /\ ref[w].grant.refresh \notin spent
          /\ issued' = issued + 1
          /\ \E rolled \in BOOLEAN :
               LET r == IF rolled THEN issued + 1 ELSE ref[w].grant.refresh
               IN  /\ spent' = spent \cup (IF rolled THEN {ref[w].grant.refresh} ELSE {})
                   /\ \/ /\ ref' = [ref EXCEPT ![w].at = "commit",
                                               ![w].got = [bot |-> issued + 1, refresh |-> r]]
                         /\ UNCHANGED faults
                      \/ Fault /\ At(w, "mark")
       \/ /\ ref[w].grant.refresh \in spent
          /\ At(w, "mark")
          /\ UNCHANGED <<spent, issued, faults>>
       \/ Fault /\ At(w, "mark") /\ UNCHANGED <<spent, issued>>
    /\ UNCHANGED <<inst, installs>>

\* finalizeInstallationRefresh: grant and state commit together, or neither.
\* The call may throw before the commit, or after it when the row is read back.
\* A grant without expires_in leaves the expiry of the one before it.
FinalizeRefresh(w) ==
    /\ ref[w].at = "commit"
    /\ LET mine == Claimed(w) /\ inst.status = "active"
       IN  \/ /\ mine
              /\ \E near \in {FALSE, inst.near /\ issued < MaxGrants} :
                   inst' = [inst EXCEPT !.gen = @ + 1, !.state = "IDLE", !.claim = Nobody,
                                        !.grant = ref[w].got, !.near = near]
              /\ \/ Have(w, ref[w].got.bot) /\ UNCHANGED faults
                 \/ Fault /\ At(w, "keep")
           \/ ~mine /\ At(w, "await") /\ UNCHANGED <<inst, faults>>
           \/ Fault /\ At(w, "keep") /\ UNCHANGED <<inst>>
    /\ UNCHANGED <<spent, issued, installs>>

\* preserveInstallationRefreshGrantForRepair: the grant is kept but blocked.
\* The installation's status is not asked, its credential must not be revoked.
PreserveGrant(w) ==
    /\ ref[w].at = "keep"
    /\ LET mine == Claimed(w) /\ inst.status = "active"
       IN  \/ /\ mine
              /\ inst' = [inst EXCEPT !.gen = @ + 1, !.state = "REPAIR_REQUIRED",
                                      !.claim = Nobody, !.grant = ref[w].got, !.near = FALSE]
              /\ Failed(w)
              /\ UNCHANGED faults
           \/ ~mine /\ At(w, "mark") /\ UNCHANGED <<inst, faults>>
           \/ Fault /\ At(w, "mark") /\ UNCHANGED inst
    /\ UNCHANGED <<spent, issued, installs>>

\* markRefreshRepair: its failure is swallowed, and the row stays REFRESHING.
MarkRepair(w) ==
    /\ ref[w].at = "mark"
    /\ \/ /\ inst' = IF Claimed(w) THEN [inst EXCEPT !.state = "REPAIR_REQUIRED"] ELSE inst
          /\ UNCHANGED faults
       \/ Fault /\ UNCHANGED inst
    /\ Failed(w)
    /\ UNCHANGED <<spent, issued, installs>>

\* awaitRotatedToken: adopt a committed replacement, or give up after ten looks.
AwaitRotated(w) ==
    /\ ref[w].at = "await"
    /\ \/ inst.state = "IDLE" /\ ~inst.near /\ Have(w, inst.grant.bot)
       \/ Failed(w)
    /\ UNCHANGED <<inst, spent, issued, installs, faults>>

\* The stored bot token comes within 120 s of its expiry; Slack gives tokens of
\* an app without rotation none.
NearExpiry ==
    /\ rotating
    /\ ~inst.near
    /\ issued < MaxGrants
    /\ inst' = [inst EXCEPT !.near = TRUE]
    /\ UNCHANGED <<spent, issued, ref, installs, faults>>

\* upsertInstallationGrant: the OAuth callback of a new installation.
Reinstall ==
    /\ installs < maxInstalls
    /\ installs' = installs + 1
    /\ issued' = issued + 1
    /\ inst' = [status |-> "active", gen |-> inst.gen + 1, state |-> "IDLE", claim |-> Nobody,
                grant |-> [bot |-> issued + 1, refresh |-> issued + 1], near |-> FALSE]
    /\ UNCHANGED <<spent, ref, faults>>

\* revokeInstallations and revokeInstallation.
Revoked == [inst EXCEPT !.status = "revoked"]

\* What getFreshBotToken does next for w.
TokenStep(w) ==
    \/ BeginRefresh(w) \/ AskSlack(w) \/ FinalizeRefresh(w)
    \/ PreserveGrant(w) \/ MarkRepair(w) \/ AwaitRotated(w)

----------------------------------------------------------------------------
GrantTypeOK ==
    /\ inst \in [status : {"active", "revoked"}, gen : Nat \ {0},
                 state : {"IDLE", "REFRESHING", "REPAIR_REQUIRED"},
                 claim : Workers \cup {Nobody}, grant : Grants, near : BOOLEAN]
    /\ issued \in Nat \ {0}
    /\ spent \subseteq 1 .. issued
    /\ ref \in [Workers -> [at : Points, gen : Nat, grant : Grants, got : Grants]]
    /\ installs \in 1 .. maxInstalls
    /\ faults \in 0 .. MaxFaults
    /\ rotating \in BOOLEAN
    /\ maxInstalls \in Nat

\* A single-use refresh token is never presented again once Slack has consumed
\* it, and a row open for use never holds one: "a concurrent double-refresh
\* orphans one" (getFreshBotToken), and neither a lost answer, a failed commit,
\* a crash nor a reinstall in between may cause it.
GrantSpentOnce ==
    /\ \A w \in Workers : ref[w].at = "ask" => ref[w].grant.refresh \notin spent
    /\ inst.state = "IDLE" => inst.grant.refresh \notin spent
=============================================================================
