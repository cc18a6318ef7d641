--------------------------- MODULE Channels_proofs ---------------------------
(***************************************************************************)
(* Proofs about ChannelEvents and the grant it uses (ChannelGrant), for    *)
(* any number of processes, faults, installations and lease generations.   *)
(*                                                                         *)
(* GrantFlow says once which steps of the composed system touch the grant, *)
(* EventFlow what a step does to the inbox row, the turn and the workers;  *)
(* the invariants follow from these and from the actions they name.        *)
(***************************************************************************)
EXTENDS ChannelEvents, TLAPS

----------------------------------------------------------------------------
\* The refresh token the call of w holds: the one it presents, then the one it
\* was given.
TokenOf(w) == IF ref[w].at = "ask" THEN ref[w].grant.refresh ELSE ref[w].got.refresh

\* The call of w can still use its token: it is about to present it, or the row
\* is still the one it claimed, so that it can store it.
Live(w) ==
    \/ ref[w].at = "ask"
    \/ ref[w].at \in {"commit", "keep"} /\ Claimed(w)

\* Slack numbers what it issues, and nobody holds a number not yet issued.
Numbered ==
    /\ inst.grant.refresh \in 1 .. issued
    /\ \A w \in Workers :
         /\ ref[w].grant.refresh <= issued /\ ref[w].got.refresh <= issued
         /\ ref[w].at \in {"begin", "ask"} => ref[w].grant.refresh # 0
         /\ ref[w].at \in {"commit", "keep"} => ref[w].got.refresh # 0

\* No live token is consumed or held twice, and the one in a row open for use
\* is in nobody's hands.
TokenInv ==
    /\ Numbered
    /\ \A w \in Workers : Live(w) => TokenOf(w) \notin spent
    /\ \A v, w \in Workers : Live(v) /\ Live(w) /\ v # w => TokenOf(v) # TokenOf(w)
    /\ inst.state = "IDLE" =>
         /\ inst.grant.refresh \notin spent
         /\ \A w \in Workers : ref[w].at = "ask" => ref[w].grant.refresh # inst.grant.refresh

\* The turn under the event's key is executed only while it is ACTIVE, by the
\* one that turnBy names, and what has succeeded is counted once.
ExecutionInv ==
    /\ \A w \in Workers : wk[w].at = "running" => turnBy = w
    /\ turnBy # Nobody => turn = "ACTIVE"
    /\ answered = IF turn = "SUCCEEDED" THEN 1 ELSE 0

\* What Slack may show: messages under the event's one id.
Messages == [id : {<<"event">>}, text : {"answer", "connect"}]

\* What Slack shows is one message, and an answer rests on a recorded turn; a
\* request to link comes from a command or from an app that requires links.
ShownInv ==
    /\ \A m, n \in shown : m = n
    /\ \A m \in shown : /\ m.text = "answer" => row.turn
                        /\ kind # "command" /\ ~gated => m.text = "answer"

\* What a delivery may be recorded on.
Handled ==
    /\ kind \in {"message", "command"} => shown # {}
    /\ kind \in {"message", "quiet"} => row.turn \/ (gated /\ \E m \in shown : m.text = "connect")
    /\ kind = "message" /\ ~gated => \E m \in shown : m.text = "answer"

\* A worker's stage tells what has been done for the event before it, whoever
\* did it; a recorded turn succeeded, and a recorded delivery was one.
StageInv ==
    /\ row.turn => turn = "SUCCEEDED"
    /\ row.delivered /\ ~skipped => Handled
    /\ row.status = "COMPLETED" => row.delivered
    /\ Terminal => row.owner = Nobody
    /\ \A w \in Workers :
         /\ wk[w].turn => row.turn
         /\ wk[w].at = "record" => turn = "SUCCEEDED"
         /\ wk[w].at = "post" => row.turn
         /\ wk[w].at = "connect" => kind = "command" \/ gated
         /\ wk[w].at = "mark" /\ ~skipped => Handled

\* The inductive invariant.
ChannelInv == TypeOK /\ TokenInv /\ ExecutionInv /\ ShownInv /\ StageInv


----------------------------------------------------------------------------
(* The grant.                                                               *)

\* What a step of the composed system does to the grant: a step of a worker's
\* call, the end of one, a new installation, an ageing token, a revocation.
GrantStep ==
    \/ \E w \in Workers : LoadToken(w) \/ TokenStep(w)
    \/ \E w \in Workers : ref' = [ref EXCEPT ![w] = NoCall] /\ UNCHANGED <<inst, spent, issued>>
    \/ Reinstall
    \/ NearExpiry
    \/ inst' \in {inst, Revoked} /\ UNCHANGED <<spent, issued, ref>>

\* Every step of the composed system is one of these to the grant.
LEMMA GrantFlow == ASSUME Next PROVE GrantStep
<1>1. ASSUME NEW w \in Workers, Step(w) PROVE GrantStep
  <2>1. CASE ReadClaim(w) \/ CollectTurn(w) \/ OpenTurn(w) \/ EndTurn(w) \/ DrainSession(w)
    BY <2>1, Zenon DEF ReadClaim, CollectTurn, OpenTurn, EndTurn, DrainSession, grant, GrantStep
  <2>2. CASE RecordTurn(w) \/ PostReply(w) \/ RecordDelivery(w) \/ CompleteEvent(w)
    BY <2>2, Zenon DEF RecordTurn, PostReply, RecordDelivery, CompleteEvent, grant, GrantStep
  <2>3. CASE FailEvent(w) \/ DiscardEvent(w)
    BY <2>3, Zenon DEF FailEvent, DiscardEvent, Settle, grant, GrantStep
  <2>4. CASE ServeEvent(w)
    BY <2>4, Zenon DEF ServeEvent, GrantStep
  <2>5. CASE LoadInstallation(w)
    BY <2>5, Zenon DEF LoadInstallation, grant, GrantStep
  <2>6. CASE TakeToken(w)
    BY <2>6, Zenon DEF TakeToken, GrantStep
  <2>7. CASE RefreshToken(w)
    BY <2>7, Zenon DEF RefreshToken, GrantStep
  <2> QED
    BY <1>1, <2>1, <2>2, <2>3, <2>4, <2>5, <2>6, <2>7, Zenon DEF Step
<1>2. ASSUME NEW w \in Workers, Claim(w) \/ OtherEvent(w) \/ Renew(w) \/ Crash(w) PROVE GrantStep
  BY <1>2, Zenon DEF Claim, OtherEvent, Renew, Crash, grant, GrantStep
<1>3. CASE Deliver \/ LeaseExpires \/ RowDue \/ SessionStart \/ SessionEnd
  BY <1>3, Zenon DEF Deliver, LeaseExpires, RowDue, SessionStart, SessionEnd, grant, GrantStep
<1>4. CASE Workspace \/ Revoke
  BY <1>4, Zenon DEF Workspace, Revoke, GrantStep
<1> QED
  BY <1>1, <1>2, <1>3, <1>4, Zenon DEF Next


\* What the types of the row and of a call are.
Installations == [status : {"active", "revoked"}, gen : Nat \ {0},
                  state : {"IDLE", "REFRESHING", "REPAIR_REQUIRED"},
                  claim : Workers \cup {Nobody}, grant : Grants, near : BOOLEAN]

Calls == [at : Points, gen : Nat, grant : Grants, got : Grants]

GrantTyped ==
    /\ inst \in Installations
    /\ ref \in [Workers -> Calls]
    /\ issued \in Nat \ {0}
    /\ spent \subseteq 1 .. issued

\* The call of w moves to p and keeps what it holds; a call that ends holds
\* nothing.
LEMMA CallMoves ==
    ASSUME GrantTyped, NEW w \in Workers, NEW p \in Points, At(w, p)
    PROVE  /\ ref' \in [Workers -> Calls]
           /\ \A v \in Workers : v # w => ref'[v] = ref[v]
           /\ ref'[w].at = p /\ ref'[w].gen = ref[w].gen
           /\ ref'[w].grant = ref[w].grant /\ ref'[w].got = ref[w].got
BY Zenon DEF GrantTyped, Calls, At

\* A call that returns, throws or dies with its process holds no token.
LEMMA CallEnds ==
    ASSUME GrantTyped, NEW w \in Workers,
           Failed(w) \/ (\E b \in Nat : Have(w, b)) \/ ref' = [ref EXCEPT ![w] = NoCall]
    PROVE  /\ ref' \in [Workers -> Calls]
           /\ \A v \in Workers : v # w => ref'[v] = ref[v]
           /\ ref'[w].at \in {"failed", "have", "none"}
           /\ ref'[w].grant.refresh = 0 /\ ref'[w].got.refresh = 0
<1>1. ASSUME NEW b \in Nat, Have(w, b)
      PROVE  \E c \in Calls : /\ ref' = [ref EXCEPT ![w] = c] /\ c.at = "have"
                              /\ c.grant.refresh = 0 /\ c.got.refresh = 0
  <2> DEFINE c == [NoCall EXCEPT !.at = "have", !.got.bot = b]
  <2>1. NoCall \in Calls /\ NoCall.grant.refresh = 0 /\ NoCall.got.refresh = 0
    BY Zenon DEF Calls, NoCall, NoGrant, Grants, Points
  <2>2. c \in Calls /\ c.at = "have" /\ c.grant.refresh = 0 /\ c.got.refresh = 0
    BY <2>1, Zenon DEF Calls, Grants, Points
  <2> QED
    BY <1>1, <2>1, <2>2, Zenon DEF Have
<1>2. CASE Failed(w)
  BY <1>2, Zenon DEF GrantTyped, Failed, Calls, NoCall, NoGrant, Grants, Points
<1>3. CASE ref' = [ref EXCEPT ![w] = NoCall]
  BY <1>3 DEF GrantTyped, Calls, NoCall, NoGrant, Grants, Points
<1> QED
  BY <1>1, <1>2, <1>3 DEF GrantTyped


\* A call that does not take up a token disturbs no token, while the row is
\* claimed by no other call and opened with no other grant.
LEMMA Undisturbed ==
    ASSUME GrantTyped, TokenInv, NEW w \in Workers,
           \A v \in Workers : v # w => ref'[v] = ref[v],
           ref'[w].at \notin {"ask", "commit", "keep"},
           ref'[w].grant.refresh <= issued /\ ref'[w].got.refresh <= issued,
           UNCHANGED <<spent, issued>>,
           ref'[w].at = "begin" => ref'[w].grant.refresh # 0,
           inst'.grant.refresh \in 1 .. issued,
           \A v \in Workers : v # w /\ Claimed(v)' => Claimed(v),
           inst'.state = "IDLE" => inst.state = "IDLE" /\ inst'.grant = inst.grant
    PROVE  TokenInv'
<1>1. Numbered'
  BY DEF TokenInv, Numbered
<1>2. \A v \in Workers : Live(v)' => v # w /\ Live(v) /\ TokenOf(v)' = TokenOf(v)
  BY DEF Live, TokenOf
<1> QED
  BY <1>1, <1>2 DEF TokenInv

\* The end of a call leaves every token where it was.
LEMMA TokensEnd ==
    ASSUME GrantTyped, TokenInv, NEW w \in Workers,
           Failed(w) \/ (\E b \in Nat : Have(w, b)) \/ ref' = [ref EXCEPT ![w] = NoCall],
           UNCHANGED <<inst, spent, issued>>
    PROVE  TokenInv'
<1>1. /\ \A v \in Workers : v # w => ref'[v] = ref[v]
      /\ ref'[w].at \notin {"begin", "ask", "commit", "keep"}
      /\ ref'[w].grant.refresh = 0 /\ ref'[w].got.refresh = 0
  BY CallEnds
<1>2. 0 <= issued /\ inst'.grant.refresh \in 1 .. issued
  BY DEF GrantTyped, TokenInv, Numbered
<1> QED
  BY <1>1, <1>2, Undisturbed DEF Claimed

\* getFreshBotToken reads the row; a call that has yet to claim it holds no token.
LEMMA TokensLoad ==
    ASSUME GrantTyped, TokenInv, NEW w \in Workers, LoadToken(w)
    PROVE  ref' \in [Workers -> Calls] /\ TokenInv'
<1>1. UNCHANGED <<inst, spent, issued>> /\ inst.grant.bot \in Nat
  BY DEF LoadToken, GrantTyped, Installations, Grants
<1>2. CASE Failed(w) \/ Have(w, inst.grant.bot)
  <2>1. Failed(w) \/ (\E b \in Nat : Have(w, b))
    BY <1>1, <1>2
  <2> QED
    BY <1>1, <2>1, CallEnds, TokensEnd
<1>3. CASE ref' = [ref EXCEPT ![w] = [at |-> "begin", gen |-> inst.gen, grant |-> inst.grant, got |-> NoGrant]]
  <2>1. /\ ref' \in [Workers -> Calls]
        /\ \A v \in Workers : v # w => ref'[v] = ref[v]
        /\ ref'[w].at = "begin" /\ ref'[w].grant = inst.grant /\ ref'[w].got.refresh = 0
    BY <1>3 DEF GrantTyped, Installations, Calls, NoGrant, Grants, Points
  <2> QED
    BY <1>1, <2>1, Undisturbed DEF Claimed, TokenInv, Numbered, GrantTyped
<1> QED
  BY <1>2, <1>3 DEF LoadToken


\* beginInstallationRefresh takes up the row's token, which nobody else holds.
LEMMA TokensBegin ==
    ASSUME GrantTyped, TokenInv, NEW w \in Workers, BeginRefresh(w)
    PROVE  GrantTyped' /\ TokenInv'
<1>1. UNCHANGED <<spent, issued>> /\ ref[w].at = "begin"
  BY DEF BeginRefresh
<1>2. CASE Failed(w) /\ UNCHANGED inst
  BY <1>1, <1>2, CallEnds, TokensEnd, Zenon DEF GrantTyped
<1>3. CASE At(w, "await") /\ UNCHANGED inst
  <2>1. ref' \in [Workers -> Calls] /\ ref'[w].at = "await" /\ (\A v \in Workers : v # w => ref'[v] = ref[v])
        /\ ref'[w].grant = ref[w].grant /\ ref'[w].got = ref[w].got
    BY <1>3, CallMoves, Zenon DEF Points
  <2> QED
    BY <1>1, <1>3, <2>1, Undisturbed DEF GrantTyped, Claimed, TokenInv, Numbered
<1>4. ASSUME inst.state = "IDLE", inst.grant = ref[w].grant, At(w, "ask"),
             inst' = [inst EXCEPT !.state = "REFRESHING", !.claim = w]
      PROVE  GrantTyped' /\ TokenInv'
  <2>1. /\ ref' \in [Workers -> Calls] /\ \A v \in Workers : v # w => ref'[v] = ref[v]
        /\ ref'[w].at = "ask" /\ ref'[w].grant = ref[w].grant /\ ref'[w].got = ref[w].got
    BY <1>4, CallMoves, Zenon DEF Points
  <2>2. /\ inst' \in Installations /\ inst'.state = "REFRESHING" /\ inst'.claim = w
        /\ inst'.grant = inst.grant
    BY <1>4, Zenon DEF GrantTyped, Installations
  <2>3. \A v \in Workers : v # w /\ Live(v)' => ref[v].at = "ask" /\ Live(v) /\ TokenOf(v)' = TokenOf(v)
    BY <2>1, <2>2, Zenon DEF Live, TokenOf, Claimed
  <2>4. TokenOf(w)' = inst.grant.refresh
    BY <1>4, <2>1 DEF TokenOf
  <2>5. \A v \in Workers : v # w /\ Live(v)' => TokenOf(v)' # TokenOf(w)'
    BY <1>4, <2>3, <2>4 DEF TokenInv, TokenOf
  <2>6. Numbered'
    BY <1>1, <2>1, <2>2 DEF TokenInv, Numbered
  <2> QED
    BY <1>1, <1>4, <2>1, <2>2, <2>3, <2>4, <2>5, <2>6 DEF GrantTyped, TokenInv
<1> QED
  BY <1>2, <1>3, <1>4, Zenon DEF BeginRefresh

\* Slack consumes a token only when the call holds it alone, and numbers what
\* it issues afresh.
LEMMA TokensAsk ==
    ASSUME GrantTyped, TokenInv, NEW w \in Workers, AskSlack(w)
    PROVE  GrantTyped' /\ TokenInv'
<1>1. UNCHANGED inst /\ ref[w].at = "ask"
  BY Zenon DEF AskSlack
<1>2. CASE At(w, "mark") /\ UNCHANGED <<spent, issued>>
  <2>1. ref' \in [Workers -> Calls] /\ ref'[w].at = "mark" /\ (\A v \in Workers : v # w => ref'[v] = ref[v])
        /\ ref'[w].grant = ref[w].grant /\ ref'[w].got = ref[w].got
    BY <1>2, CallMoves, Zenon DEF Points
  <2> QED
    BY <1>1, <1>2, <2>1, Undisturbed DEF GrantTyped, Claimed, TokenInv, Numbered
<1>3. ASSUME NEW r \in {ref[w].grant.refresh, issued + 1}, NEW old,
             issued' = issued + 1, spent' = spent \cup old,
             r = issued + 1 => old = {ref[w].grant.refresh},
             r # issued + 1 => old = {},
             ref[w].grant.refresh \notin spent,
             \/ ref' = [ref EXCEPT ![w].at = "commit", ![w].got = [bot |-> issued + 1, refresh |-> r]]
             \/ At(w, "mark")
      PROVE  GrantTyped' /\ TokenInv'
  <2>0. /\ issued \in Nat /\ ref[w].grant.refresh \in 1 .. issued
        /\ r \in 1 .. issued + 1 /\ r # ref[w].grant.refresh => r = issued + 1
    BY <1>1, <1>3 DEF GrantTyped, Calls, Grants, TokenInv, Numbered
  <2>1. /\ ref' \in [Workers -> Calls] /\ \A v \in Workers : v # w => ref'[v] = ref[v]
        /\ ref'[w].at \in {"commit", "mark"} /\ ref'[w].grant = ref[w].grant
        /\ ref'[w].at = "commit" => ref'[w].got.refresh = r
        /\ ref'[w].at = "mark" => ref'[w].got = ref[w].got
    <3>1. CASE At(w, "mark")
      BY <3>1, CallMoves, Zenon DEF Points
    <3>2. CASE ref' = [ref EXCEPT ![w].at = "commit", ![w].got = [bot |-> issued + 1, refresh |-> r]]
      <4>1. [bot |-> issued + 1, refresh |-> r] \in Grants
        BY <2>0 DEF Grants
      <4> QED
        BY <3>2, <4>1, Zenon DEF GrantTyped, Calls, Points
    <3> QED
      BY <1>3, <3>1, <3>2, Zenon
  <2>2. \A v \in Workers : v # w /\ Live(v)' => Live(v) /\ TokenOf(v)' = TokenOf(v)
    BY <1>1, <2>1 DEF Live, TokenOf, Claimed
  <2>3. Live(w)' => TokenOf(w)' = r
    BY <2>1 DEF Live, TokenOf
  <2>4. \A v \in Workers : v # w /\ Live(v) =>
            TokenOf(v) # ref[w].grant.refresh /\ TokenOf(v) <= issued /\ TokenOf(v) \notin spent
    BY <1>1 DEF TokenInv, TokenOf, Live, Numbered
  <2>5. r \notin spent' /\ \A v \in Workers : v # w /\ Live(v) => TokenOf(v) \notin spent' /\ TokenOf(v) # r
    BY <1>3, <2>0, <2>4 DEF GrantTyped
  <2>6. Numbered'
    <3>1. inst'.grant.refresh \in 1 .. issued'
      BY <1>1, <1>3, <2>0 DEF TokenInv, Numbered
    <3>2. \A v \in Workers : /\ ref[v].grant.refresh \in Nat /\ ref[v].grant.refresh <= issued
                             /\ ref[v].got.refresh \in Nat /\ ref[v].got.refresh <= issued
      BY DEF GrantTyped, Calls, Grants, TokenInv, Numbered
    <3>3. \A v \in Workers : v # w => /\ ref'[v].grant.refresh <= issued + 1
                                      /\ ref'[v].got.refresh <= issued + 1
      BY <2>0, <2>1, <3>2
    <3>4. ref'[w].grant.refresh <= issued + 1 /\ ref'[w].got.refresh <= issued + 1
      BY <2>0, <2>1, <3>2
    <3>5. \A v \in Workers : /\ ref'[v].at \in {"begin", "ask"} => ref'[v].grant.refresh # 0
                             /\ ref'[v].at \in {"commit", "keep"} => ref'[v].got.refresh # 0
      BY <2>0, <2>1 DEF TokenInv, Numbered
    <3> QED
      BY <1>3, <3>1, <3>3, <3>4, <3>5 DEF Numbered
  <2>7. spent' \subseteq 1 .. issued'
    BY <1>3, <2>0 DEF GrantTyped
  <2>8. inst.state = "IDLE" => inst.grant.refresh \notin spent'
    BY <1>1, <1>3 DEF TokenInv
  <2>9. \A v \in Workers : Live(v)' => TokenOf(v)' \notin spent'
    BY <2>2, <2>3, <2>5, Zenon
  <2>10. \A u, v \in Workers : Live(u)' /\ Live(v)' /\ u # v => TokenOf(u)' # TokenOf(v)'
    BY <2>2, <2>3, <2>5, Zenon DEF TokenInv
  <2>11. \A v \in Workers : ref'[v].at = "ask" => ref'[v] = ref[v]
    BY <2>1
  <2>12. GrantTyped'
    BY <1>1, <1>3, <2>0, <2>1, <2>7 DEF GrantTyped
  <2> QED
    BY <1>1, <2>6, <2>8, <2>9, <2>10, <2>11, <2>12 DEF TokenInv
<1>4. ASSUME NEW rolled \in BOOLEAN, issued' = issued + 1, ref[w].grant.refresh \notin spent,
             spent' = spent \cup (IF rolled THEN {ref[w].grant.refresh} ELSE {}),
             \/ ref' = [ref EXCEPT ![w].at = "commit", ![w].got =
                    [bot |-> issued + 1,
                     refresh |-> IF rolled THEN issued + 1 ELSE ref[w].grant.refresh]]
             \/ At(w, "mark")
      PROVE  GrantTyped' /\ TokenInv'
  <2>1. ref[w].grant.refresh # issued + 1
    BY DEF GrantTyped, Calls, Grants, TokenInv, Numbered
  <2>2. CASE rolled
    BY <1>3, <1>4, <2>1, <2>2, Zenon
  <2>3. CASE ~rolled
    BY <1>3, <1>4, <2>1, <2>3, Zenon
  <2> QED
    BY <2>2, <2>3
<1> QED
  BY <1>2, <1>4, Zenon DEF AskSlack


\* A replacement is stored only by the call whose claim the row still shows,
\* and is the token that call holds alone.
LEMMA TokensStore ==
    ASSUME GrantTyped, TokenInv, NEW w \in Workers, ref[w].at \in {"commit", "keep"}, Claimed(w),
           NEW state \in {"IDLE", "REPAIR_REQUIRED"}, NEW near \in BOOLEAN,
           inst' = [inst EXCEPT !.gen = @ + 1, !.state = state, !.claim = Nobody,
                                !.grant = ref[w].got, !.near = near],
           UNCHANGED <<spent, issued>>,
           Failed(w) \/ (\E b \in Nat : Have(w, b)) \/ At(w, "keep")
    PROVE  GrantTyped' /\ TokenInv'
<1>1. /\ inst' \in Installations /\ inst'.state # "REFRESHING" /\ inst'.grant = ref[w].got
  <2>1. inst \in Installations /\ ref[w].got \in Grants /\ inst.gen + 1 \in Nat \ {0}
    BY DEF GrantTyped, Installations, Calls
  <2> QED
    BY <2>1, Zenon DEF Installations
<1>2. /\ ref' \in [Workers -> Calls] /\ \A v \in Workers : v # w => ref'[v] = ref[v]
      /\ ref'[w].at \notin {"begin", "ask", "commit"}
      /\ ref'[w].grant.refresh \in {0, ref[w].grant.refresh}
      /\ ref'[w].at # "keep" => ref'[w].got.refresh = 0
      /\ ref'[w].at = "keep" => ref'[w].got = ref[w].got
  <2>1. CASE At(w, "keep")
    BY <2>1, CallMoves, Zenon DEF Points
  <2>2. CASE Failed(w) \/ \E b \in Nat : Have(w, b)
    BY <2>2, CallEnds
  <2> QED
    BY <2>1, <2>2, Zenon
<1>3. Live(w) /\ TokenOf(w) = ref[w].got.refresh /\ ref[w].got.refresh \in 1 .. issued
  BY DEF Live, TokenOf, TokenInv, Numbered, GrantTyped, Calls, Grants
<1>4. Numbered'
  BY <1>1, <1>2, <1>3 DEF TokenInv, Numbered, GrantTyped
<1>5. \A v \in Workers : Live(v)' => v # w /\ ref[v].at = "ask" /\ Live(v) /\ TokenOf(v)' = TokenOf(v)
  BY <1>1, <1>2, Zenon DEF Live, TokenOf, Claimed
<1>6. \A v \in Workers : ref'[v].at = "ask" => /\ v # w /\ ref'[v] = ref[v] /\ Live(v)
                                               /\ TokenOf(v) = ref[v].grant.refresh
  BY <1>2 DEF Live, TokenOf
<1>7. inst'.grant.refresh \notin spent' /\ \A v \in Workers : ref'[v].at = "ask" => ref'[v].grant.refresh # inst'.grant.refresh
  BY <1>1, <1>3, <1>6 DEF TokenInv
<1> QED
  BY <1>1, <1>2, <1>4, <1>5, <1>7 DEF GrantTyped, TokenInv

\* finalizeInstallationRefresh, whether it commits, finds the row taken over or throws.
LEMMA TokensFinalize ==
    ASSUME GrantTyped, TokenInv, NEW w \in Workers, FinalizeRefresh(w)
    PROVE  GrantTyped' /\ TokenInv'
<1>1. UNCHANGED <<spent, issued>> /\ ref[w].at = "commit" /\ ref[w].got.bot \in Nat
  BY DEF FinalizeRefresh, GrantTyped, Calls, Grants
<1>2. CASE (At(w, "await") \/ At(w, "keep")) /\ UNCHANGED inst
  <2>1. /\ ref' \in [Workers -> Calls] /\ \A v \in Workers : v # w => ref'[v] = ref[v]
        /\ ref'[w].at \in {"await", "keep"} /\ ref'[w].gen = ref[w].gen
        /\ ref'[w].grant = ref[w].grant /\ ref'[w].got = ref[w].got
    BY <1>2, CallMoves, Zenon DEF Points
  <2>2. \A v \in Workers : /\ Live(v)' => Live(v) /\ TokenOf(v)' = TokenOf(v)
                           /\ ref'[v].at = "ask" => ref'[v] = ref[v]
    BY <1>1, <1>2, <2>1 DEF Live, TokenOf, Claimed
  <2>3. Numbered'
    BY <1>1, <1>2, <2>1 DEF TokenInv, Numbered
  <2> QED
    BY <1>1, <1>2, <2>1, <2>2, <2>3 DEF GrantTyped, TokenInv
<1>3. ASSUME Claimed(w), Have(w, ref[w].got.bot) \/ At(w, "keep"),
             NEW near \in {FALSE, inst.near /\ issued < MaxGrants},
             inst' = [inst EXCEPT !.gen = @ + 1, !.state = "IDLE", !.claim = Nobody,
                                  !.grant = ref[w].got, !.near = near]
      PROVE  GrantTyped' /\ TokenInv'
  <2>1. near \in BOOLEAN
    BY Zenon
  <2> QED
    BY <1>1, <1>3, <2>1, TokensStore, Zenon
<1> QED
  BY <1>2, <1>3, Zenon DEF FinalizeRefresh


\* preserveInstallationRefreshGrantForRepair, and its failures.
LEMMA TokensPreserve ==
    ASSUME GrantTyped, TokenInv, NEW w \in Workers, PreserveGrant(w)
    PROVE  GrantTyped' /\ TokenInv'
<1>1. UNCHANGED <<spent, issued>> /\ ref[w].at = "keep"
  BY Zenon DEF PreserveGrant
<1>2. CASE At(w, "mark") /\ UNCHANGED inst
  <2>1. ref' \in [Workers -> Calls] /\ ref'[w].at = "mark" /\ (\A v \in Workers : v # w => ref'[v] = ref[v])
        /\ ref'[w].grant = ref[w].grant /\ ref'[w].got = ref[w].got
    BY <1>2, CallMoves, Zenon DEF Points
  <2> QED
    BY <1>1, <1>2, <2>1, Undisturbed DEF GrantTyped, Claimed, TokenInv, Numbered
<1>3. ASSUME Claimed(w), Failed(w),
             inst' = [inst EXCEPT !.gen = @ + 1, !.state = "REPAIR_REQUIRED",
                                  !.claim = Nobody, !.grant = ref[w].got, !.near = FALSE]
      PROVE  GrantTyped' /\ TokenInv'
  BY <1>1, <1>3, TokensStore, Zenon
<1> QED
  BY <1>2, <1>3, Zenon DEF PreserveGrant

\* markRefreshRepair closes the row and stores no token.
LEMMA TokensMark ==
    ASSUME GrantTyped, TokenInv, NEW w \in Workers, MarkRepair(w)
    PROVE  GrantTyped' /\ TokenInv'
<1>1. UNCHANGED <<spent, issued>> /\ Failed(w)
  BY Zenon DEF MarkRepair
<1>2. CASE UNCHANGED inst
  BY <1>1, <1>2, CallEnds, TokensEnd, Zenon DEF GrantTyped
<1>3. CASE inst' = [inst EXCEPT !.state = "REPAIR_REQUIRED"]
  <2>1. inst' \in Installations /\ inst'.state = "REPAIR_REQUIRED" /\ inst'.grant = inst.grant
    BY <1>3, Zenon DEF GrantTyped, Installations
  <2>2. /\ ref' \in [Workers -> Calls] /\ \A v \in Workers : v # w => ref'[v] = ref[v]
        /\ ref'[w].at \notin {"begin", "ask", "commit", "keep"}
        /\ ref'[w].grant.refresh = 0 /\ ref'[w].got.refresh = 0
    BY <1>1, CallEnds, Zenon
  <2>3. 0 <= issued /\ inst'.grant.refresh \in 1 .. issued
    BY <2>1 DEF GrantTyped, TokenInv, Numbered
  <2> QED
    BY <1>1, <2>1, <2>2, <2>3, Undisturbed, Zenon DEF GrantTyped, Claimed
<1> QED
  BY <1>2, <1>3, Zenon DEF MarkRepair

\* awaitRotatedToken only reads.
LEMMA TokensAwait ==
    ASSUME GrantTyped, TokenInv, NEW w \in Workers, AwaitRotated(w)
    PROVE  GrantTyped' /\ TokenInv'
<1>1. /\ UNCHANGED <<inst, spent, issued>>
      /\ Failed(w) \/ \E b \in Nat : Have(w, b)
  BY Zenon DEF AwaitRotated, GrantTyped, Installations, Grants
<1> QED
  BY <1>1, CallEnds, TokensEnd, Zenon DEF GrantTyped

\* A new installation brings a token of its own, and disowns every call.
LEMMA TokensReinstall ==
    ASSUME GrantTyped, TokenInv, Reinstall
    PROVE  GrantTyped' /\ TokenInv'
<1>1. /\ UNCHANGED <<spent, ref>> /\ issued' = issued + 1 /\ issued \in Nat /\ issued + 1 \in Nat \ {0}
      /\ inst.gen + 1 \in Nat \ {0}
  BY DEF Reinstall, GrantTyped, Installations
<1>2. inst' \in Installations /\ inst'.state = "IDLE" /\ inst'.grant.refresh = issued + 1
  <2>1. [bot |-> issued + 1, refresh |-> issued + 1] \in Grants
    BY <1>1, Zenon DEF Grants
  <2> QED
    BY <1>1, <2>1, Zenon DEF Reinstall, Installations
<1>3. \A w \in Workers : Live(w)' => ref[w].at = "ask" /\ Live(w) /\ TokenOf(w)' = TokenOf(w)
  BY <1>1, <1>2, Zenon DEF Live, TokenOf, Claimed
<1>4. Numbered'
  BY <1>1, <1>2 DEF TokenInv, Numbered, GrantTyped, Calls, Grants
<1>5. issued + 1 \notin spent /\ \A w \in Workers : ref[w].grant.refresh # issued + 1
  BY <1>1 DEF GrantTyped, TokenInv, Numbered
<1>6. spent' \subseteq 1 .. issued'
  BY <1>1 DEF GrantTyped
<1> QED
  BY <1>1, <1>2, <1>3, <1>4, <1>5, <1>6 DEF GrantTyped, TokenInv

\* Every step keeps the tokens apart.
LEMMA TokensKept ==
    ASSUME GrantTyped, TokenInv, GrantStep
    PROVE  GrantTyped' /\ TokenInv'
<1>1. ASSUME NEW w \in Workers, LoadToken(w) PROVE GrantTyped' /\ TokenInv'
  BY <1>1, TokensLoad, Zenon DEF GrantTyped, LoadToken
<1>2. ASSUME NEW w \in Workers, TokenStep(w) PROVE GrantTyped' /\ TokenInv'
  BY <1>2, TokensBegin, TokensAsk, TokensFinalize, TokensPreserve, TokensMark, TokensAwait, Zenon DEF TokenStep
<1>3. ASSUME NEW w \in Workers, ref' = [ref EXCEPT ![w] = NoCall], UNCHANGED <<inst, spent, issued>>
      PROVE  GrantTyped' /\ TokenInv'
  BY <1>3, CallEnds, TokensEnd, Zenon DEF GrantTyped
<1>4. CASE inst' \in {inst, Revoked, [inst EXCEPT !.near = TRUE]} /\ UNCHANGED <<spent, issued, ref>>
  <2>1. /\ inst' \in Installations /\ inst'.state = inst.state /\ inst'.grant = inst.grant
        /\ inst'.gen = inst.gen /\ inst'.claim = inst.claim
    BY <1>4, Zenon DEF GrantTyped, Installations, Revoked
  <2> QED
    BY <1>4, <2>1 DEF GrantTyped, TokenInv, Numbered, Live, TokenOf, Claimed
<1> QED
  BY <1>1, <1>2, <1>3, <1>4, TokensReinstall, Zenon DEF GrantStep, NearExpiry


----------------------------------------------------------------------------
(* The event.                                                               *)

InboxRows == [status : Statuses, due : BOOLEAN, owner : Workers \cup {Nobody, Gone},
              gen : 0 .. Generations - 1, leased : BOOLEAN, turn : BOOLEAN,
              delivered : BOOLEAN]

Works == [at : Stages, gen : 0 .. Generations - 1, aborted : BOOLEAN, turn : BOOLEAN]

EventTyped == row \in InboxRows /\ wk \in [Workers -> Works] /\ shown \subseteq Messages

Acts(w) == Claim(w) \/ OtherEvent(w) \/ Step(w) \/ Renew(w) \/ Crash(w)

\* What the stage w reaches tells of what has been done.
Moved(w) ==
    /\ wk' \in [Workers -> Works]
    /\ \A v \in Workers : v # w => wk'[v] = wk[v]
    /\ wk'[w].turn => wk[w].turn \/ row.turn
    /\ wk'[w].at = "record" => wk[w].at = "record" \/ turn' = "SUCCEEDED"
    /\ wk'[w].at = "post" => wk[w].at = "post" \/ wk[w].turn \/ row'.turn
    /\ wk'[w].at = "connect" => wk[w].at = "connect" \/ kind = "command" \/ gated
    /\ wk'[w].at = "mark" =>
         \/ wk[w].at = "mark" \/ kind = "uninstall" \/ skipped'
         \/ kind = "quiet" /\ (wk[w].turn \/ row'.turn)
         \/ wk[w].at \in {"post", "connect"} /\ shown' # {}

\* The turn is opened where there is none, and ended by whoever executes it.
TurnWritten(w) ==
    \/ /\ UNCHANGED <<turn, answered>>
       /\ turnBy' = turnBy
       /\ wk'[w].at = "running" => wk[w].at = "running"
    \/ /\ UNCHANGED <<turn, answered>>
       /\ turnBy' = Nobody /\ turnBy = w /\ wk'[w].at # "running"
    \/ turn = "none" /\ turn' = "ACTIVE" /\ turnBy' = w /\ UNCHANGED answered
    \/ /\ wk[w].at = "running" /\ wk'[w].at # "running" /\ turnBy' = Nobody
       /\ \/ turn' = "SUCCEEDED" /\ answered' = answered + 1
          \/ turn' \in {"none", "ACTIVE"} /\ UNCHANGED answered

\* The row's stages are written by the holder of the lease, as it moves on.
RowWritten(w) ==
    /\ row' \in InboxRows
    /\ row'.turn # row.turn \/ row'.delivered # row.delivered
          \/ (row'.status # row.status /\ row.status = "PROCESSING") => Holds(w) /\ wk'[w] # wk[w]
    /\ row'.turn # row.turn => row'.turn /\ wk[w].at = "record"
    /\ row'.delivered # row.delivered => row'.delivered /\ wk[w].at = "mark"
    /\ row'.status = "COMPLETED" => row.status = "COMPLETED" \/ row.delivered
    /\ row'.status \in {"COMPLETED", "DISCARDED"} => Terminal \/ row'.owner = Nobody
    /\ Terminal /\ row.owner = Nobody => row' = row

\* A message comes to Slack when it shows none; it stays shown, and a skipped
\* event skipped.
ReplyWritten(w) ==
    /\ \/ shown' = shown
       \/ \E m \in Messages : /\ shown = {} /\ shown' = {m}
                              /\ \/ wk[w].at = "post" /\ m.text = "answer"
                                 \/ wk[w].at = "connect" /\ m.text = "connect"
    /\ skipped' = skipped \/ skipped' = TRUE

\* A worker moves on to p, or to fail when its lease was lost.
LEMMA StageMoves ==
    ASSUME EventTyped, NEW w \in Workers, NEW p \in Stages, Go(w, p) \/ Throw(w, p)
    PROVE  /\ wk' \in [Workers -> Works]
           /\ \A v \in Workers : v # w => wk'[v] = wk[v]
           /\ wk'[w].at = p \/ (wk'[w].at = "fail" /\ wk[w].aborted /\ Go(w, p))
           /\ wk'[w].turn = wk[w].turn
BY DEF EventTyped, Works, Stages, Go, Throw

\* processInbox returns, or its process dies.
LEMMA StageLeft ==
    ASSUME EventTyped, NEW w \in Workers, Leave(w)
    PROVE  /\ wk' \in [Workers -> Works]
           /\ \A v \in Workers : v # w => wk'[v] = wk[v]
           /\ wk'[w].at = "idle" /\ ~wk'[w].turn
BY InboxAssumption DEF EventTyped, Works, Stages, Leave, NoWork


Effect(w) == Moved(w) /\ TurnWritten(w) /\ RowWritten(w) /\ ReplyWritten(w)

\* A stage that does not write the row.
LEMMA RowKept ==
    ASSUME EventTyped, NEW w \in Workers, row' = row
    PROVE  RowWritten(w)
BY Zenon DEF EventTyped, RowWritten, Terminal

\* Stages up to the turn.
LEMMA EarlyStages ==
    ASSUME EventTyped, NEW w \in Workers,
           ReadClaim(w) \/ ServeEvent(w) \/ LoadInstallation(w) \/ TakeToken(w) \/ RefreshToken(w)
    PROVE  Effect(w)
<1>1. UNCHANGED <<row, turns, shown>> /\ RowWritten(w)
  BY RowKept, Zenon DEF ReadClaim, ServeEvent, LoadInstallation, TakeToken, RefreshToken
<1>2. UNCHANGED <<turn, turnBy, answered>>
  BY <1>1, Zenon DEF turns
<1>3. CASE ReadClaim(w)
  <2>1. UNCHANGED skipped
    BY <1>3, Zenon DEF ReadClaim
  <2>2. CASE Leave(w)
    BY <1>1, <1>2, <2>1, <2>2, StageLeft, Zenon DEF Effect, Moved, TurnWritten, ReplyWritten
  <2>3. CASE wk' = [wk EXCEPT ![w] = [at |-> IF row.delivered THEN "complete" ELSE "serve",
                                      gen |-> row.gen, aborted |-> FALSE, turn |-> row.turn]]
    <3>1. /\ wk' \in [Workers -> Works] /\ \A v \in Workers : v # w => wk'[v] = wk[v]
          /\ wk'[w].at \in {"complete", "serve"} /\ wk'[w].turn = row.turn
      BY <2>3, Zenon DEF EventTyped, InboxRows, Works, Stages
    <3> QED
      BY <1>1, <1>2, <2>1, <3>1, Zenon DEF Effect, Moved, TurnWritten, ReplyWritten
  <2> QED
    BY <1>3, <2>2, <2>3, Zenon DEF ReadClaim
<1>4. CASE ServeEvent(w)
  <2>1. /\ UNCHANGED skipped
        /\ \/ kind = "uninstall" /\ Go(w, "mark")
           \/ \E p \in {"token", "fail"} : Go(w, p) \/ Throw(w, p)
    BY <1>4, Zenon DEF ServeEvent
  <2> QED
    BY <1>1, <1>2, <2>1, StageMoves, Zenon DEF Effect, Moved, TurnWritten, ReplyWritten, Stages
<1>5. CASE LoadInstallation(w)
  <2>1. \/ UNCHANGED <<wk, skipped>>
        \/ skipped' = TRUE /\ \E p \in {"idle", "mark"} : Go(w, p)
        \/ UNCHANGED skipped /\ \E p \in {"idle", "fail"} : Throw(w, p)
    BY <1>5, Zenon DEF LoadInstallation
  <2> QED
    BY <1>1, <1>2, <2>1, StageMoves, Zenon DEF Effect, Moved, TurnWritten, ReplyWritten, Stages, EventTyped
<1>6. CASE TakeToken(w)
  <2>1. \/ skipped' = TRUE /\ Go(w, "mark")
        \/ /\ UNCHANGED skipped
           /\ \/ \E p \in {"idle", "fail", "turn"} : Go(w, p) \/ Throw(w, p)
              \/ (kind = "command" \/ gated) /\ Go(w, "connect")
              \/ wk[w].turn /\ kind = "quiet" /\ Go(w, "mark")
              \/ wk[w].turn /\ Go(w, "post")
    BY <1>6, Zenon DEF TakeToken, Proceed, ReplyStage
  <2> QED
    BY <1>1, <1>2, <2>1, StageMoves, Zenon DEF Effect, Moved, TurnWritten, ReplyWritten, Stages
<1>7. CASE RefreshToken(w)
  BY <1>1, <1>2, <1>7, Zenon DEF RefreshToken, Effect, Moved, TurnWritten, ReplyWritten, EventTyped
<1> QED
  BY <1>3, <1>4, <1>5, <1>6, <1>7, Zenon


\* The turn, in process or on a session, which the row does not see.
LEMMA TurnStages ==
    ASSUME EventTyped, NEW w \in Workers,
           CollectTurn(w) \/ OpenTurn(w) \/ EndTurn(w) \/ DrainSession(w)
    PROVE  Effect(w)
<1>1. UNCHANGED <<row, shown, skipped>> /\ RowWritten(w)
  BY RowKept, Zenon DEF CollectTurn, OpenTurn, EndTurn, DrainSession
<1>2. CASE CollectTurn(w)
  <2>1. /\ UNCHANGED <<turn, turnBy, answered>>
        /\ \/ turn = "SUCCEEDED" /\ Go(w, "record")
           \/ \E p \in {"fail", "open", "drain"} : Throw(w, p)
    BY <1>2, Zenon DEF CollectTurn
  <2> QED
    BY <1>1, <2>1, StageMoves, Zenon DEF Effect, Moved, TurnWritten, ReplyWritten, Stages
<1>3. CASE OpenTurn(w)
  <2>1. \/ turn = "none" /\ turn' = "ACTIVE" /\ turnBy' = w /\ UNCHANGED answered /\ Throw(w, "running")
        \/ UNCHANGED <<turn, turnBy, answered>> /\ Throw(w, "fail")
    BY <1>3, Zenon DEF OpenTurn
  <2> QED
    BY <1>1, <2>1, StageMoves, Zenon DEF Effect, Moved, TurnWritten, ReplyWritten, Stages
<1>4. CASE EndTurn(w)
  <2>1. /\ wk[w].at = "running" /\ turnBy' = Nobody
        /\ \/ /\ turn' = "SUCCEEDED" /\ answered' = answered + 1
              /\ Go(w, "record") \/ Throw(w, "fail")
           \/ turn' \in {"none", "ACTIVE"} /\ UNCHANGED answered /\ Throw(w, "fail")
    BY <1>4, Zenon DEF EndTurn, TurnSucceeds, TurnFails
  <2> QED
    BY <1>1, <2>1, StageMoves, Zenon DEF Effect, Moved, TurnWritten, ReplyWritten, Stages
<1>5. CASE DrainSession(w)
  <2>1. /\ UNCHANGED <<turn, turnBy, answered>>
        /\ \/ turn = "SUCCEEDED" /\ Go(w, "record")
           \/ Throw(w, "fail")
    BY <1>5, Zenon DEF DrainSession, turns
  <2> QED
    BY <1>1, <2>1, StageMoves, Zenon DEF Effect, Moved, TurnWritten, ReplyWritten, Stages
<1> QED
  BY <1>2, <1>3, <1>4, <1>5, Zenon

\* The stages that write the row.
LEMMA LateStages ==
    ASSUME EventTyped, NEW w \in Workers,
           RecordTurn(w) \/ PostReply(w) \/ RecordDelivery(w) \/ CompleteEvent(w)
    PROVE  Effect(w)
<1>1. UNCHANGED <<turn, turnBy, answered, skipped>>
  BY Zenon DEF RecordTurn, PostReply, RecordDelivery, CompleteEvent, turns
<1>2. CASE RecordTurn(w)
  <2>1. wk[w].at = "record" /\ UNCHANGED shown
    BY <1>2, Zenon DEF RecordTurn
  <2>2. CASE Throw(w, "fail") /\ UNCHANGED row
    BY <1>1, <2>1, <2>2, StageMoves, RowKept, Zenon DEF Effect, Moved, TurnWritten, ReplyWritten, Stages
  <2>3. CASE Holds(w) /\ row' = [row EXCEPT !.turn = TRUE] /\ Go(w, ReplyStage)
    <3>1. /\ row' \in InboxRows /\ row'.turn /\ row'.delivered = row.delivered
          /\ row'.status = row.status /\ row.status = "PROCESSING"
      BY <2>3, Zenon DEF EventTyped, InboxRows, Holds
    <3>2. ReplyStage \in Stages /\ ReplyStage \in {"mark", "post"} /\ (ReplyStage = "mark" => kind = "quiet")
      BY Zenon DEF ReplyStage, Stages
    <3>3. /\ wk' \in [Workers -> Works] /\ \A v \in Workers : v # w => wk'[v] = wk[v]
          /\ wk'[w].at \in {ReplyStage, "fail"} /\ wk'[w].turn = wk[w].turn
      BY <2>3, <3>2, StageMoves, Zenon
    <3>4. Moved(w) /\ TurnWritten(w) /\ ReplyWritten(w)
      BY <1>1, <2>1, <3>1, <3>2, <3>3, Zenon DEF Moved, TurnWritten, ReplyWritten
    <3>5. RowWritten(w)
      BY <2>1, <2>3, <3>1, <3>2, <3>3, Zenon DEF RowWritten, Terminal
    <3> QED
      BY <3>4, <3>5, Zenon DEF Effect
  <2> QED
    BY <1>2, <2>2, <2>3, Zenon DEF RecordTurn
<1>3. CASE PostReply(w)
  <2> DEFINE text == IF wk[w].at = "post" THEN "answer" ELSE "connect"
             said == [id |-> slackClientMessageId(w), text |-> text]
  <2>1. wk[w].at \in {"post", "connect"} /\ UNCHANGED row /\ said \in Messages /\ said.text = text
    BY <1>3, Zenon DEF PostReply, Messages, slackClientMessageId
  <2>2. CASE UNCHANGED shown /\ (Throw(w, "fail") \/ Throw(w, "discard"))
    BY <1>1, <2>1, <2>2, StageMoves, RowKept, Zenon DEF Effect, Moved, TurnWritten, ReplyWritten, Stages
  <2>3. CASE chatPostMessage(slackClientMessageId(w), text) /\ (Go(w, "mark") \/ Throw(w, "fail"))
    <3>1. (\E m \in shown : m.id = slackClientMessageId(w)) <=> shown # {}
      BY Zenon DEF EventTyped, Messages, slackClientMessageId
    <3>2. shown' = (IF shown # {} THEN shown ELSE {said})
      BY <2>3, <3>1 DEF chatPostMessage
    <3>3. shown' # {} /\ (shown' = shown \/ (shown = {} /\ shown' = {said}))
      BY <3>2
    <3>4. ReplyWritten(w)
      BY <1>1, <2>1, <3>3, Zenon DEF ReplyWritten
    <3>5. Moved(w) /\ TurnWritten(w)
      BY <1>1, <2>1, <2>3, <3>3, StageMoves, Zenon DEF Moved, TurnWritten, Stages
    <3> QED
      BY <2>1, <3>4, <3>5, RowKept, Zenon DEF Effect
  <2> QED
    BY <1>3, <2>2, <2>3, Zenon DEF PostReply
<1>4. CASE RecordDelivery(w)
  <2>1. wk[w].at = "mark" /\ UNCHANGED shown
    BY <1>4, Zenon DEF RecordDelivery
  <2>2. CASE Throw(w, "fail") /\ UNCHANGED row
    BY <1>1, <2>1, <2>2, StageMoves, RowKept, Zenon DEF Effect, Moved, TurnWritten, ReplyWritten, Stages
  <2>3. CASE Holds(w) /\ row' = [row EXCEPT !.delivered = TRUE] /\ Throw(w, "complete")
    <3>1. /\ row' \in InboxRows /\ row'.delivered /\ row'.turn = row.turn
          /\ row'.status = row.status /\ row.status = "PROCESSING"
      BY <2>3, Zenon DEF EventTyped, InboxRows, Holds
    <3>2. /\ wk' \in [Workers -> Works] /\ \A v \in Workers : v # w => wk'[v] = wk[v]
          /\ wk'[w].at \in {"complete", "fail"} /\ wk'[w].turn = wk[w].turn
      BY <2>3, StageMoves, Zenon DEF Stages
    <3> QED
      BY <1>1, <2>1, <2>3, <3>1, <3>2, Zenon DEF Effect, Moved, TurnWritten, ReplyWritten, RowWritten, Terminal
  <2> QED
    BY <1>4, <2>2, <2>3, Zenon DEF RecordDelivery
<1>5. CASE CompleteEvent(w)
  <2>1. wk[w].at = "complete" /\ UNCHANGED shown
    BY <1>5, Zenon DEF CompleteEvent
  <2>2. CASE Throw(w, "fail") /\ UNCHANGED row
    BY <1>1, <2>1, <2>2, StageMoves, RowKept, Zenon DEF Effect, Moved, TurnWritten, ReplyWritten, Stages
  <2>3. CASE /\ Holds(w) /\ row.delivered /\ Leave(w)
             /\ row' = [row EXCEPT !.status = "COMPLETED", !.owner = Nobody, !.leased = FALSE]
    <3>1. /\ row' \in InboxRows /\ row'.delivered = row.delivered /\ row'.turn = row.turn
          /\ row'.owner = Nobody /\ row.status = "PROCESSING" /\ row'.status = "COMPLETED"
      BY <2>3, Zenon DEF EventTyped, InboxRows, Holds, Statuses
    <3> QED
      BY <1>1, <2>1, <2>3, <3>1, StageLeft, Zenon DEF Effect, Moved, TurnWritten, ReplyWritten, RowWritten, Terminal
  <2> QED
    BY <1>5, <2>2, <2>3, Zenon DEF CompleteEvent
<1> QED
  BY <1>2, <1>3, <1>4, <1>5, Zenon


\* The catch block: the row is re-armed or discarded, under the lease only.
LEMMA LastStages ==
    ASSUME EventTyped, NEW w \in Workers, FailEvent(w) \/ DiscardEvent(w)
    PROVE  Effect(w)
<1>1. PICK status \in {"FAILED", "DISCARDED"}, from \in {"fail", "discard"} : Settle(w, from, status)
  BY Zenon DEF FailEvent, DiscardEvent
<1>2. UNCHANGED <<turn, turnBy, answered, shown, skipped>> /\ Leave(w) /\ wk[w].at \in {"fail", "discard"}
  BY <1>1, Zenon DEF Settle, turns
<1>3. CASE row' = row
  BY <1>2, <1>3, StageLeft, RowKept, Zenon DEF Effect, Moved, TurnWritten, ReplyWritten
<1>4. CASE /\ Holds(w)
           /\ row' = [row EXCEPT !.status = status, !.due = FALSE, !.owner = Nobody, !.leased = FALSE]
  <2>1. /\ row' \in InboxRows /\ row'.delivered = row.delivered /\ row'.turn = row.turn
        /\ row'.owner = Nobody /\ row.status = "PROCESSING" /\ row'.status = status
    BY <1>4, Zenon DEF EventTyped, InboxRows, Holds, Statuses
  <2> QED
    BY <1>2, <1>4, <2>1, StageLeft, Zenon DEF Effect, Moved, TurnWritten, ReplyWritten, RowWritten, Terminal
<1> QED
  BY <1>1, <1>3, <1>4, Zenon DEF Settle

\* What is not a stage of processInbox: the claim, the heartbeat and a crash.
LEMMA AroundStages ==
    ASSUME EventTyped, NEW w \in Workers, Claim(w) \/ OtherEvent(w) \/ Renew(w) \/ Crash(w)
    PROVE  Effect(w)
<1>1. UNCHANGED <<turn, answered, shown, skipped>>
  BY Zenon DEF Claim, OtherEvent, Renew, Crash, turns
<1>2. CASE Claim(w)
  <2>1. UNCHANGED turnBy /\ wk[w].at = "idle"
    BY <1>2, Zenon DEF Claim, turns
  <2>2. (row.gen + 1) % Generations \in 0 .. Generations - 1
    BY InboxAssumption DEF EventTyped, InboxRows
  <2>3. /\ row' \in InboxRows /\ row'.delivered = row.delivered /\ row'.turn = row.turn
        /\ row'.status = "PROCESSING" /\ ~Terminal
    BY <1>2, <2>2, Zenon DEF Claim, Claimable, Terminal, EventTyped, InboxRows, Statuses
  <2>4. /\ wk' \in [Workers -> Works] /\ \A v \in Workers : v # w => wk'[v] = wk[v]
        /\ wk'[w].at = "read" /\ ~wk'[w].turn
    <3>1. NoWork \in Works /\ NoWork.turn = FALSE
      BY InboxAssumption DEF NoWork, Works, Stages
    <3> QED
      BY <1>2, <3>1, Zenon DEF Claim, EventTyped, Works, Stages
  <2> QED
    BY <1>1, <2>1, <2>3, <2>4, Zenon DEF Effect, Moved, TurnWritten, ReplyWritten, RowWritten
<1>3. CASE OtherEvent(w)
  <2>1. UNCHANGED <<turnBy, row>> /\ Throw(w, "token")
    BY <1>3, Zenon DEF OtherEvent, Throw, turns
  <2> QED
    BY <1>1, <2>1, StageMoves, RowKept, Zenon DEF Effect, Moved, TurnWritten, ReplyWritten, Stages
<1>4. CASE Renew(w)
  <2>1. UNCHANGED turnBy
    BY <1>4, Zenon DEF Renew, turns
  <2>2. CASE UNCHANGED wk /\ row' = [row EXCEPT !.leased = TRUE] /\ Holds(w)
    <3>1. /\ row' \in InboxRows /\ row'.delivered = row.delivered /\ row'.turn = row.turn
          /\ row'.status = row.status /\ row.status = "PROCESSING"
      BY <2>2, Zenon DEF EventTyped, InboxRows, Holds
    <3> QED
      BY <1>1, <2>1, <2>2, <3>1, Zenon DEF Effect, Moved, TurnWritten, ReplyWritten, RowWritten, Terminal, EventTyped
  <2>3. CASE UNCHANGED row /\ wk' = [wk EXCEPT ![w].aborted = TRUE]
    <3>1. /\ wk' \in [Workers -> Works] /\ \A v \in Workers : v # w => wk'[v] = wk[v]
          /\ wk'[w].at = wk[w].at /\ wk'[w].turn = wk[w].turn
      BY <2>3, Zenon DEF EventTyped, Works
    <3> QED
      BY <1>1, <2>1, <2>3, <3>1, RowKept, Zenon DEF Effect, Moved, TurnWritten, ReplyWritten
  <2> QED
    BY <1>4, <2>2, <2>3, Zenon DEF Renew
<1>5. CASE Crash(w)
  <2>1. /\ Leave(w) /\ turnBy' \in {turnBy, Nobody} /\ (turnBy' # turnBy => turnBy = w)
        /\ row' = [row EXCEPT !.owner = IF @ = w THEN Gone ELSE @]
    BY <1>5, Zenon DEF Crash
  <2>2. /\ row' \in InboxRows /\ row'.delivered = row.delivered /\ row'.turn = row.turn
        /\ row'.status = row.status /\ (row.owner = Nobody => row' = row)
        /\ row'.owner \in {row.owner, Gone}
    BY <2>1, GrantAssumption, Zenon DEF EventTyped, InboxRows
  <2> QED
    BY <1>1, <2>1, <2>2, StageLeft, Zenon DEF Effect, Moved, TurnWritten, ReplyWritten, RowWritten, Terminal
<1> QED
  BY <1>2, <1>3, <1>4, <1>5, Zenon

\* Every step of a worker has the effect described.
LEMMA EventFlow ==
    ASSUME EventTyped, NEW w \in Workers, Acts(w)
    PROVE  Effect(w)
BY EarlyStages, TurnStages, LateStages, LastStages, AroundStages, Zenon DEF Acts, Step


\* Steps of Slack, of time and of the durable session.
SystemStep == \/ Deliver \/ LeaseExpires \/ RowDue \/ SessionStart \/ SessionEnd
              \/ Workspace \/ Revoke

SystemEffect ==
    /\ UNCHANGED <<wk, shown, skipped>>
    /\ row' \in InboxRows
    /\ row'.turn = row.turn /\ row'.delivered = row.delivered /\ row'.owner = row.owner
    /\ row'.status = row.status \/ (row.status = "none" /\ row'.status = "PENDING")
    /\ Terminal => row' = row
    /\ \/ UNCHANGED <<turn, turnBy, answered>>
       \/ turn = "none" /\ turn' = "ACTIVE" /\ turnBy' = Session /\ UNCHANGED answered
       \/ /\ turnBy = Session /\ turnBy' = Nobody
          /\ \/ turn' = "SUCCEEDED" /\ answered' = answered + 1
             \/ turn' \in {"none", "ACTIVE"} /\ UNCHANGED answered

\* These steps touch no worker, no stage of the row and no terminal row.
LEMMA SystemFlow ==
    ASSUME EventTyped, SystemStep
    PROVE  SystemEffect
<1>1. CASE Deliver \/ LeaseExpires \/ RowDue
  <2>1. UNCHANGED <<turn, turnBy, answered, wk, shown, skipped>>
    BY <1>1, Zenon DEF Deliver, LeaseExpires, RowDue, turns
  <2>2. \/ row.status = "none" /\ row' = [row EXCEPT !.status = "PENDING", !.due = TRUE]
        \/ row' = row
        \/ row.status = "PROCESSING" /\ row' = [row EXCEPT !.leased = FALSE]
        \/ row.status = "FAILED" /\ row' = [row EXCEPT !.due = TRUE]
    BY <1>1, Zenon DEF Deliver, LeaseExpires, RowDue
  <2>3. /\ row' \in InboxRows
        /\ row'.turn = row.turn /\ row'.delivered = row.delivered /\ row'.owner = row.owner
        /\ row'.status = row.status \/ (row.status = "none" /\ row'.status = "PENDING")
        /\ Terminal => row' = row
    BY <2>2, Zenon DEF EventTyped, InboxRows, Statuses, Terminal
  <2> QED
    BY <2>1, <2>3, Zenon DEF SystemEffect
<1>2. CASE SessionStart \/ SessionEnd
  BY <1>2, Zenon DEF SessionStart, SessionEnd, SystemEffect, EventTyped
<1>3. CASE Workspace \/ Revoke
  BY <1>3, Zenon DEF Workspace, Revoke, turns, SystemEffect, EventTyped
<1> QED
  BY <1>1, <1>2, <1>3, Zenon DEF SystemStep

\* A step is one of a worker or one of the system.
LEMMA NextCases ==
    ASSUME Next
    PROVE  ((\E w \in Workers : Acts(w)) \/ SystemStep) /\ UNCHANGED fixed
BY Zenon DEF Next, Acts, SystemStep

\* What a step may do to the counters.
Counted ==
    /\ faults' = faults \/ Fault
    /\ installs' = installs \/ (installs < maxInstalls /\ installs' = installs + 1)
    /\ queued' \in {queued, queued + 1} \/ (queued > 0 /\ queued' = queued - 1)

\* Every step moves the counters within their bounds.
LEMMA Counters == ASSUME Next PROVE Counted
<1>1. ASSUME NEW w \in Workers, Step(w) PROVE Counted
  <2>1. CASE ReadClaim(w) \/ ServeEvent(w) \/ OpenTurn(w) \/ EndTurn(w) \/ DrainSession(w)
    BY <2>1, Zenon DEF ReadClaim, ServeEvent, OpenTurn, EndTurn, TurnSucceeds, TurnFails, DrainSession,
                       grant, turns, Counted
  <2>2. CASE RecordTurn(w) \/ PostReply(w) \/ RecordDelivery(w) \/ CompleteEvent(w)
    BY <2>2, Zenon DEF RecordTurn, PostReply, RecordDelivery, CompleteEvent, grant, turns, Counted
  <2>3. CASE FailEvent(w) \/ DiscardEvent(w)
    BY <2>3, Zenon DEF FailEvent, DiscardEvent, Settle, grant, turns, Counted
  <2>4. CASE LoadInstallation(w) \/ TakeToken(w)
    BY <2>4, Zenon DEF LoadInstallation, LoadToken, TakeToken, Proceed, grant, turns, Counted
  <2>5. CASE RefreshToken(w)
    BY <2>5, Zenon DEF RefreshToken, TokenStep, BeginRefresh, AskSlack, FinalizeRefresh, PreserveGrant,
                       MarkRepair, AwaitRotated, turns, Counted
  <2>6. CASE CollectTurn(w)
    BY <2>6, Zenon DEF CollectTurn, grant, Counted
  <2> QED
    BY <1>1, <2>1, <2>2, <2>3, <2>4, <2>5, <2>6, Zenon DEF Step
<1>2. ASSUME NEW w \in Workers, Claim(w) \/ OtherEvent(w) \/ Renew(w) \/ Crash(w) PROVE Counted
  BY <1>2, Zenon DEF Claim, OtherEvent, Renew, Crash, grant, turns, Counted
<1>3. CASE SystemStep
  BY <1>3, Zenon DEF SystemStep, Deliver, LeaseExpires, RowDue, SessionStart, SessionEnd, Workspace,
                     Reinstall, NearExpiry, Revoke, grant, turns, Counted
<1> QED
  BY <1>1, <1>2, <1>3, NextCases, Zenon DEF Acts


----------------------------------------------------------------------------
(* The invariants.                                                          *)

\* The type invariant, as the lemmas above use it.
LEMMA Typed == ASSUME TypeOK PROVE GrantTyped /\ EventTyped
BY Zenon DEF TypeOK, GrantTypeOK, GrantTyped, Installations, Calls, EventTyped, InboxRows, Works, Messages

\* One executor at a time, and one success.
LEMMA ExecutionStep ==
    ASSUME TypeOK, ExecutionInv, Next
    PROVE  ExecutionInv'
<1>1. Nobody \notin Workers /\ Session \notin Workers /\ Session # Nobody /\ answered \in Nat
  BY GrantAssumption, InboxAssumption, Zenon DEF TypeOK
<1>2. ASSUME NEW w \in Workers, Acts(w) PROVE ExecutionInv'
  <2>1. Moved(w) /\ TurnWritten(w)
    BY <1>2, Typed, EventFlow, Zenon DEF Effect
  <2> QED
    BY <1>1, <2>1 DEF Moved, TurnWritten, ExecutionInv
<1>3. CASE SystemStep
  <2>1. SystemEffect
    BY <1>3, Typed, SystemFlow, Zenon
  <2> QED
    BY <1>1, <2>1 DEF SystemEffect, ExecutionInv
<1> QED
  BY <1>2, <1>3, NextCases, Zenon

\* What has succeeded is never undone.
LEMMA SuccessStays ==
    ASSUME TypeOK, ExecutionInv, Next, turn = "SUCCEEDED"
    PROVE  turn' = "SUCCEEDED"
<1>1. Nobody \notin Workers /\ Session # Nobody /\ turnBy = Nobody
  BY GrantAssumption, InboxAssumption, Zenon DEF ExecutionInv
<1>2. ASSUME NEW w \in Workers, Acts(w) PROVE turn' = "SUCCEEDED"
  <2>1. TurnWritten(w)
    BY <1>2, Typed, EventFlow, Zenon DEF Effect
  <2> QED
    BY <1>1, <2>1, Zenon DEF TurnWritten, ExecutionInv
<1>3. CASE SystemStep
  <2>1. SystemEffect
    BY <1>3, Typed, SystemFlow, Zenon
  <2> QED
    BY <1>1, <2>1, Zenon DEF SystemEffect
<1> QED
  BY <1>2, <1>3, NextCases, Zenon

\* Every step keeps the types and the tokens.
LEMMA TypeStep ==
    ASSUME TypeOK, TokenInv, Next
    PROVE  TypeOK' /\ TokenInv'
<1>1. GrantTyped' /\ TokenInv'
  BY Typed, TokensKept, GrantFlow, Zenon
<1>2. /\ kind' \in Kinds /\ durable' \in BOOLEAN /\ gated' \in BOOLEAN /\ rotating' \in BOOLEAN /\ maxInstalls' \in Nat
      /\ UNCHANGED maxInstalls
  BY NextCases DEF TypeOK, GrantTypeOK, fixed
<1>3. installs' \in 1 .. maxInstalls' /\ faults' \in 0 .. MaxFaults /\ queued' \in Nat
  BY <1>2, Counters, GrantAssumption DEF Counted, Fault, TypeOK, GrantTypeOK
<1> DEFINE Good == /\ EventTyped' /\ turn' \in {"none", "ACTIVE", "SUCCEEDED"}
                   /\ turnBy' \in Workers \cup {Nobody, Session}
                   /\ answered' \in Nat /\ skipped' \in BOOLEAN
<1>4. Good
  <2>1. ASSUME NEW w \in Workers, Acts(w) PROVE Good
    <3>1. Effect(w)
      BY <2>1, Typed, EventFlow, Zenon
    <3>2. shown' \subseteq Messages
      BY <3>1, Typed, Zenon DEF Effect, ReplyWritten, EventTyped
    <3>3. EventTyped' /\ skipped' \in BOOLEAN
      BY <3>1, <3>2, Zenon DEF Effect, Moved, RowWritten, ReplyWritten, EventTyped, TypeOK
    <3> QED
      BY <3>1, <3>3 DEF Effect, TurnWritten, TypeOK
  <2>2. CASE SystemStep
    <3>1. SystemEffect
      BY <2>2, Typed, SystemFlow, Zenon
    <3> QED
      BY <3>1, Typed DEF SystemEffect, EventTyped, TypeOK
  <2> QED
    BY <2>1, <2>2, NextCases, Zenon
<1> QED
  BY <1>1, <1>2, <1>3, <1>4, Zenon DEF TypeOK, GrantTypeOK, GrantTyped, Installations, Calls, EventTyped, InboxRows, Works, Messages


\* Slack shows one message per client_msg_id, and an answer after its turn.
LEMMA ShownStep ==
    ASSUME TypeOK, StageInv, ShownInv, Next
    PROVE  ShownInv'
<1>1. kind' = kind /\ gated' = gated
  BY NextCases, Zenon DEF fixed
<1>2. ASSUME NEW w \in Workers, Acts(w) PROVE ShownInv'
  <2>1. Effect(w)
    BY <1>2, Typed, EventFlow, Zenon
  <2>2. row.turn => row'.turn
    BY <2>1, Zenon DEF Effect, RowWritten
  <2>3. CASE shown' = shown
    BY <1>1, <2>2, <2>3, Zenon DEF ShownInv
  <2>4. ASSUME NEW m \in Messages, shown' = {m},
               \/ wk[w].at = "post" /\ m.text = "answer"
               \/ wk[w].at = "connect" /\ m.text = "connect"
        PROVE  ShownInv'
    <3>1. (m.text = "answer" => row'.turn) /\ (kind # "command" /\ ~gated => m.text = "answer")
      BY <2>2, <2>4 DEF StageInv
    <3> QED
      BY <1>1, <2>4, <3>1, Zenon DEF ShownInv
  <2> QED
    BY <2>1, <2>3, <2>4, Zenon DEF Effect, ReplyWritten
<1>3. CASE SystemStep
  <2>1. SystemEffect
    BY <1>3, Typed, SystemFlow, Zenon
  <2> QED
    BY <1>1, <2>1, Zenon DEF SystemEffect, ShownInv
<1> QED
  BY <1>2, <1>3, NextCases, Zenon

\* What the row and Slack have between them is never undone.
LEMMA HandledStays ==
    ASSUME TypeOK, Handled, Next
    PROVE  Handled'
<1>1. kind' = kind /\ gated' = gated
  BY NextCases, Zenon DEF fixed
<1>2. shown \subseteq shown' /\ (row.turn => row'.turn)
  <2>1. ASSUME NEW w \in Workers, Acts(w) PROVE shown \subseteq shown' /\ (row.turn => row'.turn)
    <3>1. ReplyWritten(w) /\ RowWritten(w)
      BY <2>1, Typed, EventFlow, Zenon DEF Effect
    <3> QED
      BY <3>1, Zenon DEF ReplyWritten, RowWritten
  <2>2. CASE SystemStep
    BY <2>2, Typed, SystemFlow, Zenon DEF SystemEffect
  <2> QED
    BY <2>1, <2>2, NextCases, Zenon
<1> QED
  BY <1>1, <1>2, Zenon DEF Handled

\* Slack's side and the row's record of it, stage by stage.
LEMMA StageStep ==
    ASSUME TypeOK, ExecutionInv, ShownInv', StageInv, Next
    PROVE  StageInv'
<1>1. kind' = kind /\ gated' = gated /\ (turn = "SUCCEEDED" => turn' = "SUCCEEDED")
  BY NextCases, SuccessStays, Zenon DEF fixed
<1>2. Handled => Handled'
  BY HandledStays, Zenon
<1>3. ASSUME NEW w \in Workers, Acts(w) PROVE StageInv'
  <2>1. Effect(w)
    BY <1>3, Typed, EventFlow, Zenon
  <2>2. /\ row.turn => row'.turn
        /\ row.delivered => row'.delivered
        /\ skipped => skipped'
    <3>1. (row.turn => row'.turn) /\ (row.delivered => row'.delivered)
      BY <2>1, Zenon DEF Effect, RowWritten
    <3>2. skipped => skipped'
      BY <2>1, Zenon DEF Effect, ReplyWritten
    <3> QED
      BY <3>1, <3>2, Zenon
  <2>3. ASSUME wk[w].at \in {"post", "connect"}, shown' # {} PROVE Handled'
    <3>1. PICK m \in shown' : TRUE
      BY <2>3, Zenon
    <3>2. m.text \in {"answer", "connect"}
      <4>1. EventTyped
        BY Typed, Zenon
      <4>2. m \in Messages
        BY <2>1, <3>1, <4>1, Zenon DEF Effect, ReplyWritten, EventTyped
      <4> QED
        BY <4>2, Zenon DEF Messages
    <3>3. (m.text = "answer" => row'.turn) /\ (kind # "command" /\ ~gated => m.text = "answer")
      BY <1>1, <3>1, Zenon DEF ShownInv
    <3>4. (wk[w].at = "post" => row'.turn) /\ (wk[w].at = "connect" => kind = "command" \/ gated)
      BY <2>2, Zenon DEF StageInv
    <3> QED
      BY <1>1, <2>3, <3>1, <3>2, <3>3, <3>4, Zenon DEF Handled
  <2>4. row'.turn => turn' = "SUCCEEDED"
    BY <1>1, <2>1, Zenon DEF Effect, RowWritten, StageInv
  <2>5. row'.delivered /\ ~skipped' => Handled'
    BY <1>2, <2>1, <2>2, Zenon DEF Effect, RowWritten, StageInv
  <2>6. row'.status = "COMPLETED" => row'.delivered
    BY <2>1, <2>2, Zenon DEF Effect, RowWritten, StageInv
  <2>7. Terminal' => row'.owner = Nobody
    BY <2>1, Zenon DEF Effect, RowWritten, StageInv, Terminal
  <2>8. ASSUME NEW v \in Workers
        PROVE  /\ wk'[v].turn => row'.turn
               /\ wk'[v].at = "record" => turn' = "SUCCEEDED"
               /\ wk'[v].at = "post" => row'.turn
               /\ wk'[v].at = "connect" => kind' = "command" \/ gated'
               /\ wk'[v].at = "mark" /\ ~skipped' => Handled'
    <3>1. CASE v # w
      BY <1>1, <1>2, <2>1, <2>2, <3>1, Zenon DEF Effect, Moved, StageInv
    <3>2. CASE v = w
      <4>1. (wk'[w].turn => row'.turn) /\ (wk'[w].at = "record" => turn' = "SUCCEEDED")
        BY <1>1, <2>1, <2>2, Zenon DEF Effect, Moved, StageInv
      <4>2. (wk'[w].at = "post" => row'.turn) /\ (wk'[w].at = "connect" => kind' = "command" \/ gated')
        BY <1>1, <2>1, <2>2, Zenon DEF Effect, Moved, StageInv
      <4>3. kind = "uninstall" \/ (kind = "quiet" /\ row'.turn) => Handled'
        BY <1>1, Zenon DEF Handled
      <4>4. wk'[w].at = "mark" /\ ~skipped' => Handled'
        BY <1>2, <2>1, <2>2, <2>3, <4>3, Zenon DEF Effect, Moved, StageInv
      <4> QED
        BY <3>2, <4>1, <4>2, <4>4, Zenon
    <3> QED
      BY <3>1, <3>2, Zenon
  <2> QED
    BY <2>4, <2>5, <2>6, <2>7, <2>8, Zenon DEF StageInv
<1>4. CASE SystemStep
  <2>1. SystemEffect
    BY <1>4, Typed, SystemFlow, Zenon
  <2> QED
    BY <1>1, <1>2, <2>1 DEF SystemEffect, StageInv, Terminal
<1> QED
  BY <1>3, <1>4, NextCases, Zenon


\* An installed workspace and an event not yet delivered satisfy the invariant.
LEMMA ChannelInit == ASSUME Init PROVE ChannelInv
<1>1. PICK s \in Scenarios : kind = s.kind /\ durable = s.durable /\ gated = s.gated /\ rotating = s.rotating /\ maxInstalls = s.installs
  BY Zenon DEF Init
<1>2. /\ kind \in Kinds /\ durable \in BOOLEAN /\ gated \in BOOLEAN /\ rotating \in BOOLEAN /\ maxInstalls \in Nat \ {0}
  BY <1>1, InboxAssumption, Zenon DEF Kinds
<1>3. GrantTyped /\ TokenInv
  <2>1. /\ inst \in Installations /\ inst.grant.refresh = 1 /\ issued = 1 /\ spent = {}
    BY DEF Init, GrantInit, Installations, Grants
  <2>2. NoCall \in Calls /\ NoCall.at = "none" /\ NoCall.grant.refresh = 0 /\ NoCall.got.refresh = 0
    BY Zenon DEF NoCall, Calls, NoGrant, Grants, Points
  <2>3. ref \in [Workers -> Calls] /\ \A w \in Workers : ref[w] = NoCall
    BY <2>2, Zenon DEF Init, GrantInit
  <2> QED
    BY <2>1, <2>2, <2>3 DEF GrantTyped, TokenInv, Numbered, Live
<1>4. EventTyped /\ (\A w \in Workers : wk[w] = NoWork) /\ ~row.turn /\ ~row.delivered /\ row.status = "none"
  <2>1. NoWork \in Works
    BY InboxAssumption DEF NoWork, Works, Stages
  <2>2. row \in InboxRows
    BY InboxAssumption DEF Init, InboxRows, Statuses
  <2> QED
    BY <2>1, <2>2, Zenon DEF Init, EventTyped
<1>5. installs \in 1 .. maxInstalls /\ faults \in 0 .. MaxFaults
  BY <1>2, GrantAssumption DEF Init, GrantInit
<1>6. /\ turn = "none" /\ turnBy = Nobody /\ queued \in Nat /\ answered = 0 /\ answered \in Nat
      /\ shown = {} /\ skipped \in BOOLEAN
  BY Zenon DEF Init
<1>7. TypeOK
  BY <1>2, <1>3, <1>4, <1>5, <1>6, Zenon DEF TypeOK, GrantTypeOK, GrantTyped, Installations, Calls, EventTyped, InboxRows, Works, Messages
<1>8. ExecutionInv /\ StageInv /\ ShownInv
  BY <1>4, <1>6 DEF ExecutionInv, StageInv, ShownInv, NoWork, Terminal
<1> QED
  BY <1>3, <1>6, <1>7, <1>8, Zenon DEF ChannelInv

\* So does a state in which nothing moved.
LEMMA ChannelStutter == ASSUME ChannelInv, UNCHANGED vars PROVE ChannelInv'
BY DEF ChannelInv, vars, grantVars, inboxVars, TypeOK, GrantTypeOK, TokenInv, Numbered, Live, TokenOf, Claimed,
       ExecutionInv, ShownInv, StageInv, Handled, Terminal

\* The invariant holds in every reachable state, whatever the number of
\* processes, the failures of Slack, of the database and of the processes.
THEOREM ChannelInvariant == Spec => []ChannelInv
<1>1. Init => ChannelInv
  BY ChannelInit, Zenon
<1>2. ChannelInv /\ [Next]_vars => ChannelInv'
  BY ChannelStutter, TypeStep, ExecutionStep, ShownStep, StageStep, Zenon DEF ChannelInv
<1> QED
  BY <1>1, <1>2, PTL DEF Spec

----------------------------------------------------------------------------
(* The properties.                                                          *)

\* Every variable keeps its type; the counters stay within their bounds.
THEOREM ChannelTypeCorrect == Spec => []TypeOK
<1>1. ChannelInv => TypeOK
  BY Zenon DEF ChannelInv
<1> QED
  BY <1>1, ChannelInvariant, PTL

\* rotateBotToken never presents a refresh token Slack has consumed, and a row
\* open for use never holds one, however many processes rotate it, crash, lose
\* an answer or are overtaken by a reinstall.
THEOREM RefreshTokensSpentOnce == Spec => []GrantSpentOnce
<1>1. ChannelInv => GrantSpentOnce
  BY Zenon DEF ChannelInv, TokenInv, Live, TokenOf, GrantSpentOnce
<1> QED
  BY <1>1, ChannelInvariant, PTL

\* An event's turn succeeds at most once: its idempotency key lets one executor
\* in at a time, in process or on a session, and none after a success.
THEOREM EventRunsOneTurn == Spec => []OneTurn
<1>1. ChannelInv => OneTurn
  BY DEF ChannelInv, ExecutionInv, OneTurn
<1> QED
  BY <1>1, ChannelInvariant, PTL

\* Slack shows at most one message for an event, whatever its attempts wanted to
\* say, since client_msg_id is the event's; and an answer only once its turn is
\* recorded, since a reply is posted after recordChannelEventTurn or from it.
THEOREM EventGetsOneReply == Spec => []OneReply
<1>1. ChannelInv => OneReply
  BY DEF ChannelInv, ShownInv, StageInv, ExecutionInv, OneReply
<1> QED
  BY <1>1, ChannelInvariant, PTL

\* completeChannelEvent is reached only after a message was posted, by this
\* worker or by one before it, and, unless the linking gate withheld the turn,
\* after the turn was recorded; except where an attempt found the installation
\* revoked or no agent bound.
THEOREM CompletedWasAnswered == Spec => []CompletedIsAnswered
<1>1. ChannelInv => CompletedIsAnswered
  BY Zenon DEF ChannelInv, ExecutionInv, StageInv, Handled, CompletedIsAnswered
<1> QED
  BY <1>1, ChannelInvariant, PTL

\* The stages of the inbox row are written by the holder of the lease alone,
\* are never unwritten, and a terminal row never changes.
THEOREM OnlyTheHolderRecords == Spec => StagesFenced
<1> DEFINE Fenced ==
        /\ row'.turn # row.turn \/ row'.delivered # row.delivered
                 \/ (row'.status # row.status /\ row.status = "PROCESSING")
                 => \E w \in Workers : Holds(w) /\ wk'[w] # wk[w]
        /\ row.turn => row'.turn
        /\ row.delivered => row'.delivered
        /\ Terminal => row' = row
<1>1. ChannelInv /\ [Next]_vars => [Fenced]_vars
  <2> SUFFICES ASSUME ChannelInv, Next PROVE Fenced
    BY Zenon DEF vars
  <2>1. TypeOK /\ (Terminal => row.owner = Nobody)
    BY Zenon DEF ChannelInv, StageInv
  <2>2. ASSUME NEW w \in Workers, Acts(w) PROVE Fenced
    <3>1. RowWritten(w)
      BY <2>1, <2>2, Typed, EventFlow, Zenon DEF Effect
    <3> QED
      BY <2>1, <3>1, Zenon DEF RowWritten
  <2>3. CASE SystemStep
    <3>1. SystemEffect
      BY <2>1, <2>3, Typed, SystemFlow, Zenon
    <3> QED
      BY <3>1, Zenon DEF SystemEffect
  <2> QED
    BY <2>2, <2>3, NextCases, Zenon
<1> QED
  BY <1>1, ChannelInvariant, PTL DEF Spec, StagesFenced
=============================================================================
