----------------------------- MODULE Compaction -----------------------------
(***************************************************************************)
(* What a turn is answered from (agent-runtime/agent-task.service.ts,      *)
(* memory/conversation.service.ts): the thread's summary and the turns     *)
(* after its cursor, while background compactions move both.  Turns of a   *)
(* thread follow one another (module TurnLifecycle); compactions do not.   *)
(*                                                                         *)
(* A turn is its sequence number; those inherited by a fork are negative.  *)
(* A step is one database statement or the model call.  A failed statement *)
(* may have been executed.                                                 *)
(***************************************************************************)
EXTENDS Integers, Sequences

CONSTANTS
    Compactors,         \* calls of compactIfNeeded that overlap
    ContextLimit,
    CompactThreshold,
    Scenarios           \* turns inherited from a fork; bounds: turns of the
                        \* thread, failures

ASSUME CompactionAssumption ==
    /\ ContextLimit \in Nat \ {0} /\ CompactThreshold \in Nat
    /\ Scenarios \subseteq [inherited : Nat, turns : Nat, faults : Nat]

VARIABLES
    inherited,      \* fixed: Thread.forkedTurnIds
    maxTurns,       \* fixed
    rows,           \* status of the Turn rows by sequence
    summary,        \* Thread.summary: the turns it tells of
    cursor,         \* Thread.compactedUpToTurnId, 0 for null
    cstate,         \* Thread.compactionState
    ahead,          \* what the next request has read of the thread
    turn,           \* the turn that holds the mutex and what it has read
    comp,           \* the compactions
    abandoned,      \* a compaction ended without its release
    faults          \* failures still to come

threadVars == <<inherited, maxTurns, rows, summary, cursor, cstate, ahead, turn, comp, abandoned, faults>>

Larger(a, b) == IF a >= b THEN a ELSE b

NotRead == [read |-> FALSE, summary |-> << >>, seen |-> 0]

NoTurn == [at |-> "idle", summary |-> << >>, seen |-> 0, cur |-> 0, hist |-> << >>]

NoCompaction == [at |-> "idle", summary |-> << >>, cur |-> 0, take |-> << >>]

ThreadInit ==
    /\ \E s \in Scenarios :
         /\ inherited = [k \in 1 .. s.inherited |-> k - s.inherited - 1]
         /\ maxTurns = s.turns /\ faults = s.faults
    /\ rows = << >>
    /\ summary = << >> /\ cursor = 0 /\ cstate = "IDLE"
    /\ ahead = NotRead /\ turn = NoTurn
    /\ comp = [c \in Compactors |-> NoCompaction]
    /\ abandoned = FALSE

Failure == faults > 0 /\ faults' = faults - 1

\* The SUCCEEDED ones of the turns after a and up to b, in order.
Told(r, a, b) ==
    LET upTo[n \in 0 .. b] ==
          IF n <= a THEN << >>
          ELSE IF r[n] = "SUCCEEDED" THEN Append(upTo[n - 1], n) ELSE upTo[n - 1]
    IN  upTo[b]

\* The SUCCEEDED turns of the thread after a cursor.
Succeeded(cur) == Told(rows, cur, Len(rows))

Newest(s, k) == SubSeq(s, Larger(1, Len(s) - k + 1), Len(s))
----------------------------------------------------------------------------
(* The turn.                                                               *)

turnLimit == Larger(1, (ContextLimit + 1) \div 2)

cap == Larger(turnLimit * 4, turnLimit + 20)

loadHistory_Inclusive(cur) ==
    IF cur # 0 THEN Newest(Succeeded(cur - 1), cap)
    ELSE Newest(inherited \o Newest(Succeeded(0), turnLimit), cap)

\* loadHistory: everything after the cursor up to a cap; without a cursor the
\* inherited turns and the newest few.
loadHistory(cur) ==
    IF cur # 0 THEN Newest(Succeeded(cur), cap)
    ELSE Newest(inherited \o Newest(Succeeded(0), turnLimit), cap)

\* getOrCreateThread, before the mutex is asked for: the turn before may be
\* running.
ReadThread ==
    /\ ~ahead.read /\ Len(rows) < maxTurns
    /\ ahead' = [read |-> TRUE, summary |-> summary, seen |-> cursor]
    /\ UNCHANGED <<rows, summary, cursor, cstate, turn, comp, abandoned, faults>>

\* The mutex is held: turn_in_progress.
Refuse ==
    /\ ahead.read /\ turn.at # "idle"
    /\ ahead' = NotRead
    /\ UNCHANGED <<rows, summary, cursor, cstate, turn, comp, abandoned, faults>>

\* With the mutex, some gates later, loadHistory reads the thread again.
LoadHistory ==
    /\ ahead.read /\ turn.at = "idle" /\ Len(rows) < maxTurns
    /\ ahead' = NotRead
    /\ turn' = [at |-> "loaded", summary |-> ahead.summary, seen |-> ahead.seen,
                cur |-> cursor, hist |-> loadHistory(cursor)]
    /\ UNCHANGED <<rows, summary, cursor, cstate, comp, abandoned, faults>>

StoreTurn ==
    /\ turn.at = "loaded"
    /\ rows' = Append(rows, "ACTIVE")
    /\ turn' = [NoTurn EXCEPT !.at = "stream"]
    /\ UNCHANGED <<ahead, summary, cursor, cstate, comp, abandoned, faults>>

EndTurn ==
    /\ turn.at = "stream"
    /\ \/ /\ rows' = [rows EXCEPT ![Len(rows)] = "SUCCEEDED"]
          /\ turn' = [turn EXCEPT !.at = "assess"]
          /\ UNCHANGED faults
       \/ /\ Failure
          /\ rows' \in {rows, [rows EXCEPT ![Len(rows)] = "FAILED"]}
          /\ turn' = NoTurn
    /\ UNCHANGED <<ahead, summary, cursor, cstate, comp, abandoned>>

\* assessCompactionNeed: by the number of rows, whatever their status.
CompactionNeeded ==
    /\ Len(rows) >= CompactThreshold
    /\ Len(rows) - ContextLimit - cursor >= Larger(5, (ContextLimit + 1) \div 2)

\* The dispatch may be deduplicated, or lost with the process.
Assess ==
    /\ turn.at = "assess"
    /\ turn' = NoTurn
    /\ \/ /\ CompactionNeeded
          /\ \E c \in Compactors :
               /\ comp[c].at = "idle"
               /\ comp' = [comp EXCEPT ![c].at = "acquire"]
       \/ UNCHANGED comp
    /\ UNCHANGED <<ahead, rows, summary, cursor, cstate, abandoned, faults>>
----------------------------------------------------------------------------
(* compactIfNeeded.                                                        *)

thisTurn == <<rows, ahead, turn>>

In(c, p) == comp[c].at = p

MoveTo(c, p) == comp' = [comp EXCEPT ![c].at = p]

End(c) == comp' = [comp EXCEPT ![c] = NoCompaction]

\* The compare-and-set stands before the try block: when its reply is lost,
\* nobody releases.
Acquire(c) ==
    /\ In(c, "acquire")
    /\ \/ /\ cstate = "IDLE" /\ cstate' = "IN_PROGRESS"
          /\ MoveTo(c, "thread")
          /\ UNCHANGED <<abandoned, faults>>
       \/ /\ cstate = "IN_PROGRESS"
          /\ End(c)
          /\ UNCHANGED <<cstate, abandoned, faults>>
       \/ /\ Failure /\ End(c)
          /\ \/ cstate = "IDLE" /\ cstate' = "IN_PROGRESS" /\ abandoned' = TRUE
             \/ UNCHANGED <<cstate, abandoned>>
    /\ UNCHANGED <<thisTurn, summary, cursor>>

\* Summary, cursor and count, read in one statement.
ReadRow(c) ==
    /\ In(c, "thread")
    /\ \/ /\ comp' = [comp EXCEPT ![c].summary = summary, ![c].cur = cursor,
                        ![c].at = IF Len(rows) < CompactThreshold THEN "release" ELSE "turns"]
          /\ UNCHANGED faults
       \/ Failure /\ MoveTo(c, "catch")
    /\ UNCHANGED <<thisTurn, summary, cursor, cstate, abandoned>>

toCompact_All(s) == s

\* All but the newest contextLimit turns.
toCompact(s) == SubSeq(s, 1, Larger(0, Len(s) - ContextLimit))

ReadTurns(c) ==
    /\ In(c, "turns")
    /\ \/ /\ LET take == toCompact(Succeeded(comp[c].cur))
             IN  comp' = [comp EXCEPT ![c].take = IF Len(take) < 5 THEN << >> ELSE take,
                                      ![c].at = IF Len(take) < 5 THEN "release" ELSE "generate"]
          /\ UNCHANGED faults
       \/ Failure /\ MoveTo(c, "catch")
    /\ UNCHANGED <<thisTurn, summary, cursor, cstate, abandoned>>

\* The model call, its price and its cost record.
Generate(c) ==
    /\ In(c, "generate")
    /\ \/ MoveTo(c, "commit") /\ UNCHANGED faults
       \/ Failure /\ MoveTo(c, "catch")
    /\ UNCHANGED <<thisTurn, summary, cursor, cstate, abandoned>>

Advance_Appends(c) ==
    /\ cstate = "IN_PROGRESS"
    /\ summary' = summary \o comp[c].take
    /\ cursor' = comp[c].take[Len(comp[c].take)]
    /\ cstate' = "IDLE"

Advance(c) ==
    /\ cstate = "IN_PROGRESS"
    /\ summary' = comp[c].summary \o comp[c].take
    /\ cursor' = comp[c].take[Len(comp[c].take)]
    /\ cstate' = "IDLE"

\* Summary, cursor and state in one transaction, under the state.
Commit(c) ==
    /\ In(c, "commit")
    /\ \/ Advance(c) /\ End(c) /\ UNCHANGED faults
       \/ cstate = "IDLE" /\ MoveTo(c, "catch") /\ UNCHANGED <<summary, cursor, cstate, faults>>
       \/ /\ Failure /\ MoveTo(c, "catch")
          /\ Advance(c) \/ UNCHANGED <<summary, cursor, cstate>>
    /\ UNCHANGED <<thisTurn, abandoned>>

\* The release of a compaction that found too little to do.
Release(c) ==
    /\ In(c, "release")
    /\ \/ cstate = "IN_PROGRESS" /\ cstate' = "IDLE" /\ End(c) /\ UNCHANGED faults
       \/ cstate = "IDLE" /\ MoveTo(c, "catch") /\ UNCHANGED <<cstate, faults>>
       \/ Failure /\ MoveTo(c, "catch") /\ cstate' \in {cstate, "IDLE"}
    /\ UNCHANGED <<thisTurn, summary, cursor, abandoned>>

Catch_Rethrows(c) ==
    /\ In(c, "catch") /\ End(c)
    /\ UNCHANGED <<thisTurn, summary, cursor, cstate, abandoned, faults>>

\* The catch block: whoever set IN_PROGRESS, it is IDLE afterwards.
Catch(c) ==
    /\ In(c, "catch") /\ End(c)
    /\ \/ cstate' = "IDLE" /\ UNCHANGED <<abandoned, faults>>
       \/ Failure /\ abandoned' = TRUE /\ UNCHANGED cstate
    /\ UNCHANGED <<thisTurn, summary, cursor>>

Die(c) ==
    /\ ~In(c, "idle") /\ Failure /\ End(c)
    /\ abandoned' = (abandoned \/ ~In(c, "acquire"))
    /\ UNCHANGED <<thisTurn, summary, cursor, cstate>>

Compact(c) ==
    \/ Acquire(c) \/ ReadRow(c) \/ ReadTurns(c) \/ Generate(c)
    \/ Commit(c) \/ Release(c) \/ Catch(c)
----------------------------------------------------------------------------
ThreadNext ==
    /\ \/ ReadThread \/ Refuse \/ LoadHistory \/ StoreTurn \/ EndTurn \/ Assess
       \/ \E c \in Compactors : Compact(c) \/ Die(c)
    /\ UNCHANGED <<inherited, maxTurns>>

ThreadSpec == ThreadInit /\ [][ThreadNext]_threadVars

\* Compactions go on until none is left.
FairThreadSpec == ThreadSpec /\ WF_threadVars((\E c \in Compactors : Compact(c)) /\ UNCHANGED <<inherited, maxTurns>>)
----------------------------------------------------------------------------
(* Properties.                                                             *)

Steps == {"idle", "acquire", "thread", "turns", "generate", "commit", "release", "catch"}

\* Types; a compaction past its reads has at least five turns to tell of,
\* in order, after the cursor it read.
ThreadTypeOK ==
    /\ \A n \in DOMAIN rows : rows[n] \in {"ACTIVE", "SUCCEEDED", "FAILED"}
    /\ cursor \in 0 .. Len(rows) /\ cstate \in {"IDLE", "IN_PROGRESS"}
    /\ turn.at \in {"idle", "loaded", "stream", "assess"}
    /\ \A c \in Compactors :
         /\ comp[c].at \in Steps
         /\ comp[c].at \in {"generate", "commit"} =>
              Len(comp[c].take) >= 5 /\ comp[c].take[1] > comp[c].cur

\* The summary tells of exactly the successful turns up to the cursor, each
\* once and in order, whatever compactions overlapped, died, lost a reply or
\* were released by another: summary and cursor are read and written together.
SummaryExact ==
    summary = Told(rows, 0, cursor)

\* A request reads the summary before it has the mutex and the history after.
\* Whatever compactions land in between, a turn is answered from the successful
\* turns up to the one cursor and after the other, once and in order: what it
\* misses or is told twice lies between the two cursors, the newest
\* contextLimit are there verbatim, and with one cursor nothing is missing.
\* Without a cursor there is no summary, and a fork has all it inherited.  (As
\* long as the tail fits loadHistory's cap.)
ContextExact ==
    turn.at = "loaded" =>
        /\ turn.cur # 0 /\ Len(Succeeded(turn.cur)) <= cap =>
              /\ turn.summary \o turn.hist = Told(rows, 0, turn.seen) \o Succeeded(turn.cur)
              /\ turn.seen = turn.cur => turn.summary \o turn.hist = Succeeded(0)
              /\ Len(turn.hist) >= ContextLimit
        /\ turn.cur = 0 /\ Len(inherited) + turnLimit <= cap =>
              turn.summary \o turn.hist = inherited \o Newest(Succeeded(0), turnLimit)

\* The live tail is never compacted away: the newest contextLimit successful
\* turns a compaction has seen stay verbatim.
TailStaysLive ==
    [][cursor' # cursor => Len(Told(rows, cursor', Len(rows))) >= ContextLimit]_threadVars

\* A thread does not stay IN_PROGRESS, unless a compaction died, lost the
\* reply of its compare-and-set, or could not execute its catch block.
Released == <>[](cstate = "IDLE" \/ abandoned)
=============================================================================
