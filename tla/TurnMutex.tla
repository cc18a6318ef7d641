----------------------------- MODULE TurnMutex -----------------------------
(***************************************************************************)
(* The Redis lease behind the per-thread turn mutex: acquireTurnMutex of   *)
(* agent-task.service.ts, with its heartbeat, against a clock.  One tick   *)
(* is TURN_MUTEX_HEARTBEAT_MS; the lease lives LeaseBeats ticks            *)
(* (TURN_MUTEX_TTL_MS / TURN_MUTEX_HEARTBEAT_MS, 3 in the code).           *)
(*                                                                         *)
(* A renewal is a round trip: it is sent by the interval timer, runs in    *)
(* Redis later, and its answer is read later still.  The timer skips a     *)
(* beat while a renewal is in flight.                                      *)
(***************************************************************************)
EXTENDS Naturals

CONSTANTS
    Owners,         \* callers of acquireTurnMutex, one random token each
    Free,           \* the key is absent
    LeaseBeats,     \* life of the lease, in heartbeats
    MaxMisses       \* consecutive renewals that may fail to reach Redis

ASSUME LeaseAssumption ==
    /\ LeaseBeats \in Nat \ {0}
    /\ MaxMisses \in Nat
    /\ Free \notin Owners

VARIABLES
    holder,         \* the token stored under the key, or Free
    ttl,            \* ticks left before Redis drops the key
    phase,          \* "idle", "held" (the turn runs), "released", "crashed"
    beating,        \* the interval is armed (~stopped)
    renewal,        \* "none", "sent", or the answer on its way back
    beatDue,        \* the interval is due and has not run yet
    misses,         \* renewals in a row that did not reach Redis
    mayStall        \* fixed: may event loops and round trips outlast a period?

vars == <<holder, ttl, phase, beating, renewal, beatDue, misses, mayStall>>

Answers == {"extended", "refused"}

Init ==
    /\ holder = Free
    /\ ttl = 0
    /\ phase = [o \in Owners |-> "idle"]
    /\ beating = [o \in Owners |-> FALSE]
    /\ renewal = [o \in Owners |-> "none"]
    /\ beatDue = [o \in Owners |-> FALSE]
    /\ misses = [o \in Owners |-> 0]
    /\ mayStall \in BOOLEAN

(* Faulty variants of actions below, for mutation runs.                     *)

\* SET without NX.
Acquire_NoNX(o) ==
    /\ phase[o] = "idle"
    /\ holder' = o
    /\ ttl' = LeaseBeats
    /\ phase' = [phase EXCEPT ![o] = "held"]
    /\ beating' = [beating EXCEPT ![o] = TRUE]
    /\ UNCHANGED <<renewal, beatDue, misses>>

\* PX with the heartbeat's period instead of the lease's.
Acquire_ShortLease(o) ==
    /\ phase[o] = "idle"
    /\ holder = Free
    /\ holder' = o
    /\ ttl' = 1
    /\ phase' = [phase EXCEPT ![o] = "held"]
    /\ beating' = [beating EXCEPT ![o] = TRUE]
    /\ UNCHANGED <<renewal, beatDue, misses>>

\* release() leaves the interval armed.
Release_KeepsBeating(o) ==
    /\ phase[o] = "held"
    /\ phase' = [phase EXCEPT ![o] = "released"]
    /\ holder' \in {IF holder = o THEN Free ELSE holder, holder}
    /\ UNCHANGED <<ttl, beating, renewal, beatDue, misses>>

----------------------------------------------------------------------------
\* SET key token PX ttl NX; a caller that finds the key set gets null and is
\* done with it.
Acquire(o) ==
    /\ phase[o] = "idle"
    /\ holder = Free
    /\ holder' = o
    /\ ttl' = LeaseBeats
    /\ phase' = [phase EXCEPT ![o] = "held"]
    /\ beating' = [beating EXCEPT ![o] = TRUE]
    /\ UNCHANGED <<renewal, beatDue, misses>>

\* SET runs but its answer is lost: the caller throws and nobody owns the key.
AcquireUnheard(o) ==
    /\ phase[o] = "idle"
    /\ holder = Free
    /\ holder' = o
    /\ ttl' = LeaseBeats
    /\ phase' = [phase EXCEPT ![o] = "crashed"]
    /\ UNCHANGED <<beating, renewal, beatDue, misses>>

Refuse(o) ==
    /\ phase[o] = "idle"
    /\ holder # Free
    /\ phase' = [phase EXCEPT ![o] = "released"]
    /\ UNCHANGED <<holder, ttl, beating, renewal, beatDue, misses>>

\* The interval callback: send a renewal unless one is still in flight.
Beat(o) ==
    /\ beatDue[o]
    /\ beatDue' = [beatDue EXCEPT ![o] = FALSE]
    /\ renewal' = [renewal EXCEPT ![o] =
                     IF beating[o] /\ @ = "none" THEN "sent" ELSE @]
    /\ UNCHANGED <<holder, ttl, phase, beating, misses>>

\* RENEW_TURN_MUTEX_SCRIPT runs in Redis: pexpire only under one's own token.
RunRenewal(o) ==
    /\ renewal[o] = "sent"
    /\ \/ /\ holder = o
          /\ ttl' = LeaseBeats
          /\ renewal' = [renewal EXCEPT ![o] = "extended"]
       \/ /\ holder # o
          /\ renewal' = [renewal EXCEPT ![o] = "refused"]
          /\ UNCHANGED ttl
    /\ misses' = [misses EXCEPT ![o] = 0]
    /\ UNCHANGED <<holder, phase, beating, beatDue>>

\* The eval fails before it reaches Redis; the error is swallowed.
LoseRenewal(o) ==
    /\ renewal[o] = "sent"
    /\ misses[o] < MaxMisses
    /\ misses' = [misses EXCEPT ![o] = @ + 1]
    /\ renewal' = [renewal EXCEPT ![o] = "none"]
    /\ UNCHANGED <<holder, ttl, phase, beating, beatDue>>

\* The answer arrives: anything but 1 stops the heartbeat, and nothing else.
\* The turn keeps running.
ReadAnswer(o) ==
    /\ renewal[o] \in Answers
    /\ beating' = [beating EXCEPT ![o] = @ /\ renewal[o] = "extended"]
    /\ renewal' = [renewal EXCEPT ![o] = "none"]
    /\ UNCHANGED <<holder, ttl, phase, beatDue, misses>>

\* The answer is lost; the error is swallowed and the heartbeat goes on.
LoseAnswer(o) ==
    /\ renewal[o] \in Answers
    /\ renewal' = [renewal EXCEPT ![o] = "none"]
    /\ UNCHANGED <<holder, ttl, phase, beating, beatDue, misses>>

\* release(): stop the heartbeat, then RELEASE_TURN_MUTEX_SCRIPT, which
\* deletes only under one's own token; a failed eval is swallowed.
Release(o) ==
    /\ phase[o] = "held"
    /\ phase' = [phase EXCEPT ![o] = "released"]
    /\ beating' = [beating EXCEPT ![o] = FALSE]
    /\ beatDue' = [beatDue EXCEPT ![o] = FALSE]
    /\ holder' \in {IF holder = o THEN Free ELSE holder, holder}
    /\ UNCHANGED <<ttl, renewal, misses>>

\* The owner's process dies.  A renewal already sent may still run.
Crash(o) ==
    /\ phase[o] = "held"
    /\ phase' = [phase EXCEPT ![o] = "crashed"]
    /\ beating' = [beating EXCEPT ![o] = FALSE]
    /\ beatDue' = [beatDue EXCEPT ![o] = FALSE]
    /\ UNCHANGED <<holder, ttl, renewal, misses>>

\* Everything due in the last period has run and settled.
Timely == \A o \in Owners : ~beatDue[o] /\ renewal[o] = "none"

\* One heartbeat period passes; Redis drops the key at the end of its life.
Tick ==
    /\ mayStall \/ Timely
    /\ \/ holder = Free /\ UNCHANGED <<holder, ttl>>
       \/ /\ holder # Free
          /\ ttl' = ttl - 1
          /\ holder' = IF ttl = 1 THEN Free ELSE holder
    /\ beatDue' = [o \in Owners |-> beating[o]]
    /\ UNCHANGED <<phase, beating, renewal, misses>>

Next ==
    /\ \/ \E o \in Owners :
             \/ Acquire(o) \/ AcquireUnheard(o) \/ Refuse(o) \/ Beat(o)
             \/ RunRenewal(o) \/ LoseRenewal(o) \/ ReadAnswer(o) \/ LoseAnswer(o)
             \/ Release(o) \/ Crash(o)
       \/ Tick
    /\ UNCHANGED mayStall

Spec == Init /\ [][Next]_vars

\* Timers fire, round trips settle, and time passes.  Nothing makes an owner
\* release or a caller arrive.
Fairness ==
    /\ \A o \in Owners :
          WF_vars((Beat(o) \/ RunRenewal(o) \/ ReadAnswer(o)) /\ UNCHANGED mayStall)
    /\ WF_vars(Tick /\ UNCHANGED mayStall)

FairSpec == Spec /\ Fairness

----------------------------------------------------------------------------
TypeOK ==
    /\ holder \in Owners \cup {Free}
    /\ ttl \in 0..LeaseBeats
    /\ phase \in [Owners -> {"idle", "held", "released", "crashed"}]
    /\ beating \in [Owners -> BOOLEAN]
    /\ renewal \in [Owners -> {"none", "sent"} \cup Answers]
    /\ beatDue \in [Owners -> BOOLEAN]
    /\ misses \in [Owners -> 0..MaxMisses]
    /\ mayStall \in BOOLEAN

\* How many renewals in a row may be lost before the lease is in danger: the
\* one sent when a single period is left comes too late.
SurvivesMisses == MaxMisses + 1 < LeaseBeats

\* A turn that runs still holds the lock in Redis as long as the event loop
\* keeps pace and no more renewals are lost in a row than the ratio of
\* TURN_MUTEX_TTL_MS to TURN_MUTEX_HEARTBEAT_MS allows (one, with 30 s / 10 s).
HeldWhileRunning ==
    SurvivesMisses /\ ~mayStall =>
        \A o \in Owners : phase[o] = "held" => holder = o

\* "A crashed worker loses the lease quickly": the lock of a dead owner, or of
\* one whose release failed, does not outlive its remaining beats.
DeadLeaseLapses ==
    \A o \in Owners :
        (holder = o /\ phase[o] # "held") ~> (holder # o)

\* The users of the thread, as far as the lease speaks for them: one whose
\* heartbeats may come too late promises nothing.
Users == {o \in Owners : phase[o] = "held" /\ ~mayStall}

Mutex == INSTANCE ExclusiveUse
            WITH Clients <- Owners, Resources <- {"thread"},
                 users <- [x \in {"thread"} |-> Users]

\* The lease implements a mutex, with the provisos of HeldWhileRunning.
ImplementsMutex == Mutex!Spec
=============================================================================
