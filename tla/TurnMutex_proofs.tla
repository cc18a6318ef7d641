-------------------------- MODULE TurnMutex_proofs --------------------------
(***************************************************************************)
(* Proofs about TurnMutex, for any number of callers, any ratio of lease   *)
(* to heartbeat and any bound on lost renewals.                            *)
(***************************************************************************)
EXTENDS TurnMutex, TLAPS

\* A stored key has life left.
KeyLives == holder # Free => ttl > 0

TInv == TypeOK /\ KeyLives

\* A step of the specification keeps the types, and expiry removes the key
\* when its life reaches zero.
LEMMA TypeStep == TInv /\ [Next]_vars => TInv'
<1> SUFFICES ASSUME TInv, [Next]_vars PROVE TInv'
  OBVIOUS
<1>0. mayStall' = mayStall
  BY DEF Next, vars
<1> USE <1>0, LeaseAssumption DEF TInv, TypeOK, KeyLives, Answers
<1>1. ASSUME NEW o \in Owners, Acquire(o) PROVE TInv'
  BY <1>1 DEF Acquire
<1>2. ASSUME NEW o \in Owners, Refuse(o) PROVE TInv'
  BY <1>2 DEF Refuse
<1>3. ASSUME NEW o \in Owners, Beat(o) PROVE TInv'
  BY <1>3 DEF Beat
<1>4. ASSUME NEW o \in Owners, RunRenewal(o) PROVE TInv'
  BY <1>4 DEF RunRenewal
<1>5. ASSUME NEW o \in Owners, LoseRenewal(o) PROVE TInv'
  <2>1. misses[o] + 1 \in 0..MaxMisses
    BY <1>5 DEF LoseRenewal
  <2> QED
    BY <1>5, <2>1 DEF LoseRenewal
<1>6. ASSUME NEW o \in Owners, ReadAnswer(o) PROVE TInv'
  <2>1. (beating[o] /\ renewal[o] = "extended") \in BOOLEAN
    OBVIOUS
  <2> QED
    BY <1>6, <2>1 DEF ReadAnswer
<1>7. ASSUME NEW o \in Owners, Release(o) PROVE TInv'
  BY <1>7 DEF Release
<1>8. ASSUME NEW o \in Owners, Crash(o) PROVE TInv'
  BY <1>8 DEF Crash
<1>9. CASE Tick
  BY <1>9 DEF Tick
<1>10. CASE UNCHANGED vars
  BY <1>10 DEF vars
<1>11. ASSUME NEW o \in Owners, AcquireUnheard(o) PROVE TInv'
  BY <1>11 DEF AcquireUnheard
<1>12. ASSUME NEW o \in Owners, LoseAnswer(o) PROVE TInv'
  BY <1>12 DEF LoseAnswer
<1> QED
  BY <1>1, <1>2, <1>3, <1>4, <1>5, <1>6, <1>7, <1>8, <1>9, <1>10, <1>11, <1>12 DEF Next

\* The initial state is well typed.
LEMMA TypeInit == Init => TInv
BY LeaseAssumption DEF Init, TInv, TypeOK, KeyLives, Answers

\* Every action of the turn mutex (acquire, heartbeat, release, crash, expiry)
\* keeps the types of the lease and of its owners' state.
THEOREM TypeCorrect == Spec => []TypeOK
<1>1. TInv => TypeOK
  BY DEF TInv
<1> QED
  BY <1>1, TypeInit, TypeStep, PTL DEF Spec

----------------------------------------------------------------------------
\* A renewal of o is due or on its way to Redis.
Renewing(o) == beatDue[o] \/ renewal[o] = "sent"

\* A caller that has not arrived has no timer and no renewal.
Fresh(o) == ~beating[o] /\ renewal[o] = "none" /\ ~beatDue[o] /\ misses[o] = 0

\* While the turn runs its heartbeat is armed and no renewal was refused; the
\* life of the key is short by the renewals missed, and by one more period
\* while the renewal of this period is outstanding.
Safe(o) ==
    /\ holder = o
    /\ beating[o]
    /\ renewal[o] # "refused"
    /\ ttl + misses[o] + (IF Renewing(o) THEN 1 ELSE 0) >= LeaseBeats
    /\ beatDue[o] => renewal[o] = "none"

HInv ==
    /\ TInv
    /\ \A o \in Owners : phase[o] = "idle" => Fresh(o)
    /\ ~mayStall => \A o \in Owners : phase[o] = "held" => Safe(o)

\* With few enough misses each step preserves the margin of every running
\* turn, as long as the loop keeps pace.
LEMMA HeldStep ==
    ASSUME SurvivesMisses
    PROVE  HInv /\ [Next]_vars => HInv'
<1> SUFFICES ASSUME HInv, [Next]_vars PROVE HInv'
  OBVIOUS
<1>t. TInv'
  BY TypeStep DEF HInv
<1>0. mayStall' = mayStall
  BY DEF Next, vars
<1> USE <1>0, LeaseAssumption DEF HInv, TInv, TypeOK, Answers, Fresh, Safe, Renewing
<1>1. ASSUME NEW o \in Owners, Acquire(o) PROVE HInv'
  BY <1>t, <1>1 DEF Acquire
<1>2. ASSUME NEW o \in Owners, Refuse(o) PROVE HInv'
  BY <1>t, <1>2 DEF Refuse
<1>3. ASSUME NEW o \in Owners, Beat(o) PROVE HInv'
  BY <1>t, <1>3 DEF Beat
<1>4. ASSUME NEW o \in Owners, RunRenewal(o) PROVE HInv'
  BY <1>t, <1>4 DEF RunRenewal
<1>5. ASSUME NEW o \in Owners, LoseRenewal(o) PROVE HInv'
  BY <1>t, <1>5 DEF LoseRenewal
<1>6. ASSUME NEW o \in Owners, ReadAnswer(o) PROVE HInv'
  BY <1>t, <1>6 DEF ReadAnswer
<1>7. ASSUME NEW o \in Owners, Release(o) PROVE HInv'
  BY <1>t, <1>7 DEF Release
<1>8. ASSUME NEW o \in Owners, Crash(o) PROVE HInv'
  BY <1>t, <1>8 DEF Crash
<1>9. CASE Tick
  BY <1>t, <1>9 DEF Tick, Timely, SurvivesMisses
<1>10. CASE UNCHANGED vars
  BY <1>t, <1>10 DEF vars
<1>11. ASSUME NEW o \in Owners, AcquireUnheard(o) PROVE HInv'
  BY <1>t, <1>11 DEF AcquireUnheard
<1>12. ASSUME NEW o \in Owners, LoseAnswer(o) PROVE HInv'
  BY <1>t, <1>12 DEF LoseAnswer
<1> QED
  BY <1>1, <1>2, <1>3, <1>4, <1>5, <1>6, <1>7, <1>8, <1>9, <1>10, <1>11, <1>12 DEF Next

\* The initial state satisfies the inductive invariant.
LEMMA HeldInit == Init => HInv
BY TypeInit DEF Init, HInv, Fresh

\* The lease outlives the turn it protects: a turn that runs holds the key in
\* Redis, for every ratio of TURN_MUTEX_TTL_MS to TURN_MUTEX_HEARTBEAT_MS and
\* every number of lost renewals that SurvivesMisses allows.
THEOREM LeaseHolds == Spec => []HeldWhileRunning
<1>1. CASE ~SurvivesMisses
  <2>1. HeldWhileRunning
    BY <1>1 DEF HeldWhileRunning
  <2> QED
    BY <2>1, PTL
<1>2. CASE SurvivesMisses
  <2>1. HInv /\ [Next]_vars => HInv'
    BY <1>2, HeldStep
  <2>2. HInv => HeldWhileRunning
    BY DEF HInv, HeldWhileRunning, Safe
  <2> QED
    BY HeldInit, <2>1, <2>2, PTL DEF Spec
<1> QED
  BY <1>1, <1>2

----------------------------------------------------------------------------
\* Under the same conditions the lease implements the abstract mutex: a
\* successful SET NX enters, a release or the death of the owner leaves, and
\* every heartbeat, lost renewal and expiry is a step nobody notices.
THEOREM LeaseIsMutex ==
    ASSUME SurvivesMisses
    PROVE  Spec => ImplementsMutex
<1> USE DEF Users
<1>1. Init => Mutex!Init
  BY DEF Init, Mutex!Init
<1>2. HInv /\ [Next]_vars => [Mutex!Next]_([x \in {"thread"} |-> Users])
  <2> SUFFICES ASSUME HInv, [Next]_vars
               PROVE  \/ Users' = Users
                      \/ \E o \in Owners : Users = {} /\ Users' = {o}
                      \/ \E o \in Owners : o \in Users /\ Users' = Users \ {o}
    BY Zenon DEF Mutex!Next, Mutex!Enter, Mutex!Leave
  <2> USE DEF HInv, TInv, TypeOK, Safe
  <2>0. mayStall' = mayStall
    BY DEF Next, vars
  <2>1. CASE mayStall
    BY <2>0, <2>1
  <2>2. CASE ~mayStall
    <3>1. ASSUME NEW o \in Owners, Acquire(o) PROVE Users = {} /\ Users' = {o}
      BY <2>0, <2>2, <3>1, LeaseAssumption DEF Acquire
    <3>2. ASSUME NEW o \in Owners, Release(o) \/ Crash(o)
          PROVE  o \in Users /\ Users' = Users \ {o}
      BY <2>0, <2>2, <3>2 DEF Release, Crash
    <3>3. ASSUME NEW o \in Owners,
                 \/ AcquireUnheard(o) \/ Refuse(o) \/ Beat(o) \/ RunRenewal(o)
                 \/ LoseRenewal(o) \/ ReadAnswer(o) \/ LoseAnswer(o)
          PROVE  Users' = Users
      BY <2>0, <3>3 DEF AcquireUnheard, Refuse, Beat, RunRenewal, LoseRenewal,
                        ReadAnswer, LoseAnswer
    <3>4. CASE Tick \/ UNCHANGED vars
      BY <2>0, <3>4 DEF Tick, vars
    <3> QED
      BY <3>1, <3>2, <3>3, <3>4 DEF Next
  <2> QED
    BY <2>1, <2>2
<1>3. HInv /\ [Next]_vars => HInv'
  BY HeldStep
<1> QED
  BY <1>1, <1>2, <1>3, HeldInit, PTL DEF Spec, ImplementsMutex, Mutex!Spec
=============================================================================
