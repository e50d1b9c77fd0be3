------------------------ MODULE CircuitBreakerProofs ------------------------
(***************************************************************************)
(* The circuit breaker for any number of callers, any threshold and any    *)
(* cooldown: its state and its counter agree, and it implements Breaker,   *)
(* the promise Pipeline builds on.                                         *)
(***************************************************************************)
EXTENDS CircuitBreaker, TLAPS

(* What the breaker keeps between two calls.  StateMatchesStreak alone is  *)
(* not enough for the refinement: a half-open circuit is a rested one only *)
(* because of HalfOpenHasCooled.                                           *)
IInv ==
  /\ TypeOK
  /\ StateMatchesStreak
  /\ HalfOpenHasCooled

(* The breaker starts in a state that satisfies IInv.                      *)
LEMMA InitEstablishes == Init => IInv
<1> SUFFICES ASSUME Init PROVE IInv
  OBVIOUS
<1>1. TypeOK
  BY ConfigAssumption DEF Init, TypeOK
<1>2. StateMatchesStreak /\ HalfOpenHasCooled
  BY ConfigAssumption DEF Init, StateMatchesStreak, HalfOpenHasCooled
<1> QED
  BY <1>1, <1>2 DEF IInv

(* No Allow, no recorded outcome and no passing of time leaves IInv.       *)
LEMMA StepPreserves == IInv /\ [Next]_vars => IInv'
<1> SUFFICES ASSUME IInv, [Next]_vars PROVE IInv'
  OBVIOUS
<1> USE ConfigAssumption DEF IInv, TypeOK, StateMatchesStreak, HalfOpenHasCooled, Cooled
<1>1. CASE Tick
  BY <1>1 DEF Tick
<1>2. CASE TimeUp \/ UNCHANGED vars
  BY <1>2 DEF TimeUp, vars
<1>3. ASSUME NEW c \in Callers, Allow(c) PROVE IInv'
  <2>1. CASE AllowClosed(c)
    BY <2>1 DEF AllowClosed
  <2>2. CASE AllowAfterCooldown(c)
    BY <2>2 DEF AllowAfterCooldown
  <2>3. CASE AllowHalfOpen(c)
    BY <2>3 DEF AllowHalfOpen
  <2>4. CASE Refuse(c)
    BY <2>4 DEF Refuse, vars
  <2> QED
    BY <1>3, <2>1, <2>2, <2>3, <2>4 DEF Allow
<1>4. ASSUME NEW c \in Callers, RecordSuccess(c) PROVE IInv'
  BY <1>4 DEF RecordSuccess
<1>5. ASSUME NEW c \in Callers, RecordFailure(c) PROVE IInv'
  <2>1. CASE failures' >= Threshold
    BY <1>5, <2>1 DEF RecordFailure, Trip
  <2>2. CASE ~(failures' >= Threshold)
    BY <1>5, <2>2 DEF RecordFailure, Trip
  <2> QED
    BY <2>1, <2>2
<1>6. ASSUME NEW c \in Callers, Abandon(c) PROVE IInv'
  BY <1>6 DEF Abandon
<1> QED
  BY <1>1, <1>2, <1>3, <1>4, <1>5, <1>6 DEF Next

(* Every reachable state of the breaker satisfies IInv.                    *)
LEMMA Invariance == Spec => []IInv
<1> QED
  BY InitEstablishes, StepPreserves, PTL DEF Spec

(* The breaker's fields keep their types; in particular openedAt is never  *)
(* in the future, so that time.Since(openedAt) is never negative.          *)
THEOREM TypeCorrect == Spec => []TypeOK
<1>1. IInv => TypeOK
  BY DEF IInv
<1> QED
  BY <1>1, Invariance, PTL

(* The circuit is closed exactly while the streak is under the threshold,  *)
(* in whatever order the callers record their outcomes.                    *)
THEOREM StateAgrees == Spec => []StateMatchesStreak
<1>1. IInv => StateMatchesStreak
  BY DEF IInv
<1> QED
  BY <1>1, Invariance, PTL

(* A half-open circuit has served its whole cooldown.                      *)
THEOREM HalfOpenAfterCooldown == Spec => []HalfOpenHasCooled
<1>1. IInv => HalfOpenHasCooled
  BY DEF IInv
<1> QED
  BY <1>1, Invariance, PTL

(* One failure recorded while half-open opens the circuit again and starts *)
(* a whole cooldown.                                                       *)
THEOREM ProbeFailureReopens == Spec => FailedProbeReopens
<1>1. IInv /\ [Next]_vars =>
        [state = "half-open" /\ failures' > failures
           => state' = "open" /\ openedAt' = now]_vars
  <2> SUFFICES ASSUME IInv, Next, state = "half-open", failures' > failures
               PROVE  state' = "open" /\ openedAt' = now
    BY DEF vars
  <2>1. PICK c \in Callers : RecordFailure(c)
    BY DEF Next, Tick, TimeUp, Allow, AllowClosed, AllowAfterCooldown, AllowHalfOpen,
           Refuse, RecordSuccess, Abandon, vars, IInv, TypeOK
  <2>2. failures' >= Threshold
    BY <2>1, ConfigAssumption DEF RecordFailure, IInv, TypeOK, StateMatchesStreak
  <2> QED
    BY <2>1, <2>2 DEF RecordFailure, Trip
<1> QED
  BY <1>1, Invariance, PTL DEF Spec, FailedProbeReopens

-----------------------------------------------------------------------------
(* A step of the code's breaker is a step of the promised one, or none.    *)
LEMMA StepRefines == IInv /\ IInv' /\ [Next]_vars => [Promise!Next]_(Promise!vars)
<1> SUFFICES ASSUME IInv, IInv', [Next]_vars
             PROVE  Promise!Next \/ UNCHANGED Promise!vars
  OBVIOUS
<1> USE ConfigAssumption DEF IInv, TypeOK, StateMatchesStreak, HalfOpenHasCooled, Cooled,
      Promise!vars, Promise!breakerVars, Promise!Tripped
<1>1. CASE Tick
  <2>1. UNCHANGED <<failures, phase>>
    BY <1>1 DEF Tick
  <2>2. CASE failures >= Threshold /\ ~Cooled /\ Cooled'
    <3>1. Promise!Elapse
      BY <1>1, <2>1, <2>2 DEF Tick, Promise!Elapse, Promise!Rest
    <3> QED
      BY <3>1 DEF Promise!Next
  <2>3. CASE ~(failures >= Threshold /\ ~Cooled /\ Cooled')
    BY <1>1, <2>1, <2>3 DEF Tick
  <2> QED
    BY <2>2, <2>3
<1>2. CASE TimeUp \/ UNCHANGED vars
  BY <1>2 DEF TimeUp, vars
<1>3. ASSUME NEW c \in Callers, Allow(c) PROVE Promise!Next \/ UNCHANGED Promise!vars
  <2>1. CASE Refuse(c)
    BY <2>1 DEF Refuse, vars
  <2>2. CASE AllowClosed(c) \/ AllowAfterCooldown(c) \/ AllowHalfOpen(c)
    <3>1. failures >= Threshold => Cooled
      BY <2>2 DEF AllowClosed, AllowAfterCooldown, AllowHalfOpen
    <3>2. Promise!Passes
      BY <3>1 DEF Promise!Passes
    <3>3. /\ phase[c] = "idle"
          /\ phase' = [phase EXCEPT ![c] = "trying"]
          /\ UNCHANGED <<failures, openedAt, now>>
      BY <2>2 DEF AllowClosed, AllowAfterCooldown, AllowHalfOpen
    <3>4. Promise!Allow(c)
      BY <3>2, <3>3 DEF Promise!Allow
    <3> QED
      BY <3>4 DEF Promise!Next
  <2> QED
    BY <1>3, <2>1, <2>2 DEF Allow
<1>4. ASSUME NEW c \in Callers, RecordSuccess(c) PROVE Promise!Next
  <2>1. ~(failures >= Threshold /\ Cooled)'
    BY <1>4 DEF RecordSuccess
  <2>2. (IF failures < Threshold THEN failures ELSE Threshold)' = 0
    BY <1>4 DEF RecordSuccess
  <2>3. Promise!Succeed
    BY ONLY <2>1, <2>2, Zenon DEF Promise!Succeed
  <2>4. Promise!RecordSuccess(c)
    BY <1>4, <2>3 DEF RecordSuccess, Promise!RecordSuccess
  <2> QED
    BY <2>4 DEF Promise!Next
<1>5. ASSUME NEW c \in Callers, RecordFailure(c) PROVE Promise!Next
  <2>1. ~(failures >= Threshold /\ Cooled)'
    <3>1. CASE failures' >= Threshold
      <4>1. openedAt' = now /\ now' = now
        BY <1>5, <3>1 DEF RecordFailure, Trip
      <4>2. ~Cooled'
        BY <4>1
      <4> QED
        BY <4>2
    <3>2. CASE ~(failures' >= Threshold)
      BY <3>2
    <3> QED
      BY <3>1, <3>2
  <2>2. (IF failures < Threshold THEN failures ELSE Threshold)'
          = IF Promise!Tripped
            THEN Threshold
            ELSE (IF failures < Threshold THEN failures ELSE Threshold) + 1
    BY <1>5 DEF RecordFailure, Trip
  <2>3. Promise!Fail
    BY ONLY <2>1, <2>2, Zenon DEF Promise!Fail
  <2>4. Promise!RecordFailure(c)
    BY <1>5, <2>3 DEF RecordFailure, Trip, Promise!RecordFailure
  <2> QED
    BY <2>4 DEF Promise!Next
<1>6. ASSUME NEW c \in Callers, Abandon(c) PROVE Promise!Next
  <2>1. Promise!Abandon(c)
    BY <1>6 DEF Abandon, Promise!Abandon
  <2> QED
    BY <2>1 DEF Promise!Next
<1> QED
  BY <1>1, <1>2, <1>3, <1>4, <1>5, <1>6 DEF Next

(* The breaker of the code keeps the promise Pipeline relies on: it refuses *)
(* exactly while a full streak of failures has not rested for the cooldown. *)
THEOREM Refinement == Spec => ImplementsBreaker
<1>1. Init => Promise!Init
  BY ConfigAssumption DEF Init, Promise!Init, Promise!BreakerInit
<1> QED
  BY <1>1, StepRefines, Invariance, PTL DEF Spec, ImplementsBreaker, Promise!Spec

=============================================================================
