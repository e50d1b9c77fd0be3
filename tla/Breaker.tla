------------------------------ MODULE Breaker ------------------------------
(***************************************************************************)
(* What circuitbreaker.CircuitBreaker promises the goroutines that ask it  *)
(* for permission to flush.  The promise needs neither the three state     *)
(* names nor a clock: the breaker keeps the length of the current streak   *)
(* of failures, counted up to Threshold, and whether a full streak has     *)
(* rested for the cooldown.  A request is refused exactly while the streak *)
(* is full and has not rested.                                             *)
(*                                                                         *)
(* CircuitBreaker is shown to implement this module; Pipeline uses it in   *)
(* the place of the breaker.                                               *)
(***************************************************************************)
EXTENDS Naturals

CONSTANTS
  Callers,    \* the goroutines that call Allow, RecordSuccess, RecordFailure
  Threshold   \* consecutive failures that trip the breaker, at least 1

VARIABLES
  streak,     \* consecutive failures, saturated at Threshold
  rested,     \* the streak is full and the cooldown has elapsed since
  phase       \* per caller: "idle", or "trying" between Allow and its outcome

breakerVars == <<streak, rested>>
vars == <<streak, rested, phase>>

BreakerInit ==
  /\ streak = 0
  /\ rested = FALSE

Init ==
  /\ BreakerInit
  /\ phase = [c \in Callers |-> "idle"]

-----------------------------------------------------------------------------
(* The breaker's own operations, for a module that composes it.            *)

Tripped == streak = Threshold
(* slip: there is no half-open state                                       *)
PassesClosed == ~Tripped

Passes == Tripped => rested

Succeed ==
  /\ streak' = 0
  /\ rested' = FALSE

(* slip: the streak is not cut at the threshold                            *)
FailUncut ==
  /\ streak' = streak + 1
  /\ rested' = FALSE

Fail ==
  /\ streak' = IF Tripped THEN Threshold ELSE streak + 1
  /\ rested' = FALSE

Rest ==
  /\ Tripped
  /\ ~rested
  /\ rested' = TRUE
  /\ UNCHANGED streak

-----------------------------------------------------------------------------
(* The protocol of the callers.                                            *)

Allow(c) ==
  /\ phase[c] = "idle"
  /\ Passes
  /\ phase' = [phase EXCEPT ![c] = "trying"]
  /\ UNCHANGED breakerVars

RecordSuccess(c) ==
  /\ phase[c] = "trying"
  /\ Succeed
  /\ phase' = [phase EXCEPT ![c] = "idle"]

RecordFailure(c) ==
  /\ phase[c] = "trying"
  /\ Fail
  /\ phase' = [phase EXCEPT ![c] = "idle"]

(* An allowed flush that finds nothing to save reports no outcome.         *)
Abandon(c) ==
  /\ phase[c] = "trying"
  /\ phase' = [phase EXCEPT ![c] = "idle"]
  /\ UNCHANGED breakerVars

Elapse ==
  /\ Rest
  /\ UNCHANGED phase

Next ==
  \/ Elapse
  \/ \E c \in Callers :
       Allow(c) \/ RecordSuccess(c) \/ RecordFailure(c) \/ Abandon(c)

Spec == Init /\ [][Next]_vars

=============================================================================
