--------------------------- MODULE CircuitBreaker ---------------------------
(***************************************************************************)
(* circuitbreaker/circuitbreaker.go: the three-state breaker with its      *)
(* failure counter and the time it was opened, called by several           *)
(* goroutines.  Every method runs under cb.mu, so each is one step; what   *)
(* interleaves is the time between a caller's Allow and the outcome it     *)
(* records, which in main.flush spans a whole Save with its retries.       *)
(***************************************************************************)
EXTENDS Naturals, FiniteSets

CONSTANTS
  Callers,    \* goroutines that call flush
  Threshold,  \* consecutive failures that open the circuit
  Cooldown,   \* clock units an open circuit refuses requests
  MaxTime     \* bound on the clock

ASSUME ConfigAssumption ==
  /\ Threshold \in Nat \ {0}   \* main.go replaces 0 by 5
  /\ Cooldown \in Nat \ {0}    \* main.go replaces 0 by 60 seconds
  /\ MaxTime \in Nat

VARIABLES
  state,      \* "closed", "open" or "half-open"
  failures,   \* failures since the last success
  openedAt,   \* time of the last failure recorded at or over the threshold
  now,        \* the clock time.Now and time.Since read
  phase       \* per caller: "idle", or "trying": allowed, outcome not recorded

vars == <<state, failures, openedAt, now, phase>>

TypeOK ==
  /\ state \in {"closed", "open", "half-open"}
  /\ failures \in Nat
  /\ now \in 0 .. MaxTime
  /\ openedAt \in 0 .. now
  /\ phase \in [Callers -> {"idle", "trying"}]

Init ==
  /\ state = "closed"
  /\ failures = 0
  /\ openedAt = 0
  /\ now = 0
  /\ phase = [c \in Callers |-> "idle"]

-----------------------------------------------------------------------------
(* slip: the cooldown ends a tick early                                    *)
CooledEarly == now - openedAt + 1 >= Cooldown

(* time.Since(cb.openedAt) >= cb.cooldown *)
Cooled == now - openedAt >= Cooldown

AllowClosed(c) ==
  /\ phase[c] = "idle"
  /\ state = "closed"
  /\ phase' = [phase EXCEPT ![c] = "trying"]
  /\ UNCHANGED <<state, failures, openedAt, now>>

AllowAfterCooldown(c) ==
  /\ phase[c] = "idle"
  /\ state = "open"
  /\ Cooled
  /\ state' = "half-open"
  /\ phase' = [phase EXCEPT ![c] = "trying"]
  /\ UNCHANGED <<failures, openedAt, now>>

AllowHalfOpen(c) ==
  /\ phase[c] = "idle"
  /\ state = "half-open"
  /\ phase' = [phase EXCEPT ![c] = "trying"]
  /\ UNCHANGED <<state, failures, openedAt, now>>

(* Allow returns false: flush gives up and nothing changes.                *)
Refuse(c) ==
  /\ phase[c] = "idle"
  /\ state = "open"
  /\ ~Cooled
  /\ UNCHANGED vars

Allow(c) ==
  \/ AllowClosed(c)
  \/ AllowAfterCooldown(c)
  \/ AllowHalfOpen(c)
  \/ Refuse(c)

(* slip: the circuit is closed but the old failures still count            *)
RecordSuccessKeepsCount(c) ==
  /\ phase[c] # "idle"
  /\ state' = "closed"
  /\ phase' = [phase EXCEPT ![c] = "idle"]
  /\ UNCHANGED <<failures, openedAt, now>>

(* The caller may have been allowed long before: a success recorded by a   *)
(* slow attempt closes a circuit that others have opened since.            *)
RecordSuccess(c) ==
  /\ phase[c] # "idle"
  /\ failures' = 0
  /\ state' = "closed"
  /\ phase' = [phase EXCEPT ![c] = "idle"]
  /\ UNCHANGED <<openedAt, now>>

(* slips: the end of the cooldown is stored in place of its start; only a  *)
(* closed circuit is opened                                                *)
TripUntil == state' = "open" /\ openedAt' = now + Cooldown

TripFromClosed ==
  /\ state' = IF state = "closed" THEN "open" ELSE state
  /\ openedAt' = now

Trip == state' = "open" /\ openedAt' = now

RecordFailure(c) ==
  /\ phase[c] # "idle"
  /\ failures' = failures + 1
  /\ IF failures' >= Threshold THEN Trip ELSE UNCHANGED <<state, openedAt>>
  /\ phase' = [phase EXCEPT ![c] = "idle"]
  /\ UNCHANGED now

(* flush was allowed but drained nothing, failed to read the buffer, or    *)
(* filtered every entry away: it returns without recording an outcome.     *)
Abandon(c) ==
  /\ phase[c] # "idle"
  /\ phase' = [phase EXCEPT ![c] = "idle"]
  /\ UNCHANGED <<state, failures, openedAt, now>>

Tick ==
  /\ now < MaxTime
  /\ now' = now + 1
  /\ UNCHANGED <<state, failures, openedAt, phase>>

(* The clock stops at its bound: the model ends there, the code does not.  *)
TimeUp ==
  /\ now = MaxTime
  /\ UNCHANGED vars

Next ==
  \/ Tick
  \/ TimeUp
  \/ \E c \in Callers :
       Allow(c) \/ RecordSuccess(c) \/ RecordFailure(c) \/ Abandon(c)

Spec == Init /\ [][Next]_vars

-----------------------------------------------------------------------------
(* The circuit is closed exactly while the current streak of failures is   *)
(* under the threshold: no order in which concurrent flushes record their  *)
(* outcomes (RecordSuccess and RecordFailure of attempts allowed in an     *)
(* earlier state) separates the state from the counter.                    *)
StateMatchesStreak == state = "closed" <=> failures < Threshold

(* A half-open circuit has served its whole cooldown: no failure recorded  *)
(* while it is half-open leaves it half-open with a restarted cooldown     *)
(* (Allow and RecordFailure).                                              *)
HalfOpenHasCooled == state = "half-open" => now >= openedAt + Cooldown

(* One failed probe is enough to open a half-open circuit again, whatever  *)
(* the threshold (README, Circuit Breaker: "failure re-opens it").         *)
FailedProbeReopens ==
  [][state = "half-open" /\ failures' > failures
       => state' = "open" /\ openedAt' = now]_vars

(* The code's breaker is the promised one: its streak is the failure count *)
(* up to the threshold, and it is rested when the streak is full and the   *)
(* cooldown over.  Refused and allowed requests are the same in both.      *)
Promise == INSTANCE Breaker WITH
  streak <- IF failures < Threshold THEN failures ELSE Threshold,
  rested <- failures >= Threshold /\ Cooled

ImplementsBreaker == Promise!Spec

=============================================================================
