------------------------------- MODULE Retry -------------------------------
(***************************************************************************)
(* retry/retry.go: Do, the loop of attempts around a call, and Backoff,    *)
(* the delay between two of them, with the defaults clickhouse.Save puts   *)
(* in the place of zero settings.  Durations are signed integers of some   *)
(* width that wrap around, counted in the unit of the settings.            *)
(***************************************************************************)
EXTENDS Integers

CONSTANTS
  HalfRange,        \* 2^(w-1) for a time.Duration of w bits
  RetryMaxs,        \* values of settings.retry.max_retries
  InitialSecs,      \* values of backoff_initial_secs
  MaxSecs,          \* values of backoff_max_secs
  DefaultRetries,   \* 3 in clickhouse.Save
  DefaultInitial,   \* 1
  DefaultMax        \* 30

Durations == -HalfRange .. HalfRange - 1

ASSUME SettingsAssumption ==
  /\ HalfRange \in Nat \ {0}
  /\ RetryMaxs \subseteq Int
  /\ InitialSecs \subseteq Durations
  /\ MaxSecs \subseteq Durations
  /\ DefaultRetries \in Nat
  /\ {DefaultInitial, DefaultMax} \subseteq Durations

VARIABLES
  maxRetries,  \* the arguments of Do
  initial,
  maxDelay,
  pc,          \* "loop", "call", "double", "jitter", "sleep" or "returned"
  attempt,     \* the loop variable of Do
  doublings,   \* the iterations of the loop of Backoff so far
  delay,       \* of Backoff; in "sleep" its result
  failed,      \* the last call returned an error
  calls        \* calls of fn so far

params == <<maxRetries, initial, maxDelay>>
vars == <<params, pc, attempt, doublings, delay, failed, calls>>

TypeOK ==
  /\ maxRetries \in Int
  /\ {initial, maxDelay, delay} \subseteq Durations
  /\ pc \in {"loop", "call", "double", "jitter", "sleep", "returned"}
  /\ {attempt, doublings, calls} \subseteq Nat
  /\ failed \in BOOLEAN

Default(value, default) == IF value = 0 THEN default ELSE value

(* A duration wraps around at its width.                                   *)
Wrapped(n) == ((n + HalfRange) % (2 * HalfRange)) - HalfRange

Init ==
  /\ maxRetries \in {Default(n, DefaultRetries) : n \in RetryMaxs}
  /\ initial \in {Default(d, DefaultInitial) : d \in InitialSecs}
  /\ maxDelay \in {Default(d, DefaultMax) : d \in MaxSecs}
  /\ pc = "loop"
  /\ attempt = 0
  /\ doublings = 0
  /\ delay = 0
  /\ failed = FALSE
  /\ calls = 0

-----------------------------------------------------------------------------
(* slip: maxRetries calls in all                                           *)
MoreButOne == attempt < maxRetries

More == attempt < maxRetries + 1

(* range maxRetries + 1: the loop has no iteration for a negative number.  *)
Loop ==
  /\ pc = "loop"
  /\ pc' = IF More THEN "call" ELSE "returned"
  /\ UNCHANGED <<params, attempt, doublings, delay, failed, calls>>

(* fn is called.  After a failure Backoff starts, except for the last one. *)
Call ==
  /\ pc = "call"
  /\ calls' = calls + 1
  /\ failed' \in BOOLEAN
  /\ IF failed' /\ attempt < maxRetries
     THEN pc' = "double" /\ delay' = initial /\ UNCHANGED attempt
     ELSE /\ pc' = IF failed' THEN "loop" ELSE "returned"
          /\ attempt' = IF failed' THEN attempt + 1 ELSE attempt
          /\ UNCHANGED delay
  /\ doublings' = 0
  /\ UNCHANGED params

(* slip: an overflow goes unnoticed                                        *)
ReachesMax(d) == d >= maxDelay

ReachesCap(d) == d <= 0 \/ d >= maxDelay

(* One iteration of the loop of Backoff, or its end.                       *)
Double ==
  /\ pc = "double"
  /\ IF doublings < attempt
     THEN LET twice == Wrapped(2 * delay)
          IN  IF ReachesCap(twice)
              THEN delay' = maxDelay /\ pc' = "jitter" /\ UNCHANGED doublings
              ELSE delay' = twice /\ doublings' = doublings + 1 /\ UNCHANGED pc
     ELSE pc' = "jitter" /\ UNCHANGED <<delay, doublings>>
  /\ UNCHANGED <<params, attempt, failed, calls>>

(* slip: the jitter is not cut at the initial delay                        *)
JitteredFromZero == IF delay <= 0 THEN {initial} ELSE 0 .. delay - 1

(* rand.N(delay), which is below delay, but never less than initial.       *)
Jittered == {initial} \union {d \in 0 .. delay - 1 : d >= initial}

Jitter ==
  /\ pc = "jitter"
  /\ delay' \in Jittered
  /\ pc' = "sleep"
  /\ UNCHANGED <<params, attempt, doublings, failed, calls>>

Sleep ==
  /\ pc = "sleep"
  /\ pc' = "loop"
  /\ attempt' = attempt + 1
  /\ UNCHANGED <<params, doublings, delay, failed, calls>>

Returned ==
  /\ pc = "returned"
  /\ UNCHANGED vars

Next == Loop \/ Call \/ Double \/ Jitter \/ Sleep \/ Returned

Spec == Init /\ [][Next]_vars

-----------------------------------------------------------------------------
Sensible == 0 < initial /\ initial <= maxDelay

PowerOfTwo[n \in Nat] == IF n = 0 THEN 1 ELSE 2 * PowerOfTwo[n - 1]

(* The cap of the jitter is exactly the exponential delay cut at the       *)
(* maximum: doubling past the width of a duration is noticed (Backoff).    *)
CapExact ==
  pc = "jitter" /\ Sensible =>
    LET exponential == initial * PowerOfTwo[attempt]
    IN  delay = IF exponential < maxDelay THEN exponential ELSE maxDelay

(* "[initial, min(initial*2^attempt, maxDelay)]" (retry.go:11) for settings *)
(* that leave such a delay.                                                *)
DelayBetween == pc = "sleep" /\ Sensible => delay \in initial .. maxDelay

(* An error is returned only after maxRetries + 1 calls, the last of them  *)
(* without a delay after it; and nothing is called at all exactly when     *)
(* maxRetries is negative, which then counts as a success (Do, retry.go:43)*)
ErrorMeansExhausted ==
  pc = "returned" =>
    /\ failed => calls = maxRetries + 1
    /\ calls = 0 <=> maxRetries < 0

=============================================================================
