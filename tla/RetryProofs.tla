----------------------------- MODULE RetryProofs -----------------------------
(***************************************************************************)
(* Do and Backoff for every number of retries, every initial and maximal   *)
(* delay and every width of a duration: a sensible delay stays between the *)
(* two and its cap is the exponential delay, also when doubling overflows, *)
(* and an error is returned only after every retry.                        *)
(***************************************************************************)
EXTENDS Retry, FoldLemmas, TLAPS

(* What is known of the delay while Backoff computes it.                   *)
DelaySensible ==
  pc \in {"double", "jitter", "sleep"} /\ Sensible => delay \in initial .. maxDelay

(* The attempts of Do and the calls of fn agree, and a failed call is the  *)
(* last one only when no retry is left.                                    *)
CallsCounted ==
  /\ pc \in {"loop", "call"} => calls = attempt
  /\ pc = "loop" /\ failed => attempt <= maxRetries + 1
  /\ pc = "loop" => attempt = 0 \/ attempt <= maxRetries + 1
  /\ pc = "call" => attempt <= maxRetries
  /\ pc \in {"double", "jitter", "sleep"} => calls = attempt + 1 /\ attempt < maxRetries

IInv ==
  /\ TypeOK
  /\ DelaySensible
  /\ CallsCounted
  /\ ErrorMeansExhausted

(* Wrapping takes every integer to a duration, keeps the durations, and    *)
(* makes a sum just above them negative.                                   *)
LEMMA WrappedIsDuration ==
  ASSUME NEW n \in Int
  PROVE  Wrapped(n) \in Durations
<1>1. (n + HalfRange) % (2 * HalfRange) \in 0 .. 2 * HalfRange - 1
  BY SettingsAssumption
<1> QED
  BY <1>1, SettingsAssumption DEF Wrapped, Durations

LEMMA WrappedKeeps ==
  ASSUME NEW n \in Durations
  PROVE  Wrapped(n) = n
<1>1. n + HalfRange \in 0 .. 2 * HalfRange - 1
  BY SettingsAssumption DEF Durations
<1>2. (n + HalfRange) % (2 * HalfRange) = n + HalfRange
  BY <1>1, SettingsAssumption
<1> QED
  BY <1>2, SettingsAssumption DEF Wrapped, Durations

LEMMA WrappedOverflows ==
  ASSUME NEW n \in HalfRange .. 2 * HalfRange - 1
  PROVE  Wrapped(n) < 0
<1>1. /\ n + HalfRange = 1 * (2 * HalfRange) + (n - HalfRange)
      /\ n - HalfRange \in 0 .. 2 * HalfRange - 1
  BY SettingsAssumption
<1>2. (n + HalfRange) % (2 * HalfRange) = n - HalfRange
  BY <1>1, SettingsAssumption
<1> QED
  BY <1>2, SettingsAssumption DEF Wrapped

-----------------------------------------------------------------------------
(* Do starts with no attempt made, whatever the settings.                  *)
LEMMA InitEstablishes == Init => IInv
<1> SUFFICES ASSUME Init PROVE IInv
  OBVIOUS
<1>1. maxRetries \in Int /\ initial \in Durations /\ maxDelay \in Durations
  BY SettingsAssumption DEF Init, Default
<1>2. delay \in Durations
  BY SettingsAssumption DEF Init, Durations
<1>3. failed \in BOOLEAN
  BY Zenon DEF Init
<1>4. pc = "loop" /\ attempt = 0 /\ doublings = 0 /\ calls = 0 /\ failed = FALSE
  BY Zenon DEF Init
<1>5. TypeOK
  BY <1>1, <1>2, <1>3, <1>4 DEF TypeOK
<1>6. DelaySensible /\ CallsCounted /\ ErrorMeansExhausted
  BY <1>4 DEF DelaySensible, CallsCounted, ErrorMeansExhausted
<1> QED
  BY <1>5, <1>6 DEF IInv

(* The types that a step does not touch.                                   *)
LEMMA TypesCarry ==
  ASSUME TypeOK, UNCHANGED params,
         pc' \in {"loop", "call", "double", "jitter", "sleep", "returned"},
         delay' \in Durations, failed' \in BOOLEAN,
         attempt' \in Nat, doublings' \in Nat, calls' \in Nat
  PROVE  TypeOK'
<1>1. maxRetries' \in Int /\ initial' \in Durations /\ maxDelay' \in Durations
  BY DEF TypeOK, params
<1> QED
  BY <1>1 DEF TypeOK

(* A step of Do or Backoff.  The delay is either doubled within the bounds *)
(* or becomes the maximum: a product that is too large for a duration is   *)
(* negative and so reaches the cap.                                        *)
LEMMA DoubleKeeps ==
  ASSUME IInv, Double
  PROVE  IInv'
<1>0. TypeOK /\ DelaySensible /\ CallsCounted /\ pc = "double"
  BY DEF IInv, Double
<1>1. /\ maxRetries \in Int /\ initial \in Durations /\ maxDelay \in Durations
      /\ delay \in Durations /\ attempt \in Nat /\ doublings \in Nat /\ calls \in Nat
      /\ UNCHANGED <<maxRetries, initial, maxDelay, attempt, calls, failed>>
      /\ failed \in BOOLEAN
  BY <1>0, Zenon DEF TypeOK, Double, params
<1>2. /\ pc' \in {"double", "jitter"}
      /\ doublings' \in Nat
      /\ \/ delay' = delay
         \/ delay' = maxDelay
         \/ delay' = Wrapped(2 * delay) /\ ~ReachesCap(Wrapped(2 * delay))
  BY <1>1 DEF Double
<1>3. Wrapped(2 * delay) \in Durations
  BY <1>1, WrappedIsDuration, SettingsAssumption DEF Durations
<1>4. TypeOK'
  BY <1>0, <1>1, <1>2, <1>3, TypesCarry DEF params
<1>5. DelaySensible'
  <2> SUFFICES ASSUME Sensible' PROVE delay' \in initial .. maxDelay
    BY <1>1 DEF DelaySensible
  <2>1. delay \in initial .. maxDelay /\ 0 < initial /\ initial <= maxDelay
    BY <1>0, <1>1 DEF DelaySensible, Sensible
  <2>2. CASE delay' = Wrapped(2 * delay) /\ ~ReachesCap(Wrapped(2 * delay))
    <3>1. 0 < Wrapped(2 * delay) /\ Wrapped(2 * delay) < maxDelay
      BY <1>1, <1>3, <2>2, SettingsAssumption DEF ReachesCap, Durations
    <3>2. CASE 2 * delay < HalfRange
      <4>1. Wrapped(2 * delay) = 2 * delay
        BY <1>1, <2>1, <3>2, WrappedKeeps, SettingsAssumption DEF Durations
      <4> QED
        BY <1>1, <2>1, <2>2, <3>1, <4>1, SettingsAssumption DEF Durations
    <3>3. CASE ~(2 * delay < HalfRange)
      <4>1. Wrapped(2 * delay) < 0
        BY <1>1, <2>1, <3>3, WrappedOverflows, SettingsAssumption DEF Durations
      <4> QED
        BY <1>3, <3>1, <4>1, SettingsAssumption DEF Durations
    <3> QED
      BY <3>2, <3>3
  <2> QED
    BY <1>1, <1>2, <2>1, <2>2, SettingsAssumption DEF Durations
<1>6. CallsCounted' /\ ErrorMeansExhausted'
  BY <1>0, <1>1, <1>2 DEF CallsCounted, ErrorMeansExhausted
<1> QED
  BY <1>4, <1>5, <1>6 DEF IInv

LEMMA JitterKeeps ==
  ASSUME IInv, Jitter
  PROVE  IInv'
<1>0. TypeOK /\ DelaySensible /\ CallsCounted /\ pc = "jitter"
  BY DEF IInv, Jitter
<1>1. /\ maxRetries \in Int /\ initial \in Durations /\ maxDelay \in Durations
      /\ delay \in Durations /\ attempt \in Nat /\ doublings \in Nat /\ calls \in Nat
      /\ UNCHANGED <<maxRetries, initial, maxDelay, attempt, doublings, calls, failed>>
      /\ failed \in BOOLEAN
      /\ pc' = "sleep"
  BY <1>0, Zenon DEF TypeOK, Jitter, params
<1>2. delay' = initial \/ (delay' \in 0 .. delay - 1 /\ delay' >= initial)
  BY DEF Jitter, Jittered
<1>3. TypeOK'
  <2>1. delay' \in Durations
    BY <1>1, <1>2, SettingsAssumption DEF Durations
  <2> QED
    BY <1>0, <1>1, <2>1, TypesCarry DEF params
<1>4. DelaySensible'
  BY <1>0, <1>1, <1>2, SettingsAssumption DEF DelaySensible, Sensible, Durations
<1>5. CallsCounted' /\ ErrorMeansExhausted'
  BY <1>0, <1>1 DEF CallsCounted, ErrorMeansExhausted
<1> QED
  BY <1>3, <1>4, <1>5 DEF IInv

LEMMA CallKeeps ==
  ASSUME IInv, Call
  PROVE  IInv'
<1>0. TypeOK /\ CallsCounted /\ pc = "call"
  BY DEF IInv, Call
<1>1. /\ maxRetries \in Int /\ initial \in Durations /\ maxDelay \in Durations
      /\ delay \in Durations /\ attempt \in Nat /\ calls \in Nat
      /\ UNCHANGED <<maxRetries, initial, maxDelay>>
      /\ failed' \in BOOLEAN
      /\ doublings' = 0 /\ calls' = calls + 1
  BY <1>0, Zenon DEF TypeOK, Call, params
<1>2. \/ /\ pc' = "double" /\ delay' = initial /\ attempt' = attempt
         /\ attempt < maxRetries
      \/ /\ pc' = "loop" /\ delay' = delay /\ attempt' = attempt + 1
         /\ failed' /\ ~(attempt < maxRetries)
      \/ /\ pc' = "returned" /\ delay' = delay /\ attempt' = attempt
         /\ ~failed'
  BY Zenon DEF Call
<1>3. TypeOK'
  <2>1. /\ pc' \in {"loop", "call", "double", "jitter", "sleep", "returned"}
        /\ delay' \in Durations
        /\ attempt' \in Nat /\ doublings' \in Nat /\ calls' \in Nat
    BY <1>1, <1>2
  <2> QED
    BY <1>0, <1>1, <2>1, TypesCarry DEF params
<1>4. DelaySensible'
  BY <1>1, <1>2, SettingsAssumption DEF DelaySensible, Sensible, Durations
<1>5. CallsCounted' /\ ErrorMeansExhausted'
  BY <1>0, <1>1, <1>2 DEF CallsCounted, ErrorMeansExhausted
<1> QED
  BY <1>3, <1>4, <1>5 DEF IInv

LEMMA LoopKeeps ==
  ASSUME IInv, Loop \/ Sleep \/ Returned \/ UNCHANGED vars
  PROVE  IInv'
<1>0. TypeOK /\ DelaySensible /\ CallsCounted /\ ErrorMeansExhausted
  BY DEF IInv
<1>1. /\ maxRetries \in Int /\ initial \in Durations /\ maxDelay \in Durations
      /\ delay \in Durations /\ attempt \in Nat /\ doublings \in Nat /\ calls \in Nat
      /\ UNCHANGED <<maxRetries, initial, maxDelay, delay, doublings, calls, failed>>
      /\ failed \in BOOLEAN
  BY <1>0, Zenon DEF TypeOK, Loop, Sleep, Returned, vars, params
<1>2. \/ /\ pc = "loop" /\ attempt' = attempt
         /\ pc' = (IF attempt < maxRetries + 1 THEN "call" ELSE "returned")
      \/ pc = "sleep" /\ pc' = "loop" /\ attempt' = attempt + 1
      \/ pc' = pc /\ attempt' = attempt
  BY Zenon DEF Loop, More, Sleep, Returned, vars
<1>3. TypeOK'
  <2>1. /\ pc' \in {"loop", "call", "double", "jitter", "sleep", "returned"}
        /\ attempt' \in Nat
    BY <1>0, <1>1, <1>2 DEF TypeOK
  <2> QED
    BY <1>0, <1>1, <2>1, TypesCarry DEF params
<1>4. DelaySensible'
  BY <1>0, <1>1, <1>2 DEF DelaySensible, Sensible
<1>5. CallsCounted' /\ ErrorMeansExhausted'
  BY <1>0, <1>1, <1>2 DEF CallsCounted, ErrorMeansExhausted
<1> QED
  BY <1>3, <1>4, <1>5 DEF IInv

LEMMA Invariance == Spec => []IInv
<1>1. IInv /\ [Next]_vars => IInv'
  BY DoubleKeeps, JitterKeeps, CallKeeps, LoopKeeps DEF Next
<1> QED
  BY <1>1, InitEstablishes, PTL DEF Spec

-----------------------------------------------------------------------------
(* No delay leaves the range of a duration, whatever it is doubled from.   *)
THEOREM TypeCorrect == Spec => []TypeOK
<1>1. IInv => TypeOK
  BY DEF IInv
<1> QED
  BY <1>1, Invariance, PTL

(* With sensible settings every delay Do sleeps is between the initial and *)
(* the maximal one, for every width of a duration and every attempt.       *)
THEOREM DelayWithinBounds == Spec => []DelayBetween
<1>1. IInv => DelayBetween
  BY DEF IInv, DelaySensible, DelayBetween
<1> QED
  BY <1>1, Invariance, PTL

(* An error is returned after maxRetries + 1 calls, never earlier, and     *)
(* success without a call for negative settings only.                      *)
THEOREM ErrorAfterAllCalls == Spec => []ErrorMeansExhausted
<1>1. IInv => ErrorMeansExhausted
  BY DEF IInv
<1> QED
  BY <1>1, Invariance, PTL

-----------------------------------------------------------------------------
(* The powers of two, and what becomes of a delay doubled again and again. *)
LEMMA PowerDoubles ==
  /\ PowerOfTwo[0] = 1
  /\ \A n \in Nat : PowerOfTwo[n] \in Nat \ {0} /\ PowerOfTwo[n + 1] = 2 * PowerOfTwo[n]
<1> DEFINE P == PowerOfTwo
           twice == [x \in Nat |-> 2 * x]
           Solution(f) == f = [n \in Nat |-> IF n = 0 THEN 1 ELSE 2 * f[n - 1]]
<1>1. PICK g : GoesOn(g, Nat, 1, twice)
  <2>1. twice \in [Nat -> Nat] /\ 1 \in Nat
    OBVIOUS
  <2> HIDE DEF twice
  <2> QED
    BY <2>1, NatRecursion
<1>2. Solution(g)
  <2>1. \A n \in Nat : g[n] = IF n = 0 THEN 1 ELSE 2 * g[n - 1]
    <3> SUFFICES ASSUME NEW n \in Nat, n # 0 PROVE g[n] = 2 * g[n - 1]
      BY <1>1 DEF GoesOn
    <3>1. n - 1 \in Nat /\ (n - 1) + 1 = n
      OBVIOUS
    <3>2. g[(n - 1) + 1] = twice[g[n - 1]]
      BY <1>1, <3>1 DEF GoesOn
    <3> QED
      BY <1>1, <3>1, <3>2 DEF GoesOn
  <2> HIDE DEF twice
  <2> QED
    BY <1>1, <2>1 DEF GoesOn
<1>3. P = CHOOSE f : Solution(f)
  BY DEF PowerOfTwo
<1>4. Solution(P)
  <2> HIDE DEF Solution, P
  <2> QED
    BY <1>2, <1>3
<1> HIDE DEF P
<1>5. P[0] = 1
  BY <1>4
<1>6. ASSUME NEW n \in Nat PROVE P[n + 1] = 2 * P[n]
  <2>1. n + 1 \in Nat /\ n + 1 # 0 /\ (n + 1) - 1 = n
    OBVIOUS
  <2> QED
    BY <1>4, <2>1
<1> DEFINE A == {n \in Nat : P[n] \in Nat \ {0}}
<1>7. 0 \in A /\ \A n \in Nat : n \in A => n + 1 \in A
  BY <1>5, <1>6
<1>8. \A n \in Nat : n \in A
  <2> HIDE DEF A
  <2> QED
    BY <1>7, SetInduction
<1> QED
  BY <1>5, <1>6, <1>8 DEF P

LEMMA DoubledGrows ==
  ASSUME NEW d \in Nat \ {0}
  PROVE  /\ d * PowerOfTwo[0] = d
         /\ \A n \in Nat : /\ d * PowerOfTwo[n] \in Nat \ {0}
                           /\ d * PowerOfTwo[n + 1] = 2 * (d * PowerOfTwo[n])
         /\ \A m, n \in Nat : m <= n => d * PowerOfTwo[m] <= d * PowerOfTwo[n]
<1> DEFINE E(n) == d * PowerOfTwo[n]
<1>1. E(0) = d
  BY PowerDoubles
<1>2. ASSUME NEW n \in Nat PROVE E(n) \in Nat \ {0} /\ E(n + 1) = 2 * E(n)
  <2> DEFINE p == PowerOfTwo[n]
  <2>1. p \in Nat \ {0} /\ PowerOfTwo[n + 1] = 2 * p
    BY PowerDoubles
  <2> HIDE DEF p
  <2>2. d * p \in Nat \ {0} /\ d * (2 * p) = 2 * (d * p)
    BY <2>1
  <2> QED
    BY <2>1, <2>2 DEF p
<1> HIDE DEF E
<1>3. ASSUME NEW m \in Nat PROVE \A n \in Nat : m <= n => E(m) <= E(n)
  <2> DEFINE A == {n \in Nat : m <= n => E(m) <= E(n)}
  <2>1. 0 \in A
    BY <1>2
  <2>2. \A n \in Nat : n \in A => n + 1 \in A
    <3> SUFFICES ASSUME NEW n \in Nat, n \in A, m <= n + 1 PROVE E(m) <= E(n + 1)
      OBVIOUS
    <3>1. CASE m = n + 1
      BY <1>2, <3>1
    <3>2. CASE m # n + 1
      <4>1. E(m) <= E(n) /\ E(n) \in Nat /\ E(m) \in Nat /\ E(n + 1) = 2 * E(n)
        BY <1>2, <3>2
      <4> QED
        BY <4>1
    <3> QED
      BY <3>1, <3>2
  <2> HIDE DEF A
  <2>3. Nat \subseteq A
    BY <2>1, <2>2, SetInduction
  <2> QED
    BY <2>3 DEF A
<1> QED
  BY <1>1, <1>2, <1>3 DEF E

(* While Backoff doubles, the delay is still the exponential one; it is    *)
(* below the maximum from the first doubling on.                           *)
Exponential ==
  Sensible =>
    /\ pc = "double" => /\ doublings <= attempt
                        /\ delay = initial * PowerOfTwo[doublings]
                        /\ doublings = 0 \/ delay < maxDelay
    /\ CapExact

LEMMA ExponentialKept == IInv /\ Exponential /\ [Next]_vars => Exponential'
<1> SUFFICES ASSUME IInv, Exponential, [Next]_vars, Sensible' PROVE Exponential'
  BY DEF Exponential
<1>1. /\ initial \in Durations /\ maxDelay \in Durations /\ delay \in Durations
      /\ attempt \in Nat /\ doublings \in Nat
  BY DEF IInv, TypeOK
<1>2. UNCHANGED <<initial, maxDelay>>
  BY DEF Next, Loop, Call, Double, Jitter, Sleep, Returned, vars, params
<1>3. Sensible /\ 0 < initial /\ initial <= maxDelay
  BY <1>2 DEF Sensible
<1>4. initial \in Nat \ {0}
  BY <1>1, <1>3, SettingsAssumption DEF Durations
<1> DEFINE E(n) == initial * PowerOfTwo[n]
<1>5. /\ E(0) = initial
      /\ \A n \in Nat : E(n) \in Nat /\ E(n + 1) = 2 * E(n)
      /\ \A m, n \in Nat : m <= n => E(m) <= E(n)
  BY <1>4, DoubledGrows
<1>6. CASE Double
  <2>1. /\ pc = "double" /\ UNCHANGED attempt
        /\ doublings <= attempt /\ delay = E(doublings) /\ (doublings = 0 \/ delay < maxDelay)
    BY <1>3, <1>6 DEF Double, Exponential
  <2>2. CASE ~(doublings < attempt)
    <3>1. pc' = "jitter" /\ delay' = delay /\ doublings = attempt
      BY <1>1, <1>6, <2>1, <2>2 DEF Double
    <3>2. delay' = IF E(attempt) < maxDelay THEN E(attempt) ELSE maxDelay
      <4> HIDE DEF E
      <4>0. E(attempt) \in Nat /\ maxDelay \in Int /\ initial \in Int
        <5>1. E(attempt) \in Nat
          BY <1>1, <1>5
        <5>2. maxDelay \in Int /\ initial \in Int
          BY <1>1, SettingsAssumption DEF Durations
        <5> QED
          BY <5>1, <5>2
      <4>1. delay' = E(attempt) /\ E(attempt) <= maxDelay
        <5>1. delay = E(attempt) /\ (attempt = 0 \/ delay < maxDelay)
          BY <2>1, <3>1
        <5>2. CASE attempt = 0
          BY <1>3, <1>5, <3>1, <5>1, <5>2
        <5>3. CASE delay < maxDelay
          BY <3>1, <4>0, <5>1, <5>3
        <5> QED
          BY <5>1, <5>2, <5>3
      <4> QED
        BY <4>0, <4>1
    <3> QED
      BY <1>2, <2>1, <3>1, <3>2 DEF Exponential, CapExact
  <2>3. CASE doublings < attempt
    <3> DEFINE twice == Wrapped(2 * delay)
    <3>1. IF ReachesCap(twice)
          THEN delay' = maxDelay /\ pc' = "jitter" /\ doublings' = doublings
          ELSE delay' = twice /\ doublings' = doublings + 1 /\ pc' = "double"
      BY <1>6, <2>1, <2>3 DEF Double
    <3>2. 2 * delay = E(doublings + 1) /\ E(doublings + 1) <= E(attempt)
      <4> HIDE DEF E
      <4> QED
        BY <1>1, <1>5, <2>1, <2>3
    <3>3. CASE ReachesCap(twice)
      <4>1. maxDelay <= 2 * delay
        <5>1. CASE 2 * delay < HalfRange
          <6>1. twice = 2 * delay /\ 2 * delay > 0
            <7> HIDE DEF E
            <7>1. delay \in Nat /\ delay > 0
              BY <1>1, <1>3, <1>5, <2>1, SettingsAssumption DEF Durations
            <7>2. 2 * delay \in Durations
              BY <7>1, <5>1, SettingsAssumption DEF Durations
            <7> QED
              BY <7>1, <7>2, WrappedKeeps
          <6> QED
            BY <1>1, <3>3, <6>1, SettingsAssumption DEF ReachesCap, Durations
        <5>2. CASE ~(2 * delay < HalfRange)
          BY <1>1, <5>2, SettingsAssumption DEF Durations
        <5> QED
          BY <5>1, <5>2
      <4>2. delay' = IF E(attempt) < maxDelay THEN E(attempt) ELSE maxDelay
        <5> HIDE DEF E
        <5>1. ~(E(attempt) < maxDelay)
          BY <1>1, <1>5, <3>2, <4>1, SettingsAssumption DEF Durations
        <5> QED
          BY <3>1, <3>3, <5>1
      <4> QED
        BY <1>2, <2>1, <3>1, <3>3, <4>2 DEF Exponential, CapExact
    <3>4. CASE ~ReachesCap(twice)
      <4>1. twice = 2 * delay
        <5>1. delay \in Nat
          <6> HIDE DEF E
          <6> QED
            BY <1>1, <1>5, <2>1
        <5>2. CASE 2 * delay < HalfRange
          <6>1. 2 * delay \in Durations
            BY <5>1, <5>2, SettingsAssumption DEF Durations
          <6> QED
            BY <6>1, WrappedKeeps
        <5>3. CASE ~(2 * delay < HalfRange)
          <6>1. 2 * delay \in HalfRange .. 2 * HalfRange - 1
            BY <1>1, <5>1, <5>3, SettingsAssumption DEF Durations
          <6>2. twice < 0
            BY <6>1, WrappedOverflows
          <6>3. twice \in Int
            BY <5>1, WrappedIsDuration, SettingsAssumption DEF Durations
          <6> QED
            BY <3>4, <6>2, <6>3 DEF ReachesCap
        <5> QED
          BY <5>2, <5>3
      <4>2. delay' = E(doublings + 1) /\ doublings' = doublings + 1 /\ doublings' <= attempt'
        BY <1>1, <2>1, <2>3, <3>1, <3>2, <3>4, <4>1
      <4>3. delay' < maxDelay'
        <5>1. twice \in Int
          BY <1>1, WrappedIsDuration, SettingsAssumption DEF Durations
        <5> HIDE DEF twice
        <5> QED
          BY <1>1, <1>2, <3>1, <3>4, <5>1, SettingsAssumption DEF ReachesCap, Durations
      <4> QED
        BY <1>2, <3>1, <3>4, <4>2, <4>3 DEF Exponential, CapExact
    <3> QED
      BY <3>3, <3>4
  <2> QED
    BY <2>2, <2>3
<1>7. CASE Call
  <2>1. /\ doublings' = 0 /\ pc' # "jitter"
        /\ pc' = "double" => delay' = initial
    BY <1>7 DEF Call
  <2>2. attempt' \in Nat
    BY <1>1, <1>7 DEF Call
  <2> HIDE DEF E
  <2>3. delay' = E(0) \/ pc' # "double"
    BY <1>5, <2>1
  <2> QED
    BY <1>2, <2>1, <2>2, <2>3 DEF Exponential, CapExact, E
<1>8. CASE Loop \/ Jitter \/ Sleep
  <2>1. pc' \notin {"double", "jitter"}
    BY <1>8 DEF Loop, Jitter, Sleep
  <2> QED
    BY <2>1 DEF Exponential, CapExact
<1>9. CASE Returned \/ UNCHANGED vars
  BY <1>3, <1>9 DEF Returned, vars, params, Exponential, CapExact
<1> QED
  BY <1>6, <1>7, <1>8, <1>9 DEF Next

(* For every width of a duration, every attempt and all sensible settings  *)
(* the cap is the exponential delay cut at the maximum (Backoff).          *)
THEOREM CapIsExact == Spec => []CapExact
<1>1. Init => Exponential
  BY DEF Init, Exponential, CapExact
<1>2. Exponential => CapExact
  BY DEF Exponential, CapExact
<1> QED
  BY <1>1, <1>2, ExponentialKept, InitEstablishes, Invariance, PTL DEF Spec

=============================================================================
