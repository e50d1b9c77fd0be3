-------------------------- MODULE MCCircuitBreaker --------------------------
(* The circuit breaker with interchangeable callers.                       *)
EXTENDS CircuitBreaker, TLC

Symmetry == Permutations(Callers)

=============================================================================
