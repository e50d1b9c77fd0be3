------------------------------ MODULE MCRetry ------------------------------
(* Retries with durations of six bits, so that doubling overflows.         *)
EXTENDS Retry

Counts == -1 .. 6
Seconds == {-32, -1, 0, 1, 2, 3, 7, 20, 31}

============================================================================
