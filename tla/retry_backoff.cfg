\* Every combination of small, large, zero and negative settings.
CONSTANTS
  HalfRange = 32
  RetryMaxs <- Counts
  InitialSecs <- Seconds
  MaxSecs <- Seconds
  DefaultRetries = 3
  DefaultInitial = 1
  DefaultMax = 30
SPECIFICATION Spec
INVARIANTS
  CapExact
  DelayBetween
  ErrorMeansExhausted
