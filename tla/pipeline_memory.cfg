\* An input that ends, with the memory buffer and a breaker: saves fail, and a
\* signal may arrive before main gets there or while it reads.
CONSTANTS
  NumLines = 4
  Unwanted <- First
  Sampled <- Second
  MaxBufferSize = 2
  Disk = FALSE
  DiskLimit = 0
  DiskFaults = FALSE
  Tailing = FALSE
  BreakerEnabled = TRUE
  Threshold = 2
  Signals = TRUE
  Crashes = FALSE
  MaxFaults = 3
  MaxRestarts = 0
SPECIFICATION FairSpec
INVARIANTS
  TypeOK
  NoDropWhileHealthy
  OnceDrains
PROPERTIES
  ImplementsBreaker
  DropsNeedOverflow
  Terminates
