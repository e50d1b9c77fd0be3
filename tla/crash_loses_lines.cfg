CONSTANTS
  NumLines = 2
  Unwanted <- NoLines
  Sampled <- NoLines
  MaxBufferSize = 2
  Disk = TRUE
  DiskLimit = 0
  DiskFaults = FALSE
  Tailing = TRUE
  BreakerEnabled = FALSE
  Threshold = 1
  Signals = FALSE
  Crashes = TRUE
  MaxFaults = 0
  MaxRestarts = 1
SPECIFICATION Spec
INVARIANT AtLeastOnce
