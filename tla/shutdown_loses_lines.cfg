CONSTANTS
  NumLines = 2
  Unwanted <- NoLines
  Sampled <- NoLines
  MaxBufferSize = 2
  Disk = FALSE
  DiskLimit = 0
  DiskFaults = FALSE
  Tailing = TRUE
  BreakerEnabled = FALSE
  Threshold = 1
  Signals = TRUE
  Crashes = FALSE
  MaxFaults = 0
  MaxRestarts = 0
SPECIFICATION Spec
INVARIANT GracefulExitKeeps
