\* Tailing with a nearly full disk buffer: file operations and saves fail, the
\* process is killed or told to stop, and started again.
CONSTANTS
  NumLines = 3
  Unwanted <- First
  Sampled <- NoLines
  MaxBufferSize = 2
  Disk = TRUE
  DiskLimit = 2
  DiskFaults = TRUE
  Tailing = TRUE
  BreakerEnabled = TRUE
  Threshold = 1
  Signals = TRUE
  Crashes = TRUE
  MaxFaults = 3
  MaxRestarts = 2
SPECIFICATION FairSpec
INVARIANTS
  Accounted
  OnePlace
  LossCounted
PROPERTIES
  Settles
