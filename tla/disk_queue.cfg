\* Rotation, a quota, failing file operations and two crashes.
CONSTANTS
  NumLines = 5
  Bytes <- LineSizes
  MaxSegmentBytes = 4
  MaxBytes = 8
  Overlong <- NoLines
  Failing <- Recoverable
  MaxFaults = 2
  MaxRestarts = 2
SPECIFICATION FairSpec
INVARIANTS
  TypeOK
PROPERTIES
  ImplementsQueue
  Drains
