CONSTANTS
  NumLines = 3
  Bytes <- LineSizes
  MaxSegmentBytes = 8
  MaxBytes = 0
  Overlong <- Second
  Failing <- Nothing
  MaxFaults = 0
  MaxRestarts = 0
SPECIFICATION FairSpec
PROPERTY Drains
