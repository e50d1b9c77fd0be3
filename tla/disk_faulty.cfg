\* Every file operation may fail; a quota and an overlong line.
CONSTANTS
  NumLines = 5
  Bytes <- LineSizes
  MaxSegmentBytes = 4
  MaxBytes = 8
  Overlong <- Second
  Failing <- FileOperations
  MaxFaults = 3
  MaxRestarts = 2
SPECIFICATION Spec
INVARIANTS
  SizeTracked
  LenTracked
  WithinLimit
  RefusedStayOut
  DamageBounded
