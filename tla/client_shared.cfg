\* Three callers share the connection; it breaks, calls fail, Close comes in, the
\* driver refuses one of the batches, one has no entry, and max_retries may be -1.
CONSTANTS
  Callers = {main, loop, sig}
  RetryCounts <- Retries
  NumBatches = 4
  Vacant <- SecondBatch
  Misfits <- FirstBatch
  MaxFaults = 2
SPECIFICATION FairSpec
INVARIANTS
  ConnOwned
  SavedCommitted
  OneFaultOneAttempt
  DuplicatesNeedFaults
PROPERTIES
  SaveReturns
