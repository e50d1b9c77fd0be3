\* Three goroutines call flush: the reader, the flush loop and the signal handler.
CONSTANTS
  Callers = {main, loop, sig}
  Threshold = 2
  Cooldown = 2
  MaxTime = 6
SYMMETRY Symmetry
SPECIFICATION Spec
INVARIANTS
  TypeOK
  StateMatchesStreak
  HalfOpenHasCooled
PROPERTIES
  FailedProbeReopens
  ImplementsBreaker
