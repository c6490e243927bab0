CONSTANTS
  N = 5
  Concurrency = 2
  MaxRetries = 1
  Threshold = 2
SPECIFICATION Spec
INVARIANTS
  TypeOK
  SlotsConserved
  BreakerExact
PROPERTIES
  OpenBreakerDrains
  CallEnds
CHECK_DEADLOCK FALSE
