CONSTANTS
  Batches <- MCBatches
  Statuses <- MCStatuses
  Rejected <- MCRejected
  Poison = {}
  MaxRounds = 3
  MaxToolCalls = 3
  MaxToolRetries = 1
SPECIFICATION Spec
INVARIANTS
  StatusFromTrace
CHECK_DEADLOCK FALSE
