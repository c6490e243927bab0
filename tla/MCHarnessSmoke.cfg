CONSTANTS
  Sessions = {"own", "dev"}
  Scenarios = {"w1", "w2"}
  Tools = {"crm_search"}
  Recorded <- MCRecorded
  TaskRuns <- MCTaskRuns
  Probes <- MCProbes
  MaxRetries = 1
  BreakerRate = 80
  OtherKeys <- MCOtherKeys
  MaxCalls = 2
  One = 1000
  TierScores <- MCTierScores
  Dates = {}
  Dotted <- MCDotted
SPECIFICATION Spec
INVARIANT SmokeReplayed
CHECK_DEADLOCK FALSE
