CONSTANTS
  Batches <- MCBatches
  Statuses <- MCStatuses
  Rejected <- MCRejected
  Poison <- MCPoison
  MaxRounds = 3
  MaxToolCalls = 3
  MaxToolRetries = 1
SPECIFICATION Spec
INVARIANTS
  TypeOK
  StepsFollowPlan
  ToolOrder
  CompletedIsWhole
  LoopAnswersAreHonest
  EffectsBounded
PROPERTIES
  AnsweredIsSilent
  LoopEnds
CHECK_DEADLOCK FALSE
