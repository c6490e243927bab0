CONSTANTS
  Calls = {c1, c2, c3}
  MaxRetries = 3
  Slots = 2
  Capacity = 3
  Cost = 2
SPECIFICATION Spec
INVARIANTS
  TypeOK
  SlotsConserved
  AttemptsPaid
  FailedMeansBudgetSpent
PROPERTIES
  NoResurrection
  EveryCallEnds
