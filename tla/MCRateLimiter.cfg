CONSTANTS
  Callers = {c1, c2, c3}
  NoCaller = NoCaller
  Capacity = 5
  Cost = 2
  Late = 1
  MaxTime = 7
SPECIFICATION Spec
SYMMETRY Symmetry
INVARIANTS
  TypeOK
  WindowBound
  SingleSleep
  BoundedWait
PROPERTIES
  RefinesBucket
CHECK_DEADLOCK FALSE
