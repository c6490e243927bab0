CONSTANT Attempts = 3
SPECIFICATION Spec
INVARIANT SafeDefaultMeansBlocked
CHECK_DEADLOCK FALSE
