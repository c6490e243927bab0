CONSTANT Attempts = 3
SPECIFICATION Spec
INVARIANTS TypeOK AlarmEscalates TeamAgrees SafeDefaultEarned
PROPERTY ReplyComes
CHECK_DEADLOCK FALSE
