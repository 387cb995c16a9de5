SPECIFICATION Spec
CONSTANTS
    Limit = 32
    Settings <- AllSettings
    MaxAttempts = 5
CHECK_DEADLOCK FALSE
INVARIANTS Schedule SleepBounded
