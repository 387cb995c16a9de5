SPECIFICATION Spec
CONSTANTS
    MaxTime = 2
    MaxAttempts = 2
    Calls = {1, 2}
    Script <- Scripts
    Submitted <- Late
    Foreign <- Strangers
CHECK_DEADLOCK FALSE
INVARIANT AcceptedIsAlive
