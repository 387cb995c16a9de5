SPECIFICATION Spec
CONSTANTS
    MaxTime = 2
    MaxAttempts = 2
    Calls = {1, 2}
    Script <- Scripts
    Submitted <- Submissions
    Foreign <- Strangers
CHECK_DEADLOCK FALSE
INVARIANTS TypeOK AcceptedCanBeSent ValidatesTheModel StillbornPushedOnlyByLag SandboxKeepsScript InTurn
PROPERTIES ImplementsPush
