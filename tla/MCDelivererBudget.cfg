SPECIFICATION Spec
CONSTANTS
    Workers = {w1, w2}
    Messages = {m1}
    KindsInPlay = {"pushable"}
    PermanentReasons = {"provider-auth-failed"}
    MaxAttempts = 2
    DecryptFailure = "receive error"
    MaxStarts = 2
    MaxRedeliveries = 1
    NoMessage = NoMessage
SYMMETRY Symmetry
CHECK_DEADLOCK FALSE
INVARIANT ExhaustedMeansBudgetSpent
