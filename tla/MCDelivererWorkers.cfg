SPECIFICATION FairSpec
CONSTANTS
    Workers = {w1, w2}
    Messages = {m1}
    KindsInPlay = {"pushable"}
    PermanentReasons = {"provider-rejected-recipient"}
    MaxAttempts = 2
    DecryptFailure = "policy violation"
    MaxStarts = 2
    MaxRedeliveries = 0
    NoMessage = NoMessage
CHECK_DEADLOCK FALSE
PROPERTY DecidedWhileUp
