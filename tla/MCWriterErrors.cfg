SPECIFICATION Spec
CONSTANTS
    Requests = {r1}
    RequestsInPlay <- TwoKeys
    MaxStarts = 1
CHECK_DEADLOCK FALSE
INVARIANT ErrorsAreProblems
