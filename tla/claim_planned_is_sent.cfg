SPECIFICATION Spec
CONSTANTS
    Operations = {o1, o2}
    Refused = {}
    Unsendable = {o2}
    MaxAttempts = 2
    NetworkMayFail = FALSE
INVARIANT GivenUpWasSent
CHECK_DEADLOCK FALSE
