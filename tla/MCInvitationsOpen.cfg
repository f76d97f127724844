SPECIFICATION Spec
CONSTANTS
    Requests = {r1}
    Workers = {w1, w2}
    NoRequest = NoRequest
    MaxEdits = 1
    MaxCrashes = 0
INVARIANT
    OpenIsInvited
CHECK_DEADLOCK FALSE
