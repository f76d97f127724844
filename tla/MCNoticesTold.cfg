SPECIFICATION Spec
CONSTANTS
    Files = {n1, n2}
    Answers = {}
    Recipients = {}
    Workers = {w1}
    Quiet = 1
    MaxDelay = 2
    MaxTime = 4
    MaxCrashes = 0
INVARIANTS
    KompletToldEverything
CHECK_DEADLOCK FALSE
