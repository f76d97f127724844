SPECIFICATION PartSpec
CONSTANTS
    Requests = {r1}
    Workers = {w1, w2}
    NoRequest = NoRequest
    MaxEdits = 0
    MaxCrashes = 2
    f = f
    k = k
    NoItem = NoItem
    NoDoc = NoDoc
    NewsFiles = {n1, n2}
    Answers = {}
    QuietTime = 1
    MaxDelay = 2
    MaxTime = 4
    Payments = {p1}
    NoPayment = NoPayment
    MaxAttempts = 2
    MaxFaults = 2
    Documents = {d1, d2}
PROPERTIES
    QueueIsWorkedOff
    CompleteEmailTried
    NewsIsWorkedOff
    PaidIsSettled
    ExpiredIsErased
CHECK_DEADLOCK FALSE
