SPECIFICATION PartSpec
CONSTANTS
    Customers = {c1}
    Subs = {1}
    Ranks = {1, 2}
    Workers = {w1}
    NoOne = NoOne
    MaxEvents = 1
    Payments = {p1}
    NoPayment = NoPayment
    MaxAttempts = 2
    MaxFaults = 2
    Subscriptions = {s1, s2}
    Worth <- MCWorth
    Payouts <- MCPayouts
    MaxCredit = 2
    MaxRefundFaults = 2
SYMMETRY Symmetry
INVARIANTS
    RefundOrReport
CHECK_DEADLOCK FALSE
