SPECIFICATION PartSpec
CONSTANTS
    Customers = {c1, c2}
    Subs = {1, 2}
    Ranks = {1, 2}
    Workers = {w1, w2}
    NoOne = NoOne
    MaxEvents = 3
    Payments = {p1}
    NoPayment = NoPayment
    MaxAttempts = 2
    MaxFaults = 2
    Subscriptions = {s1, s2}
    Worth <- MCWorth
    Payouts <- MCPayouts
    MaxCredit = 2
    MaxRefundFaults = 2
SYMMETRY Symmetry
INVARIANTS
    AccountFollowsStripe
    NobodyPaysForNothing
    OneInvoicePerPayment
    DeletedNotCharged
    MoneyIsReturned
PROPERTIES
    KeepsPromise
CHECK_DEADLOCK FALSE
