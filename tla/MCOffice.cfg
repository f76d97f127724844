SPECIFICATION PartSpec
CONSTANTS
    Requests = {r1, r2, r3}
    Workers = {w1, w2}
    Limits = {1, 2}
    NoWorker = NoWorker
    Spellings = {a1, a2}
    MailboxOf <- OneMailbox
    ClientRequests = {q1}
    Imports = {d1}
    Pages = {p1, p2}
    Owners = {p1}
    NoRow = NoRow
    Never = Never
    ToDoLength = 2
    MonthSegments = 6
    HistoryMonths = 6
    Documents = {"terms", "dpa"}
    Customers = {"Anna"}
    Senders = {"command", "hourly"}
    MaxDay = 3
    MaxTexts = 3
    LinkDays = 0
    MaxDays = 1
    MaxLinks = 2
    MaxKilled = 1
SYMMETRY Symmetry
INVARIANTS
    PlanNotOversold
    OnePerAddress
    AcceptedBeforeBought
PROPERTIES
    PanelLinksHold
CHECK_DEADLOCK FALSE
