SPECIFICATION PartSpec
CONSTANTS
    Timings <- MCTimings
    Years <- MCYears
    FirstDay <- MCFirst
    LastDay <- MCLast
    MaxEdits = 2
    Workers = {w1, w2}
    Senders = {p1}
    Schedules <- MCSchedules
    MaxTime = 12
    MaxChanges = 1
    MaxManual = 1
    MaxCrashes = 1
    Files = {n1}
    Answers = {n2}
    Recipients = {c1}
    Quiet = 1
    MaxDelay = 2
    NewsTime = 3
    Notes = {call}
    Accounts = {own, firm}
    Own = own
    Offsets <- MCOffsets
    FirstMorning <- MCFirstMorning
    LastMorning <- MCLastMorning
    MaxMoves = 1
    MaxSwitches = 1
    People = {anna, jan}
    MaxDay = 7
    Keys = {signin, canary}
    WatchTime = 15
    AlarmTime = 6
    MaxByHand = 1
    NoValue = NoValue
SYMMETRY Symmetry
INVARIANTS
    CalendarIsKept
    PlanComesTrue
    OneReminderADay
    NothingUntold
    NothingToldTwice
PROPERTIES
    OncePerPeriod
CHECK_DEADLOCK FALSE
