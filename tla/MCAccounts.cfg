SPECIFICATION PartSpec
CONSTANTS
    l1 = l1
    l2 = l2
    l3 = l3
    m1 = m1
    m2 = m2
    Members = {m1, m2}
    Letters = {l1, l2, l3}
    Processes = {p1, p2}
    NoLetter = NoLetter
    To <- MCTo
    Plans = {1, 2, 3}
    MaxPlans = 2
    Addresses = {a1, a2}
    Workers = {w1, w2}
    MaxLinks = 3
    MaxKilled = 1
    Browsers = {b1, b2}
    Failures = 1
    EmailTtl = 2
    ResendAfter = 1
    PendingAge = 2
    BackupCodes = 1
    MaxTime = 3
    MaxMails = 3
    MaxTries = 4
    MaxSetups = 3
    Docs = {d1, d2, d3}
    MaxCrashes = 1
    Persons = {"Anna", "Ewa"}
    Users = {"u1", "u2"}
    GoogleIds = {"anna", "ewa", "ewa2"}
    Mailboxes = {"first", "second"}
    AddressAt <- MCAddressAt
    KeptByGoogle = {"ewa2"}
    Holds <- MCHolds
    Reading <- MCReading
    Knowing <- MCKnowing
    Nobody = "nobody"
    NoGoogleId = "none"
    NoProof = "none"
    ByPassword = "password"
    MaxTrips = 2
SYMMETRY Symmetry
INVARIANTS
    SeatsNotOversold
    VerifiedIsProved
    WayIn
    CodesHold
    FilesKeepStep
PROPERTIES
    OpensForItsOwner
CHECK_DEADLOCK FALSE
