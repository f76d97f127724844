SPECIFICATION PartSpec
CONSTANTS
    invoice = invoice
    consent = consent
    extra = extra
    a1 = a1
    a2 = a2
    a3 = a3
    a4 = a4
    x1 = x1
    Items = {invoice, consent, extra}
    Confirms = {consent}
    Extras = {extra}
    Docs = {a1, a2, a3, a4, x1}
    ItemOf <- MCItemOf
    Checksum <- MCChecksum
    Threads = {t1, t2}
    NoItem = NoItem
    NoDoc = NoDoc
    MaxFiles = 2
    MaxExtra = 1
    MaxCrashes = 1
    KeyDocs = {a1, a3}
    MaxKeys = 3
    MaxNames = 2
    MaxSetups = 1
SYMMETRY Symmetry
INVARIANTS
    AcceptedIsReviewed
    CompleteEmailNotForgotten
    CompleteEmailsBounded
    FilesWithinLimit
    AloneFilesMatch
    KeysHold
CHECK_DEADLOCK FALSE
