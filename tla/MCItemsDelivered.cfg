SPECIFICATION PartSpec
CONSTANTS
    invoice = invoice
    consent = consent
    extra = extra
    a1 = a1
    a2 = a2
    a3 = a3
    a4 = a4
    x1 = x1
    Items = {invoice}
    Confirms = {}
    Extras = {}
    Docs = {a1, a3}
    ItemOf <- MCItemOf
    Checksum <- MCChecksum
    Threads = {t1}
    NoItem = NoItem
    NoDoc = NoDoc
    MaxFiles = 2
    MaxExtra = 0
    MaxCrashes = 0
    KeyDocs = {a1, a3}
    MaxKeys = 1
    MaxNames = 1
    MaxSetups = 0
INVARIANTS
    DeliveredHasCurrentFile
