SPECIFICATION PartSpec
CONSTANTS
    Requests = {r1, r2}
    Workers = {w1, w2}
    NoRequest = NoRequest
    MaxEdits = 1
    MaxCrashes = 1
    Questions = {q1, q2, q3}
    NoQuestion = NoQuestion
    OpenPlaces = 1
    RequestsFree = TRUE
    MaxMessages = 2
    Readers = {"Anna", "Ewa"}
    Addresses = {"Anna", "Ewa"}
    Reads <- OwnMailbox
    Files = {f1}
    NoAddress = NoAddress
    NoFile = NoFile
    Nobody = Nobody
SYMMETRY Symmetry
INVARIANTS
    InvitedOnce
    NoInvitationLost
    AskedWithinPlaces
    StateFollowsThread
PROPERTIES
    ProvedBeforeInvited
    WithdrawnNotInvited
    FilesForTheirReader
CHECK_DEADLOCK FALSE
