---------------------------- MODULE MCAccounts ----------------------------
(***************************************************************************)
(* Accounts for TLC: the links mailed about an account, its two-step       *)
(* verification, signing in with Google, the seats of its team and the     *)
(* files kept for it.  They run side by side, not as a product: the first  *)
(* state says which moves.                                                 *)
(* Workers, addresses, browsers and documents are interchangeable.         *)
(***************************************************************************)
EXTENDS TeamSeats, TLC

CONSTANTS l1, l2, l3, m1, m2,
          Addresses, Workers, MaxLinks, MaxKilled,
          Browsers, Failures, EmailTtl, ResendAfter, PendingAge, BackupCodes,
          MaxTime, MaxMails, MaxTries, MaxSetups,
          Docs, MaxCrashes,
          Persons, Users, GoogleIds, Mailboxes, AddressAt, KeptByGoogle,
          Holds, Reading, Knowing, Nobody, NoGoogleId, NoProof, ByPassword, MaxTrips

VARIABLES
    part,
    acct, links, worker, taken, killed, proved, odd,
    now, password, twofactor, browser, fails, mails, setups, tries, used, reused,
    request, row, disk, old, job, crashes, lost,
    users, session, answers, posted, page, trips

\* The first two invitations are for different people, the third replaces one.
MCTo == (l1 :> m1) @@ (l2 :> m2) @@ (l3 :> m1)

A == INSTANCE Accounts WITH MaxCrashes <- MaxKilled, crashes <- killed
T == INSTANCE SignIn WITH row <- twofactor
S == INSTANCE Storage WITH worker <- job

G == INSTANCE GoogleSignIn WITH Browsers <- Persons, Accounts <- Users,
        Subjects <- GoogleIds, AddressOf <- AddressAt, Kept <- KeptByGoogle,
        Has <- Holds, Reads <- Reading, Knows <- Knowing, acct <- users, mails <- posted,
        NoAccount <- Nobody, NoSubject <- NoGoogleId, Password <- ByPassword

\* Anna reads no mailbox and holds a Google account for the first address, as
\* Ewa does, for whom Google keeps it; Ewa has another for her own.
MCAddressAt == [anna |-> "first", ewa |-> "second", ewa2 |-> "first"]
MCHolds == [Anna |-> {"anna"}, Ewa |-> {"ewa", "ewa2"}]
MCReading == [Anna |-> {}, Ewa |-> {"first", "second"}]
MCKnowing == [Anna |-> {"u1"}, Ewa |-> {"u2"}]

ASSUME TeamAssumption /\ G!GoogleAssumption /\ T!SignInAssumption

accountVars == <<acct, links, worker, taken, killed, proved, odd>>
signInVars == <<now, password, twofactor, browser, fails, mails, setups, tries,
                used, reused>>
fileVars == <<request, row, disk, old, job, crashes, lost>>
googleVars == <<users, session, answers, posted, page, trips>>

PartInit ==
    /\ part \in {"team", "account", "signin", "files", "google"}
    /\ Init /\ A!Init /\ T!Init /\ S!Init /\ G!Init
    /\ part # "google" => G!Rows = {}
    /\ part # "team" => seats = CHOOSE n \in Plans : TRUE
    /\ hand[CHOOSE p \in Processes : TRUE].who = m1
    /\ part # "account" => acct.email = CHOOSE e \in Addresses : TRUE

PartNext ==
    /\ UNCHANGED part
    /\ \/ /\ part = "team" /\ Next
          /\ UNCHANGED <<accountVars, signInVars, fileVars, googleVars>>
       \/ /\ part = "account" /\ A!Next
          /\ UNCHANGED <<vars, signInVars, fileVars, googleVars>>
       \/ /\ part = "signin" /\ T!Next
          /\ UNCHANGED <<vars, accountVars, fileVars, googleVars>>
       \/ /\ part = "files" /\ S!Next
          /\ UNCHANGED <<vars, accountVars, signInVars, googleVars>>
       \/ /\ part = "google" /\ G!Next
          /\ UNCHANGED <<vars, accountVars, signInVars, fileVars>>

PartSpec ==
    PartInit /\ [][PartNext]_<<part, vars, accountVars, signInVars, fileVars, googleVars>>

Symmetry == Permutations(Workers) \cup Permutations(Addresses)
            \cup Permutations(Browsers)

-----------------------------------------------------------------------------
(* A confirmed address is its owner's; see Accounts.                        *)
VerifiedIsProved == A!VerifiedIsProved

(* An account keeps a way in, and its link only as long as it has no        *)
(* other; see Accounts.                                                     *)
WayIn == A!WayIn /\ A!RegularHasNoLink

(* A code lets somebody through once, wrong ones are limited; see SignIn.   *)
CodesHold == T!CodesHold

(* Rows and files keep step; see Storage.                                   *)
FilesKeepStep == S!FilesKeepStep

(* Google lets in its owner only; see GoogleSignIn.                         *)
OpensForItsOwner == G!OpensForItsOwner
=============================================================================
