------------------------------ MODULE Accounts ------------------------------
(***************************************************************************)
(* One account and the links mailed about it (apps/accounts/services.py,   *)
(* google_auth.py, team.py, apps/requests/guest.py).  Every address is the *)
(* mailbox of one person, who alone opens what is mailed there; anybody    *)
(* may type any address.  A handler reads its link, or the account, in one *)
(* statement and acts on it in later ones.                                 *)
(***************************************************************************)
EXTENDS Integers, Sequences

CONSTANTS
    Addresses,
    Workers,
    MaxLinks,   \* bound: links mailed
    MaxCrashes  \* bound: workers killed

VARIABLES
    acct,     \* the User row, its GuestAccess and its GoogleAccount
    links,    \* the links mailed: tokens, confirmations, invitations
    worker,   \* the request each web worker is at
    taken,    \* addresses of other accounts
    crashes,
    proved,   \* history: addresses whose owner showed the mailbox is theirs
    odd       \* history: what the properties except

vars == <<acct, links, worker, taken, crashes, proved, odd>>

Kinds == {"verify", "reset", "password", "email", "guest", "google", "team"}

Idle == [pc |-> "idle", link |-> 0, first |-> FALSE, had |-> FALSE]

NoAccount(e) == [exists |-> FALSE, email |-> e, verified |-> FALSE,
                 pass |-> FALSE, guest |-> FALSE, google |-> FALSE]

Init ==
    /\ acct \in {NoAccount(e) : e \in Addresses}
    /\ links = <<>>
    /\ worker = [w \in Workers |-> Idle]
    /\ taken = {}
    /\ crashes = 0
    /\ proved = {}
    /\ odd = {}

\* A link goes to a mailbox; an email change names the new address.
Mail(kind, to) ==
    /\ Len(links) < MaxLinks
    /\ links' = Append(links, [kind |-> kind, to |-> to, used |-> FALSE])

\* A link used up, and with it every other of its kind.
UseUp(kind) ==
    links' = [i \in DOMAIN links |->
                IF links[i].kind = kind THEN [links[i] EXCEPT !.used = TRUE] ELSE links[i]]

UseOne(i) == links' = [links EXCEPT ![i].used = TRUE]

Busy == \E w \in Workers : worker[w] # Idle

\* Two requests at work on the account at once are noted.
NoteOverlap == odd' = IF Busy THEN odd \cup {"overlap"} ELSE odd

-----------------------------------------------------------------------------
(* An account begins *)

\* register, and the verification link at once.
Register(e) ==
    /\ links = <<>>
    /\ ~acct.exists
    /\ e \notin taken
    /\ acct' = [NoAccount(e) EXCEPT !.exists = TRUE, !.pass = TRUE]
    /\ Mail("verify", e)
    /\ UNCHANGED <<worker, taken, crashes, proved, odd>>

\* GuestRequestService.submit: a new address gets a passwordless account.
GuestSubmit(e) ==
    /\ \/ links = <<>> /\ e \notin taken /\ ~acct.exists
       \/ acct.exists /\ acct.email = e
    /\ acct' = IF acct.exists THEN acct
               ELSE [NoAccount(e) EXCEPT !.exists = TRUE, !.guest = TRUE]
    /\ Mail("guest", e)
    /\ UNCHANGED <<worker, taken, crashes, proved, odd>>

\* complete_signup with an address Google vouches for: _create_account.
GoogleSignup(e) ==
    /\ links = <<>>
    /\ ~acct.exists
    /\ e \notin taken
    /\ acct' = [NoAccount(e) EXCEPT !.exists = TRUE, !.verified = TRUE, !.google = TRUE]
    /\ proved' = proved \cup {e}
    /\ UNCHANGED <<links, worker, taken, crashes, odd>>

\* Somebody else's account takes an address.
Taken(e) ==
    /\ ~(acct.exists /\ acct.email = e)
    /\ taken' = taken \cup {e}
    /\ UNCHANGED <<acct, links, worker, crashes, proved, odd>>

-----------------------------------------------------------------------------
(* Links asked for *)

\* VerificationService.resend.
Resend ==
    /\ acct.exists /\ ~acct.verified
    /\ Mail("verify", acct.email)
    /\ UNCHANGED <<acct, worker, taken, crashes, proved, odd>>

\* request_reset - and register again on an unconfirmed address.
RequestReset ==
    /\ acct.exists
    /\ Mail("reset", acct.email)
    /\ UNCHANGED <<acct, worker, taken, crashes, proved, odd>>

\* PasswordChangeService.request_change; GuestAccessService.request_password.
RequestPassword ==
    /\ acct.exists
    /\ Mail("password", acct.email)
    /\ UNCHANGED <<acct, worker, taken, crashes, proved, odd>>

\* Mutant of RequestEmail: the address changes before anybody proves it.
RequestEmailAtOnce(e) ==
    /\ acct.exists /\ acct.pass
    /\ e # acct.email /\ e \notin taken
    /\ acct' = [acct EXCEPT !.email = e]
    /\ Mail("email", e)
    /\ UNCHANGED <<worker, taken, crashes, proved, odd>>

\* EmailChangeService.request_change: the link goes to the new address.
RequestEmail(e) ==
    /\ acct.exists /\ acct.pass
    /\ e # acct.email /\ e \notin taken
    /\ Mail("email", e)
    /\ UNCHANGED <<acct, worker, taken, crashes, proved, odd>>

\* sign_in with an address Google does not keep: _send_confirmation.
AskGoogle ==
    /\ acct.exists /\ ~acct.google
    /\ Mail("google", acct.email)
    /\ UNCHANGED <<acct, worker, taken, crashes, proved, odd>>

\* team.invite by the owner of another account.
Invited(e) ==
    /\ Mail("team", e)
    /\ UNCHANGED <<acct, worker, taken, crashes, proved, odd>>

\* A link's time is up; an unconfirmed request is deleted.
Expire(i) ==
    /\ ~links[i].used
    /\ UseOne(i)
    /\ UNCHANGED <<acct, worker, taken, crashes, proved, odd>>

-----------------------------------------------------------------------------
(* Links opened *)

\* The first statement of a handler.
Start(w, r) ==
    /\ worker[w] = Idle
    /\ worker' = [worker EXCEPT ![w] = r]
    /\ NoteOverlap

End(w) == worker' = [worker EXCEPT ![w] = Idle]

\* The link is read and valid; its mailbox's owner pressed the button.
\* GuestRequestService.confirm, GoogleAuthService.confirm and join_as_new
\* read the account as well.
Open(w, i) ==
    LET kind == links[i].kind
        own  == acct.email = links[i].to
    IN
    /\ ~links[i].used
    /\ acct.exists
    /\ kind = "team" => own /\ ~acct.verified
    /\ kind = "google" => own
    /\ Start(w, [pc |-> kind, link |-> i, first |-> ~acct.verified, had |-> acct.pass])
    /\ proved' = proved \cup {links[i].to}
    /\ UNCHANGED <<acct, links, taken, crashes>>

At(w, pc) == worker[w].pc = pc /\ acct.exists

Verify(w) ==
    /\ At(w, "verify")
    /\ acct' = [acct EXCEPT !.verified = TRUE]
    /\ UseOne(worker[w].link)
    /\ End(w)
    /\ UNCHANGED <<taken, crashes, proved, odd>>

\* confirm_reset and confirm_change save the password first...
SavePassword(w) ==
    /\ At(w, "reset") \/ At(w, "password")
    /\ acct' = [acct EXCEPT !.pass = TRUE, !.verified = @ \/ At(w, "reset")]
    /\ worker' = [worker EXCEPT ![w].pc = "finish"]
    /\ UNCHANGED <<links, taken, crashes, proved, odd>>

\* ... then the panel's link goes, and the token and its like are used up.
FinishPassword(w) ==
    /\ At(w, "finish")
    /\ acct' = [acct EXCEPT !.guest = FALSE]
    /\ UseUp(links[worker[w].link].kind)
    /\ End(w)
    /\ UNCHANGED <<taken, crashes, proved, odd>>

\* EmailChangeService.confirm_change; the address may be taken meanwhile.
ChangeEmail(w) ==
    /\ At(w, "email")
    /\ LET new == links[worker[w].link].to IN
       IF new \in taken THEN UNCHANGED <<acct, links>>
       ELSE acct' = [acct EXCEPT !.email = new] /\ UseUp("email")
    /\ End(w)
    /\ UNCHANGED <<taken, crashes, proved, odd>>

\* Mutant of FirstProof: no panel link for a registered account.
FirstProofNoLink(a, had) ==
    [a EXCEPT !.verified = TRUE, !.pass = @ /\ ~had]

\* The first confirmation ends a password nobody proved.
FirstProof(a, had) ==
    [a EXCEPT !.verified = TRUE, !.pass = @ /\ ~had, !.guest = TRUE]

\* GuestRequestService.confirm; refused (no free place), nothing changes.
GuestConfirm(w) ==
    /\ At(w, "guest")
    /\ \/ /\ acct' = IF worker[w].first THEN FirstProof(acct, worker[w].had) ELSE acct
          /\ UseOne(worker[w].link)
       \/ UNCHANGED <<acct, links>>
    /\ End(w)
    /\ UNCHANGED <<taken, crashes, proved, odd>>

\* _link, under the row's lock.
Linked == [acct EXCEPT !.google = TRUE, !.guest = FALSE,
                       !.pass = @ /\ acct.verified, !.verified = TRUE]

\* GoogleAuthService.confirm: once, in the browser that asked.
GoogleConfirm(w) ==
    /\ At(w, "google")
    /\ acct' = IF acct.google THEN acct ELSE Linked
    /\ UseOne(worker[w].link)
    /\ End(w)
    /\ UNCHANGED <<taken, crashes, proved, odd>>

\* sign_in with an address Google vouches for.
GoogleSignIn ==
    /\ acct.exists /\ ~acct.google
    /\ acct' = Linked
    /\ proved' = proved \cup {acct.email}
    /\ NoteOverlap
    /\ UNCHANGED <<links, worker, taken, crashes>>

\* connect: signed in to the account, with any Google address.
GoogleConnect ==
    /\ acct.exists /\ ~acct.google
    /\ acct' = Linked
    /\ odd' = odd \cup (IF acct.verified THEN {} ELSE {"connected"})
                  \cup (IF Busy THEN {"overlap"} ELSE {})
    /\ UNCHANGED <<links, worker, taken, crashes, proved>>

\* disconnect: the account as the request read it has a password...
Disconnect(w) ==
    /\ acct.exists /\ acct.google /\ acct.pass
    /\ Start(w, [Idle EXCEPT !.pc = "disconnect"])
    /\ UNCHANGED <<acct, links, taken, crashes, proved>>

\* ... and the Google account's row is deleted.
Disconnected(w) ==
    /\ At(w, "disconnect")
    /\ acct' = [acct EXCEPT !.google = FALSE]
    /\ End(w)
    /\ UNCHANGED <<links, taken, crashes, proved, odd>>

\* join_as_new by somebody who never confirmed: the invitation does.
JoinAsNew(w) ==
    /\ At(w, "team")
    /\ acct' = [acct EXCEPT !.pass = TRUE, !.verified = TRUE]
    /\ UseOne(worker[w].link)
    /\ odd' = IF acct.guest THEN odd \cup {"joined"} ELSE odd
    /\ End(w)
    /\ UNCHANGED <<taken, crashes, proved>>

\* delete_unconfirmed: a passwordless account left without requests.
DeleteUnconfirmed ==
    /\ acct.exists /\ acct.guest /\ ~acct.verified
    /\ \A i \in DOMAIN links : links[i].kind = "guest" => links[i].used
    /\ acct' = NoAccount(acct.email)
    /\ NoteOverlap
    /\ UNCHANGED <<links, worker, taken, crashes, proved>>

\* A worker is killed; a handler whose account is gone fails.
Crash(w) ==
    /\ worker[w] # Idle
    /\ \/ ~acct.exists /\ crashes' = crashes
       \/ crashes < MaxCrashes /\ crashes' = crashes + 1
    /\ End(w)
    /\ UNCHANGED <<acct, links, taken, proved, odd>>

\* settings_view: what mails a link, and what needs none.
SettingsPage ==
    \/ RequestPassword
    \/ \E e \in Addresses : RequestEmail(e)
    \/ \E w \in Workers : Disconnect(w)

\* google_callback: sign_in, or connect from the settings.
GoogleCallback == AskGoogle \/ GoogleSignIn \/ GoogleConnect

\* The statements that follow a link's first.
Finish(w) ==
    \/ Verify(w) \/ SavePassword(w) \/ FinishPassword(w) \/ ChangeEmail(w)
    \/ GuestConfirm(w) \/ GoogleConfirm(w) \/ Disconnected(w) \/ JoinAsNew(w)

Next ==
    \/ Resend \/ RequestReset \/ SettingsPage \/ GoogleCallback \/ DeleteUnconfirmed
    \/ \E e \in Addresses :
        Register(e) \/ GuestSubmit(e) \/ GoogleSignup(e) \/ Taken(e) \/ Invited(e)
    \/ \E i \in DOMAIN links : Expire(i)
    \/ \E w \in Workers :
        \/ \E i \in DOMAIN links : Open(w, i)
        \/ Finish(w) \/ Crash(w)

Spec == Init /\ [][Next]_vars

-----------------------------------------------------------------------------
(* The variables keep their types.                                          *)
TypeOK ==
    /\ acct.email \in Addresses
    /\ \A f \in {"exists", "verified", "pass", "guest", "google"} : acct[f] \in BOOLEAN
    /\ \A i \in DOMAIN links :
        links[i].kind \in Kinds /\ links[i].to \in Addresses /\ links[i].used \in BOOLEAN
    /\ \A w \in Workers :
        worker[w].pc \in Kinds \cup {"idle", "finish", "disconnect"}
    /\ taken \subseteq Addresses /\ proved \subseteq Addresses
    /\ odd \subseteq {"overlap", "connected", "joined"}

(* A confirmed address is one whose owner showed it is theirs: "no email    *)
(* leaves Monituj from an address nobody has proved" (requests/services.py: *)
(* 188) - through every link and whatever changed meanwhile, but for an     *)
(* unconfirmed account connected to Google in its settings (google_auth.py: *)
(* 128-138 takes the mailbox for proved).                                   *)
VerifiedIsProved ==
    acct.exists /\ acct.verified /\ "connected" \notin odd => acct.email \in proved

(* An account always has a way in: a password, Google or the panel's link - *)
(* "bez niego nie moglbys sie zalogowac" (google_auth.py:370) - unless two  *)
(* requests changed it at once.                                             *)
WayIn ==
    acct.exists /\ ~Busy /\ "overlap" \notin odd => acct.pass \/ acct.google \/ acct.guest

\* Without a killed worker and requests at once.
Orderly == ~Busy /\ crashes = 0 /\ "overlap" \notin odd

(* "Setting a password turns it into a regular account and removes the      *)
(* link" (accounts/models.py:89-90), and so does Google, but for a password *)
(* set by joining a team.                                                   *)
RegularHasNoLink ==
    Orderly /\ "joined" \notin odd => ~(acct.guest /\ (acct.pass \/ acct.google))

=============================================================================
