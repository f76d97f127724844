--------------------------- MODULE RecipientPages ---------------------------
(***************************************************************************)
(* A request's public pages (apps/requests/public_views.py, received.py,   *)
(* recipient_files.py; apps/documents/api.py): who, holding the link, sees *)
(* the request, and whose files.  A link may be forwarded, so it shows the *)
(* files sent from the same session; all of them are for a browser that    *)
(* showed it reads the recipient's mailbox - signed in to an account of    *)
(* that address, or by a link mailed there a moment ago.  The sender may   *)
(* correct the recipient's address at any time.  A browser loads one page  *)
(* at a time; mailed links expire, and the limits of mailed links and wrong *)
(* passwords refuse, whenever they may.                                    *)
(***************************************************************************)
EXTENDS Naturals, FiniteSets

CONSTANTS
    Browsers,
    Addresses,
    Files,
    Reads,       \* the mailboxes the person at a browser reads
    NoAddress,
    NoFile,
    Nobody       \* sent from a session that is no more

RecipientAssumption ==
    /\ Reads \in [Browsers -> SUBSET Addresses]
    /\ NoAddress \notin Addresses
    /\ NoFile \notin Browsers /\ Nobody \notin Browsers

VARIABLES
    held,      \* awaiting_confirmation
    locked,    \* the request has a password
    address,   \* the client's email
    session,   \* what each browser's session holds
    page,      \* the page a browser waits for, with the address it read
    file,      \* the browser in whose present session each file was sent
    links,     \* the addresses of mailed links that still work
    sentTo,    \* history: the addresses the request had
    knew,      \* history: browsers that typed the right password
    shown      \* history: the files each browser was given

vars == <<held, locked, address, session, page, file, links, sentTo, knew, shown>>

requestVars == <<held, locked, address, sentTo>>
history == <<knew, shown>>

\* user: the confirmed address of the account signed in to.
Fresh == [granted |-> FALSE, verified |-> {}, user |-> NoAddress]

NoPage == [doing |-> "none", address |-> NoAddress]

Init ==
    /\ held \in BOOLEAN /\ locked \in BOOLEAN /\ address \in Addresses
    /\ session = [b \in Browsers |-> Fresh]
    /\ page = [b \in Browsers |-> NoPage]
    /\ file = [f \in Files |-> NoFile]
    /\ links = {}
    /\ sentTo = {address}
    /\ knew = {}
    /\ shown = [b \in Browsers |-> {}]

Stored == {f \in Files : file[f] # NoFile}

-----------------------------------------------------------------------------
(* The sender, the accounts and time *)

\* The sender confirms a request sent without an account.
Confirmed ==
    /\ held
    /\ held' = FALSE
    /\ UNCHANGED <<locked, address, sentTo, session, page, file, links, history>>

\* client_edit corrects the address.
EditClient(a) ==
    /\ a # address
    /\ address' = a
    /\ sentTo' = sentTo \cup {a}
    /\ UNCHANGED <<held, locked, session, page, file, links, history>>

\* The session gets another key: what was sent in it is nobody's.
NewKey(b) == file' = [f \in Files |-> IF file[f] = b THEN Nobody ELSE file[f]]

\* login() changes the session's key, and empties the session of another
\* user; an account's address was confirmed by whoever reads it.
SignIn(b, a) ==
    LET s == session[b] IN
    /\ page[b] = NoPage
    /\ a \in Reads[b] /\ s.user # a
    /\ session' = [session EXCEPT ![b] =
                      [(IF s.user = NoAddress THEN s ELSE Fresh) EXCEPT !.user = a]]
    /\ NewKey(b)
    /\ UNCHANGED <<requestVars, page, links, history>>

\* logout() empties it.
SignOut(b) ==
    /\ page[b] = NoPage /\ session[b].user # NoAddress
    /\ session' = [session EXCEPT ![b] = Fresh]
    /\ NewKey(b)
    /\ UNCHANGED <<requestVars, page, links, history>>

Expire(a) ==
    /\ a \in links
    /\ links' = links \ {a}
    /\ UNCHANGED <<requestVars, session, page, file, history>>

-----------------------------------------------------------------------------
(* A page begins: the request is read by its token *)

\* get_by_token; the page works with the client read here.
GetByToken(b, doing) ==
    /\ page[b] = NoPage
    /\ ~held
    /\ page' = [page EXCEPT ![b] = [doing |-> doing, address |-> address]]
    /\ UNCHANGED <<requestVars, session, file, links, history>>

HasAccess(b) == session[b].granted

\* is_verified_recipient, of the address the page read.
IsVerified(b, a) == session[b].user = a \/ a \in session[b].verified

Done(b) == page' = [page EXCEPT ![b] = NoPage]

Granted(b) == session' = [session EXCEPT ![b].granted = TRUE]

Mine(b) == {f \in Stored : file[f] = b}

Given(b, fs) == shown' = [shown EXCEPT ![b] = @ \cup fs]

\* public_request_detail, past the password or without one.
ShowRequest(b) ==
    LET a == page[b].address IN
    /\ page[b].doing = "detail"
    /\ locked => IsVerified(b, a) \/ HasAccess(b)
    /\ Granted(b)
    /\ Given(b, IF IsVerified(b, a) THEN Stored ELSE Mine(b))
    /\ Done(b)
    /\ UNCHANGED <<requestVars, file, links, knew>>

\* The password page, and the form on it: check_password, wrong or past
\* the limit of wrong ones.
PasswordGate(b) ==
    /\ page[b].doing = "detail"
    /\ locked /\ ~IsVerified(b, page[b].address) /\ ~HasAccess(b)
    /\ Done(b)
    /\ \/ Granted(b) /\ knew' = knew \cup {b}
       \/ UNCHANGED <<session, knew>>
    /\ UNCHANGED <<requestVars, file, links, shown>>

\* public_upload_item, public_upload_pages, public_add_extra.
Upload(b, f) ==
    /\ page[b].doing = "send" /\ HasAccess(b)
    /\ file[f] = NoFile
    /\ file' = [file EXCEPT ![f] = b]
    /\ Given(b, {f})
    /\ Done(b)
    /\ UNCHANGED <<requestVars, session, links, knew>>

\* "LOCKED", refused by the service, or an answer, which goes to Questions
\* and ItemLifecycle.
SendNothing(b) ==
    /\ page[b].doing = "send"
    /\ Done(b)
    /\ UNCHANGED <<requestVars, session, file, links, history>>

\* delete_own_upload.
Delete(b, f) ==
    /\ page[b] = NoPage
    /\ f \in Mine(b)
    /\ file' = [file EXCEPT ![f] = NoFile]
    /\ shown' = [c \in Browsers |-> shown[c] \ {f}]
    /\ UNCHANGED <<requestVars, session, page, links, knew>>

\* get_for_download: the document is read with its client at once.
Download(b, f) ==
    /\ page[b] = NoPage
    /\ f \in Stored
    /\ IsVerified(b, address) \/ (HasAccess(b) /\ f \in Mine(b))
    /\ Given(b, {f})
    /\ UNCHANGED <<requestVars, session, page, file, links, knew>>

-----------------------------------------------------------------------------
(* "Pokaz wszystkie moje pliki" *)

\* recipient_files_request; past the limit nothing is mailed, quietly.
SendLink(b) ==
    /\ page[b].doing = "link" /\ HasAccess(b)
    /\ links' = links \cup {page[b].address} \/ UNCHANGED links
    /\ Done(b)
    /\ UNCHANGED <<requestVars, session, file, history>>

SendLinkRefused(b) ==
    /\ page[b].doing = "link" /\ ~HasAccess(b)
    /\ Done(b)
    /\ UNCHANGED <<requestVars, session, file, links, history>>

\* Mutant of LinkWorks: not bound to the address of right now.
LinkWorksAnyAddress(b, to) == to \in links /\ to \in Reads[b]

\* check_link: signed for this request and the address the page read.
LinkWorks(b, to) == to \in links /\ to \in Reads[b] /\ to = page[b].address

\* recipient_files_confirm: only the button uses the link.
ConfirmLink(b) ==
    /\ page[b].doing = "confirm"
    /\ \E to \in Addresses : LinkWorks(b, to)
    /\ session' = [session EXCEPT ![b] =
                      [session[b] EXCEPT !.granted = TRUE, !.verified = @ \cup {page[b].address}]]
    /\ Done(b)
    /\ UNCHANGED <<requestVars, file, links, history>>

ConfirmRefused(b) ==
    /\ page[b].doing = "confirm"
    /\ ~\E to \in Addresses : LinkWorks(b, to)
    /\ Done(b)
    /\ UNCHANGED <<requestVars, session, file, links, history>>

Next ==
    \/ Confirmed
    \/ \E a \in Addresses : EditClient(a) \/ Expire(a)
    \/ \E b \in Browsers :
        \/ \E a \in Addresses : SignIn(b, a)
        \/ SignOut(b)
        \/ \E d \in {"detail", "send", "link", "confirm"} : GetByToken(b, d)
        \/ ShowRequest(b) \/ PasswordGate(b) \/ SendNothing(b)
        \/ SendLink(b) \/ SendLinkRefused(b) \/ ConfirmLink(b) \/ ConfirmRefused(b)
        \/ \E f \in Files : Upload(b, f) \/ Delete(b, f) \/ Download(b, f)

Spec == Init /\ [][Next]_vars

-----------------------------------------------------------------------------
(* The variables keep their types.                                          *)
TypeOK ==
    /\ held \in BOOLEAN /\ locked \in BOOLEAN /\ address \in Addresses
    /\ \A b \in Browsers :
        /\ session[b].granted \in BOOLEAN
        /\ session[b].verified \subseteq Addresses
        /\ page[b].doing \in {"none", "detail", "send", "link", "confirm"}
        /\ shown[b] \subseteq Files
    /\ links \subseteq Addresses
    /\ knew \subseteq Browsers

\* The address in force for b: of the page it waits for, or of right now.
Asked(b) == IF page[b] = NoPage THEN address ELSE page[b].address

(* "A plain link may have been forwarded, so it shows only files sent from  *)
(* this browser" (public_views.py:86-92, documents/services.py:541-544): a  *)
(* file of another session is given only to somebody who reads the mailbox  *)
(* the request is addressed to - whatever links were mailed, to which       *)
(* address, and whoever signed in before.  And with a password, nothing is  *)
(* given to who neither typed it nor reads a mailbox it was addressed to.   *)
FilesForTheirReader ==
    [][\A b \in Browsers : \A f \in shown'[b] \ shown[b] :
          /\ file'[f] = b \/ Asked(b) \in Reads[b]
          /\ locked => b \in knew \/ Reads[b] \cap sentTo # {}]_vars

=============================================================================
