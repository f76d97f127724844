---------------------------- MODULE Invitations ----------------------------
(***************************************************************************)
(* When a request's invitation leaves: apps/requests/services.py (create,  *)
(* create_many, send_queued_invitations, release_held, close, reopen,      *)
(* update), apps/requests/api.py (send_link) and apps/requests/guest.py    *)
(* (submit, confirm, delete_unconfirmed), for the requests of one account. *)
(*                                                                         *)
(* A worker is a web process or a Celery process.  The invitation is       *)
(* mailed inside the transaction that records it, under the request's row  *)
(* lock where the row exists already; a transaction's writes are seen at   *)
(* its commit.  Lists of requests are read before and outside these        *)
(* transactions.                                                           *)
(***************************************************************************)
EXTENDS Naturals, FiniteSets

CONSTANTS
    Requests,    \* the requests the account may come to have
    Workers,     \* web and Celery processes
    NoRequest,   \* the request of a worker that is at none
    MaxEdits,    \* bound on the edits saved and the links sent by hand
    MaxCrashes   \* bound on the workers killed

ASSUME InvitationsAssumption ==
    /\ NoRequest \notin Requests
    /\ MaxEdits \in Nat
    /\ MaxCrashes \in Nat

VARIABLES
    req,        \* the Request rows
    verified,   \* the account's address is confirmed (email_verified_at)
    expired,    \* the requests older than CONFIRMATION_TTL
    wk,         \* what each worker is doing
    mails,      \* mails[r]: INVITATION emails handed to the mail server
    byHand,     \* history: the requests whose link was sent again by hand
    touched,    \* history: saved whole from a stale copy, or mailed by a
                \* worker killed before its commit
    skipped,    \* history: found closed by the queue
    edits,      \* history: edits saved and links sent by hand
    crashes     \* history: workers killed

vars == <<req, verified, expired, wk, mails, byHand, touched, skipped, edits, crashes>>

\* "held": awaiting_confirmation without a token; "guest": with one.
Row == [row : {"new", "live", "gone"}, awaiting : {"no", "held", "guest"},
        queued : BOOLEAN, closed : BOOLEAN]

NewRow == [row |-> "new", awaiting |-> "no", queued |-> FALSE, closed |-> FALSE]
LiveRow == [NewRow EXCEPT !.row = "live"]

\* op: the operation; pc: its next step; todo: the list it read or the
\* requests it stores; at: the request in hand; copy: the row it holds.
Worker ==
    [op : {"none", "send", "store", "queue", "release", "confirm", "cleanup",
           "edit", "link"},
     pc : {"idle", "list", "loop", "lock", "mail", "commit", "save"},
     todo : SUBSET Requests, at : Requests \cup {NoRequest}, copy : Row]

Idle == [op |-> "none", pc |-> "idle", todo |-> {}, at |-> NoRequest,
         copy |-> NewRow]

Init ==
    /\ req = [r \in Requests |-> NewRow]
    /\ verified \in BOOLEAN
    /\ expired = {}
    /\ wk = [w \in Workers |-> Idle]
    /\ mails = [r \in Requests |-> 0]
    /\ byHand = {}
    /\ touched = {}
    /\ skipped = {}
    /\ edits = 0
    /\ crashes = 0

history == <<byHand, touched, skipped, edits, crashes>>

-----------------------------------------------------------------------------
Live(r) == req[r].row = "live"
Held(r) == Live(r) /\ req[r].awaiting = "held"
Queued(r) == Live(r) /\ req[r].queued

\* A row that exists and that an open transaction wrote or locked.
Locked(r) ==
    \E w \in Workers :
        /\ wk[w].op \in {"queue", "release", "confirm"}
        /\ wk[w].pc \in {"mail", "commit"}
        /\ wk[w].at = r

\* An id is given once.
Fresh(r) ==
    /\ req[r].row = "new"
    /\ \A w \in Workers : r # wk[w].at /\ r \notin wk[w].todo

Begin(w, op, pc, todo, r, copy) ==
    /\ wk[w].pc = "idle"
    /\ wk' = [wk EXCEPT ![w] = [op |-> op, pc |-> pc, todo |-> todo, at |-> r,
                                copy |-> copy]]
    /\ UNCHANGED <<req, verified, expired, mails, history>>

End(w) == wk' = [wk EXCEPT ![w] = Idle]

\* One request of the list is done with.
Drop(w, r) ==
    wk' = [wk EXCEPT ![w] = [wk[w] EXCEPT !.pc = "loop", !.at = NoRequest, !.todo = @ \ {r}]]

-----------------------------------------------------------------------------
(* RequestService.create and create_many; GuestRequestService.submit       *)

\* Whether the owner's address is confirmed is asked first (awaits_
\* verification); without it the request is stored and held.
CreateBegin(w, r) ==
    /\ Fresh(r)
    /\ IF verified
       THEN Begin(w, "send", "mail", {}, r, LiveRow)
       ELSE Begin(w, "store", "commit", {r}, NoRequest,
                  [LiveRow EXCEPT !.awaiting = "held"])

\* Mutant of CreateManyBegin: queued whether it is held or not.
CreateManyBeginQueued(w, S) ==
    /\ S # {}
    /\ \A r \in S : Fresh(r)
    /\ Begin(w, "store", "commit", S, NoRequest,
             [LiveRow EXCEPT !.queued = TRUE,
                             !.awaiting = IF verified THEN "no" ELSE "held"])

\* All of them or none; the invitations are left to the queue.
CreateManyBegin(w, S) ==
    /\ S # {}
    /\ \A r \in S : Fresh(r)
    /\ Begin(w, "store", "commit", S, NoRequest,
             IF verified THEN [LiveRow EXCEPT !.queued = TRUE]
                         ELSE [LiveRow EXCEPT !.awaiting = "held"])

GuestSubmitBegin(w, r) ==
    /\ Fresh(r)
    /\ Begin(w, "store", "commit", {r}, NoRequest,
             [LiveRow EXCEPT !.awaiting = "guest"])

StoreCommit(w) ==
    /\ wk[w].op = "store"
    /\ req' = [r \in Requests |-> IF r \in wk[w].todo THEN wk[w].copy ELSE req[r]]
    /\ End(w)
    /\ UNCHANGED <<verified, expired, mails, history>>

-----------------------------------------------------------------------------
(* RequestService.send_queued_invitations, every minute *)

\* Mutant of QueueBegin: closed requests are not listed.
QueueBeginOpen(w) ==
    LET list == {r \in Requests : Queued(r) /\ ~req[r].closed} IN
    /\ list # {}
    /\ Begin(w, "queue", "loop", list, NoRequest, NewRow)

QueueBegin(w) ==
    LET list == {r \in Requests : Queued(r)} IN
    /\ list # {}
    /\ Begin(w, "queue", "loop", list, NoRequest, NewRow)

Take(w, r, pc) == wk' = [wk EXCEPT ![w] = [@ EXCEPT !.pc = pc, !.at = r]]

\* Mutant of QueueTake: the flag is not asked for again under the lock.
QueueTakeListed(w) ==
    /\ wk[w].op = "queue"
    /\ wk[w].pc = "loop"
    /\ \E r \in wk[w].todo :
        \/ /\ Locked(r) \/ ~Live(r)
           /\ Drop(w, r)
           /\ UNCHANGED skipped
        \/ /\ Live(r) /\ ~Locked(r)
           /\ Take(w, r, IF req[r].closed THEN "commit" ELSE "mail")
           /\ skipped' = IF req[r].closed THEN skipped \cup {r} ELSE skipped
    /\ UNCHANGED <<req, verified, expired, mails, byHand, touched, edits, crashes>>

\* Mutant of QueueTake: closed_at is not looked at.
QueueTakeClosed(w) ==
    /\ wk[w].op = "queue"
    /\ wk[w].pc = "loop"
    /\ \E r \in wk[w].todo :
        \/ /\ Locked(r) \/ ~Queued(r)
           /\ Drop(w, r)
        \/ /\ Queued(r) /\ ~Locked(r)
           /\ Take(w, r, "mail")
    /\ UNCHANGED <<req, verified, expired, mails, history>>

\* Mutant of QueueTake: the cleared flag is committed before the mail.
QueueTakeEarly(w) ==
    /\ wk[w].op = "queue"
    /\ wk[w].pc = "loop"
    /\ \E r \in wk[w].todo :
        \/ /\ Locked(r) \/ ~Queued(r)
           /\ Drop(w, r)
           /\ UNCHANGED <<req, skipped>>
        \/ /\ Queued(r) /\ ~Locked(r)
           /\ req' = [req EXCEPT ![r].queued = FALSE]
           /\ Take(w, r, IF req[r].closed THEN "commit" ELSE "mail")
           /\ skipped' = IF req[r].closed THEN skipped \cup {r} ELSE skipped
    /\ UNCHANGED <<verified, expired, mails, byHand, touched, edits, crashes>>

\* One row of the list: locked unless somebody else has it (skip_locked) and
\* asked again whether it is queued.  A closed one is only taken off.
QueueTake(w) ==
    /\ wk[w].op = "queue"
    /\ wk[w].pc = "loop"
    /\ \E r \in wk[w].todo :
        \/ /\ Locked(r) \/ ~Queued(r)
           /\ Drop(w, r)
           /\ UNCHANGED skipped
        \/ /\ Queued(r) /\ ~Locked(r)
           /\ Take(w, r, IF req[r].closed THEN "commit" ELSE "mail")
           /\ skipped' = IF req[r].closed THEN skipped \cup {r} ELSE skipped
    /\ UNCHANGED <<req, verified, expired, mails, byHand, touched, edits, crashes>>

-----------------------------------------------------------------------------
(* VerificationService.verify, release_held *)

\* The link from the mail (each works once, several may have been sent): the
\* address is confirmed, then all that is held is sent.
VerifyByLink(w) ==
    /\ wk[w].pc = "idle"
    /\ verified' = TRUE
    /\ wk' = [wk EXCEPT ![w] = [Idle EXCEPT !.op = "release", !.pc = "list"]]
    /\ UNCHANGED <<req, expired, mails, history>>

ReleaseList(w) ==
    /\ wk[w].op = "release"
    /\ wk[w].pc = "list"
    /\ wk' = [wk EXCEPT ![w] = [@ EXCEPT !.pc = "loop", !.todo = {r \in Requests : Held(r)}]]
    /\ UNCHANGED <<req, verified, expired, mails, history>>

\* A password reset or Google confirms the address, and releases nothing ...
VerifyElsewhere ==
    /\ ~verified
    /\ verified' = TRUE
    /\ UNCHANGED <<req, expired, wk, mails, history>>

\* ... so the owner sends each ("Wyslij teraz", request_send_held).
SendHeldBegin(w, r) ==
    /\ verified
    /\ Held(r)
    /\ Begin(w, "release", "loop", {r}, NoRequest, NewRow)

\* The row is waited for; one deleted since the list was read ends it all
\* (DoesNotExist is no ApplicationError), one no longer held is left alone.
ReleaseTake(w) ==
    /\ wk[w].op = "release"
    /\ wk[w].pc = "loop"
    /\ \E r \in wk[w].todo :
        /\ ~Locked(r)
        /\ \/ ~Live(r) /\ End(w)
           \/ Live(r) /\ req[r].awaiting = "no" /\ Drop(w, r)
           \/ Live(r) /\ req[r].awaiting # "no" /\ Take(w, r, "mail")
    /\ UNCHANGED <<req, verified, expired, mails, history>>

\* The list of a release or of the queue is worked off.
LoopEnd(w) ==
    /\ wk[w].op \in {"queue", "release"}
    /\ wk[w].pc = "loop"
    /\ wk[w].todo = {}
    /\ End(w)
    /\ UNCHANGED <<req, verified, expired, mails, history>>

-----------------------------------------------------------------------------
(* GuestRequestService.confirm, delete_unconfirmed *)

\* pending: the link works for CONFIRMATION_TTL.
ConfirmBegin(w, r) ==
    /\ Live(r)
    /\ req[r].awaiting = "guest"
    /\ r \notin expired
    /\ Begin(w, "confirm", "lock", {}, r, NewRow)

\* Under the lock the row is read again.
ConfirmLock(w) ==
    /\ wk[w].op = "confirm"
    /\ wk[w].pc = "lock"
    /\ ~Locked(wk[w].at)
    /\ IF Live(wk[w].at) /\ req[wk[w].at].awaiting # "no"
       THEN wk' = [wk EXCEPT ![w].pc = "mail"]
       ELSE End(w)
    /\ UNCHANGED <<req, verified, expired, mails, history>>

Expire(r) ==
    /\ Live(r)
    /\ r \notin expired
    /\ expired' = expired \cup {r}
    /\ UNCHANGED <<req, verified, wk, mails, history>>

Stale(r) == Live(r) /\ req[r].awaiting = "guest" /\ r \in expired

CleanupBegin(w) ==
    LET list == {r \in Requests : Stale(r)} IN
    /\ list # {}
    /\ Begin(w, "cleanup", "loop", list, NoRequest, NewRow)

\* The rows of the list are deleted by their id, whatever they are by now.
CleanupDelete(w) ==
    /\ wk[w].op = "cleanup"
    /\ \E r \in wk[w].todo :
        /\ ~Locked(r)
        /\ req' = [req EXCEPT ![r] = [NewRow EXCEPT !.row = "gone"]]
        /\ IF wk[w].todo = {r} THEN End(w) ELSE Drop(w, r)
    /\ UNCHANGED <<verified, expired, mails, history>>

-----------------------------------------------------------------------------
(* The transactions that mail: deliver, then the commit *)

\* EmailService.send: sent or refused by the mail server, logged either way.
Mail(w) ==
    /\ wk[w].pc = "mail"
    /\ wk[w].op # "link"
    /\ mails' = [mails EXCEPT ![wk[w].at] = @ + 1]
    /\ wk' = [wk EXCEPT ![w].pc = "commit"]
    /\ UNCHANGED <<req, verified, expired, history>>

\* Another limit refuses (the plan, the day's emails, the new account's
\* recipients): the transaction is rolled back.  The queue's emails were
\* counted when they were queued.
Refuse(w) ==
    /\ wk[w].pc = "mail"
    /\ wk[w].op # "queue"
    /\ IF wk[w].op = "release" THEN Drop(w, wk[w].at) ELSE End(w)
    /\ UNCHANGED <<req, verified, expired, mails, history>>

\* What the transaction leaves in the row.
Commit(w) ==
    LET r == wk[w].at IN
    /\ wk[w].pc = "commit"
    /\ wk[w].op # "store"
    /\ req' = [req EXCEPT ![r] =
                 CASE wk[w].op = "send"  -> wk[w].copy
                   [] wk[w].op = "queue" -> [@ EXCEPT !.queued = FALSE]
                   [] OTHER              -> [@ EXCEPT !.awaiting = "no"]]
    /\ verified' = (verified \/ wk[w].op = "confirm")
    /\ IF wk[w].op \in {"queue", "release"} THEN Drop(w, r) ELSE End(w)
    /\ UNCHANGED <<expired, mails, history>>

-----------------------------------------------------------------------------
(* The owner: send the link again, close, reopen, delete, edit *)

\* send_link looks whether the request was sent ...
SendLinkBegin(w, r) ==
    /\ edits < MaxEdits
    /\ Live(r)
    /\ req[r].awaiting = "no"
    /\ Begin(w, "link", "mail", {}, r, NewRow)

\* ... and mails it without a lock, closed or deleted by then or not: only
\* the address is asked about (check_can_email_others).
LinkMail(w) ==
    /\ wk[w].op = "link"
    /\ edits < MaxEdits
    /\ byHand' = IF verified THEN byHand \cup {wk[w].at} ELSE byHand
    /\ edits' = edits + 1
    /\ End(w)
    /\ UNCHANGED <<req, verified, expired, mails, touched, skipped, crashes>>

\* Also of a request that is held: it is sent all the same when it is
\* released.
Close(r) ==
    /\ Live(r)
    /\ ~req[r].closed
    /\ ~Locked(r)
    /\ req' = [req EXCEPT ![r].closed = TRUE]
    /\ UNCHANGED <<verified, expired, wk, mails, history>>

Reopen(r) ==
    /\ Live(r)
    /\ req[r].closed
    /\ ~Locked(r)
    /\ req' = [req EXCEPT ![r].closed = FALSE]
    /\ UNCHANGED <<verified, expired, wk, mails, history>>

Delete(r) ==
    /\ Live(r)
    /\ ~Locked(r)
    /\ req' = [req EXCEPT ![r] = [NewRow EXCEPT !.row = "gone"]]
    /\ UNCHANGED <<verified, expired, wk, mails, history>>

EditBegin(w, r) ==
    /\ edits < MaxEdits
    /\ Live(r)
    /\ Begin(w, "edit", "save", {}, r, req[r])

\* RequestService.update: save() writes every column of the fetched object,
\* and inserts the row when there is none to update.
EditSave(w) ==
    LET r == wk[w].at IN
    /\ wk[w].op = "edit"
    /\ edits < MaxEdits
    /\ ~Locked(r)
    /\ req' = [req EXCEPT ![r] = wk[w].copy]
    /\ touched' = IF wk[w].copy # req[r] THEN touched \cup {r} ELSE touched
    /\ edits' = edits + 1
    /\ End(w)
    /\ UNCHANGED <<verified, expired, mails, byHand, skipped, crashes>>

\* The open transaction is rolled back; what was mailed was mailed.
Crash(w) ==
    /\ crashes < MaxCrashes
    /\ wk[w].pc # "idle"
    /\ crashes' = crashes + 1
    /\ touched' = IF wk[w].pc = "commit" /\ wk[w].op # "store"
                  THEN touched \cup {wk[w].at} ELSE touched
    /\ End(w)
    /\ UNCHANGED <<req, verified, expired, mails, byHand, skipped, edits>>

-----------------------------------------------------------------------------
Statement(w) ==
    \/ StoreCommit(w) \/ QueueTake(w) \/ ReleaseList(w) \/ ReleaseTake(w)
    \/ LoopEnd(w) \/ ConfirmLock(w) \/ CleanupDelete(w)
    \/ Mail(w) \/ Commit(w) \/ EditSave(w) \/ LinkMail(w)

Next ==
    \/ \E w \in Workers :
        \/ \E r \in Requests : \/ CreateBegin(w, r) \/ GuestSubmitBegin(w, r)
                               \/ SendHeldBegin(w, r) \/ ConfirmBegin(w, r)
                               \/ EditBegin(w, r) \/ SendLinkBegin(w, r)
        \/ \E S \in SUBSET Requests : CreateManyBegin(w, S)
        \/ QueueBegin(w) \/ CleanupBegin(w) \/ VerifyByLink(w)
        \/ Statement(w) \/ Refuse(w) \/ Crash(w)
    \/ \E r \in Requests : Close(r) \/ Reopen(r) \/ Delete(r) \/ Expire(r)
    \/ VerifyElsewhere

Spec == Init /\ [][Next]_vars

\* A worker that is not killed runs to the end, and the beat's minute task is
\* run again and again.
FairSpec ==
    /\ Spec
    /\ \A w \in Workers : WF_vars(Statement(w))
    /\ SF_vars(\E w \in Workers : QueueBegin(w))

-----------------------------------------------------------------------------
TypeOK ==
    /\ req \in [Requests -> Row]
    /\ verified \in BOOLEAN
    /\ expired \in SUBSET Requests
    /\ wk \in [Workers -> Worker]
    /\ mails \in [Requests -> Nat]
    /\ byHand \in SUBSET Requests
    /\ touched \in SUBSET Requests
    /\ skipped \in SUBSET Requests
    /\ edits \in 0..MaxEdits
    /\ crashes \in 0..MaxCrashes

(* Nobody is invited twice, however many queue tasks, releases and clicks  *)
(* on the confirmation link run at once: each takes the row under a lock   *)
(* and asks again.  (A stale save and a worker killed after the mail break *)
(* it, see QueueSendsOnce.)                                                *)
InvitedOnce == \A r \in Requests : r \notin touched => mails[r] <= 1

(* Nobody is forgotten: a request that was sent, and is not waiting in the *)
(* queue, had its invitation mailed - also when workers were killed - or   *)
(* was found closed by the queue.                                          *)
NoInvitationLost ==
    \A r \in Requests :
        Live(r) /\ req[r].awaiting = "no" /\ ~req[r].queued /\ r \notin touched
            => mails[r] > 0 \/ r \in skipped

(* No invitation leaves from an address nobody has proved: the account's   *)
(* was confirmed, or the guest's link is just confirming it (awaits_       *)
(* verification, held requests) - nor a link sent by hand.                 *)
ProvedBeforeInvited ==
    [][/\ \A r \in Requests : mails'[r] # mails[r] =>
             \/ verified
             \/ \E w \in Workers : /\ wk[w].op = "confirm" /\ wk[w].pc = "mail"
                                   /\ wk[w].at = r
       /\ byHand' # byHand => verified]_vars

(* What the owner withdrew is not sent any more: the queue and a release   *)
(* mail no deleted request, and a closed one only when it was closed while *)
(* it was held (release_held and confirm do not look at closed_at) - also  *)
(* when they had read their list before.  The link sent by hand is not     *)
(* asked about (send_link).                                                *)
WithdrawnNotInvited ==
    [][\A r \in Requests : mails'[r] # mails[r] =>
          /\ req[r].row # "gone"
          /\ req[r].closed => req[r].awaiting # "no"]_vars

(* Every queued request is taken from the queue, mailed or found closed -  *)
(* also when the worker that had it is killed.                             *)
QueueIsWorkedOff == \A r \in Requests : Queued(r) ~> ~Queued(r)

(***************************************************************************)
(* What the repository says and the code does not do                       *)
(***************************************************************************)

(* "Prosba jest znowu otwarta - odbiorca moze przesylac pliki" (requests/  *)
(* views.py:600): the recipient of an open request was told of it.         *)
OpenIsInvited ==
    \A r \in Requests :
        Live(r) /\ req[r].awaiting = "no" /\ ~req[r].queued /\ ~req[r].closed
            => mails[r] > 0 \/ r \in byHand

=============================================================================
