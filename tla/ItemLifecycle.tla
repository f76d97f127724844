--------------------------- MODULE ItemLifecycle ---------------------------
(***************************************************************************)
(* The items of one document request and the files sent for them:          *)
(* apps/documents/services.py, called by the views of                      *)
(* apps/documents/api.py.  A recipient uploads, deletes, confirms or says  *)
(* "Nie dotyczy"; the sender accepts, rejects, closes and reopens.         *)
(*                                                                         *)
(* None of these services takes a row lock, and but for ExtraDocument-     *)
(* Service.add none runs in a transaction: a view fetches the item, the    *)
(* service tests that (by now possibly stale) copy and then issues its     *)
(* statements one by one.  A thread of the model is one web worker serving *)
(* one HTTP request: its Begin action is the fetch and the tests on the    *)
(* copy, and every later action is one database statement, so that two     *)
(* workers interleave exactly where the code lets them.                    *)
(***************************************************************************)
EXTENDS Naturals, FiniteSets

CONSTANTS
    Items,       \* the request's items, the ones a client may add included
    Confirms,    \* the items of kind CONFIRM ("Zrobione", no file)
    Extras,      \* the items a client may add ("Dodaj inny dokument")
    Docs,        \* the files that may be uploaded
    ItemOf,      \* ItemOf[d]: the item file d is sent for
    Checksum,    \* Checksum[d]: the content of file d
    Threads,     \* the web workers serving this request
    NoItem,      \* the item of a worker that serves none
    NoDoc,       \* the file of a worker that handles none
    MaxFiles,    \* MAX_FILES_PER_ITEM
    MaxExtra,    \* MAX_EXTRA_ITEMS
    MaxCrashes   \* bound on the workers killed in the middle of a request

ASSUME ConstantsAssumption ==
    /\ Confirms \subseteq Items
    /\ Extras \subseteq Items \ Confirms
    /\ ItemOf \in [Docs -> Items]
    /\ IsFiniteSet(Docs)
    /\ IsFiniteSet(Threads)
    /\ NoItem \notin Items
    /\ NoDoc \notin Docs
    /\ MaxFiles \in Nat \ {0}
    /\ MaxExtra \in Nat
    /\ MaxCrashes \in Nat

ItemStatus == {"brak", "dostarczony", "zaakceptowany", "odrzucony",
               "nie_dotyczy"}
DocStatus == {"none", "uploaded", "accepted", "rejected"}

\* Done for the recipient (DELIVERED_STATUSES), and still to be given.
Delivered == {"dostarczony", "zaakceptowany", "nie_dotyczy"}
Missing == {"brak", "odrzucony"}

VARIABLES
    present,       \* the items that exist
    item,          \* item[i]: status and not_applicable_accepted
    doc,           \* doc[d]: the status of d's Document row; "none" without one
    closed,        \* closed_at is set
    completeSent,  \* COMPLETE emails logged as SENT
    th,            \* th[t]: where worker t is
    owed,          \* history: a recipient completed the request and no
                   \* COMPLETE email was tried since
    crashes        \* history: workers killed so far

vars == <<present, item, doc, closed, completeSent, th, owed, crashes>>

(***************************************************************************)
(* What a worker holds.  todo is what accept still has to do: the items it *)
(* fetched, with the status they had then.  openAtRead is history: the     *)
(* request was open when the worker read it.                               *)
(***************************************************************************)
Work == [item : Items, seen : {"dostarczony", "nie_dotyczy"}]

\* One statement left: the services that end by saving the item.
SavePcs == {"confirm", "undo_confirm", "mark_na", "undo_na", "owner_na",
            "refuse_na", "revert"}
\* Inside the transaction of ExtraDocumentService.add.
ExtraPcs == {"extra", "extra_mailing", "extra_saved"}
Pcs == SavePcs \cup ExtraPcs \cup
       {"idle", "fetched", "counted", "unique", "stored", "saved", "mailing",
        "accept", "accept_docs", "reject", "reject_docs",
        "delete", "deleted"}

Thread == [pc : Pcs, item : Items \cup {NoItem}, doc : Docs \cup {NoDoc},
           todo : SUBSET Work, openAtRead : BOOLEAN]

Idle == [pc |-> "idle", item |-> NoItem, doc |-> NoDoc, todo |-> {},
         openAtRead |-> FALSE]

Init ==
    /\ present = Items \ Extras
    /\ item = [i \in Items |-> [status |-> "brak", naAccepted |-> FALSE]]
    /\ doc = [d \in Docs |-> "none"]
    /\ closed = FALSE
    /\ completeSent = 0
    /\ th = [t \in Threads |-> Idle]
    /\ owed = FALSE
    /\ crashes = 0

-----------------------------------------------------------------------------
Status(i) == item[i].status
Files(i) == {d \in Docs : ItemOf[d] = i /\ doc[d] # "none"}

\* with_stats: every item of the request is delivered.
Complete(its, state) == \A i \in its : state[i].status \in Delivered

\* One item to write, and what that does to the email the recipient is owed:
\* completing the request creates the debt, taking an item back cancels it.
WriteItem(i, new) ==
    item' = [item EXCEPT ![i] = new]

SaveByRecipient(i, new) ==
    /\ WriteItem(i, new)
    /\ owed' = (Complete(present, item') /\ completeSent = 0)

SaveBySender(i, new) ==
    /\ WriteItem(i, new)
    /\ owed' = (owed /\ Complete(present, item'))

Go(t, pc) == th' = [th EXCEPT ![t].pc = pc]
Done(t) == th' = [th EXCEPT ![t] = Idle]

\* The view fetches the item, and what the service refuses is refused here.
Begin(t, pc, i, d) ==
    /\ th[t].pc = "idle"
    /\ i \in present
    /\ th' = [th EXCEPT ![t] = [pc |-> pc, item |-> i, doc |-> d, todo |-> {},
                                openAtRead |-> ~closed]]
    /\ UNCHANGED <<present, item, doc, closed, completeSent, owed, crashes>>

\* No worker still works with this file: its slot stands for a new row.
Free(d) == doc[d] = "none" /\ \A t \in Threads : th[t].doc # d

-----------------------------------------------------------------------------
(* UploadDocumentService.upload_for_item *)

UploadBegin(t, d) ==
    /\ Free(d)
    /\ ~closed
    /\ Status(ItemOf[d]) # "zaakceptowany"
    /\ ItemOf[d] \notin Confirms
    /\ Begin(t, "fetched", ItemOf[d], d)

\* Mutant of UploadCount: the limit is not looked at.
UploadCountUnlimited(t) ==
    /\ th[t].pc = "fetched"
    /\ Go(t, "counted")
    /\ UNCHANGED <<present, item, doc, closed, completeSent, owed, crashes>>

\* The files of the item are counted ...
UploadCount(t) ==
    /\ th[t].pc = "fetched"
    /\ IF Cardinality(Files(th[t].item)) < MaxFiles
       THEN Go(t, "counted")
       ELSE Done(t)
    /\ UNCHANGED <<present, item, doc, closed, completeSent, owed, crashes>>

\* ... and, after the new one was scanned, compared with it.
UploadCheckDuplicate(t) ==
    /\ th[t].pc = "counted"
    /\ IF \E d \in Files(th[t].item) : Checksum[d] = Checksum[th[t].doc]
       THEN Done(t)
       ELSE Go(t, "unique")
    /\ UNCHANGED <<present, item, doc, closed, completeSent, owed, crashes>>

UploadStore(t) ==
    /\ th[t].pc = "unique"
    /\ doc' = [doc EXCEPT ![th[t].doc] = "uploaded"]
    /\ Go(t, "stored")
    /\ UNCHANGED <<present, item, closed, completeSent, owed, crashes>>

\* Whatever the item has become since it was fetched.
UploadSave(t) ==
    /\ th[t].pc = "stored"
    /\ SaveByRecipient(th[t].item,
                       [status |-> "dostarczony", naAccepted |-> FALSE])
    /\ Go(t, "saved")
    /\ UNCHANGED <<present, doc, closed, completeSent, crashes>>

\* Mutant of CompleteCheck: nobody asks whether it was sent.
CompleteCheckAgain(t) ==
    /\ th[t].pc = "saved"
    /\ IF Complete(present, item) THEN Go(t, "mailing") ELSE Done(t)
    /\ UNCHANGED <<present, item, doc, closed, completeSent, owed, crashes>>

\* _maybe_send_complete_email: the test ...
CompleteCheck(t) ==
    /\ th[t].pc = "saved"
    /\ IF Complete(present, item) /\ completeSent = 0
       THEN Go(t, "mailing")
       ELSE Done(t)
    /\ UNCHANGED <<present, item, doc, closed, completeSent, owed, crashes>>

\* ... and the email, logged as SENT or - the mail server refused - FAILED.
CompleteSend(t) ==
    /\ th[t].pc = "mailing"
    /\ \E sent \in {0, 1} : completeSent' = completeSent + sent
    /\ owed' = FALSE
    /\ Done(t)
    /\ UNCHANGED <<present, item, doc, closed, crashes>>

-----------------------------------------------------------------------------
(* ExtraDocumentService.add: one transaction, seen by others at its commit *)

ExtraBegin(t, d) ==
    LET i == ItemOf[d] IN
    /\ th[t].pc = "idle"
    /\ i \in Extras \ present
    /\ \A u \in Threads : th[u].item # i
    /\ Free(d)
    /\ ~closed
    /\ Cardinality(Extras \cap present) < MaxExtra
    /\ th' = [th EXCEPT ![t] = [pc |-> "extra", item |-> i, doc |-> d,
                                todo |-> {}, openAtRead |-> ~closed]]
    /\ UNCHANGED <<present, item, doc, closed, completeSent, owed, crashes>>

\* Its own item is delivered; of the others it sees what was committed.
ExtraCheck(t) ==
    /\ th[t].pc = "extra"
    /\ Go(t, IF Complete(present, item) /\ completeSent = 0 THEN "extra_mailing"
             ELSE "extra_saved")
    /\ UNCHANGED <<present, item, doc, closed, completeSent, owed, crashes>>

ExtraCommit(t) ==
    /\ th[t].pc \in {"extra_mailing", "extra_saved"}
    /\ present' = present \cup {th[t].item}
    /\ doc' = [doc EXCEPT ![th[t].doc] = "uploaded"]
    /\ WriteItem(th[t].item, [status |-> "dostarczony", naAccepted |-> FALSE])
    /\ IF th[t].pc = "extra_mailing"
       THEN /\ \E sent \in {0, 1} : completeSent' = completeSent + sent
            /\ owed' = FALSE
       ELSE UNCHANGED <<completeSent, owed>>
    /\ Done(t)
    /\ UNCHANGED <<closed, crashes>>

-----------------------------------------------------------------------------
(* DocumentReviewService *)

ToReview == {i \in present : \/ Status(i) = "dostarczony"
                             \/ /\ Status(i) = "nie_dotyczy"
                                /\ ~item[i].naAccepted}

WorkOn(S) == {[item |-> i, seen |-> Status(i)] : i \in S}

AcceptFetch(t, S) ==
    /\ th[t].pc = "idle"
    /\ S # {}
    /\ th' = [th EXCEPT ![t] = [Idle EXCEPT !.pc = "accept",
                                            !.todo = WorkOn(S)]]
    /\ UNCHANGED <<present, item, doc, closed, completeSent, owed, crashes>>

\* accept: on one item, whether the request is closed or not.
AcceptBegin(t, i) ==
    /\ i \in present
    /\ Status(i) \in {"dostarczony", "nie_dotyczy"}
    /\ AcceptFetch(t, {i})

\* accept_all: on a list read once, each item as it was then.
AcceptAllBegin(t) ==
    /\ ~closed
    /\ AcceptFetch(t, ToReview)

\* NotApplicableService.accept: only the flag is written.
AcceptNotApplicable(t) ==
    /\ th[t].pc = "accept"
    /\ \E w \in th[t].todo :
        /\ w.seen = "nie_dotyczy"
        /\ WriteItem(w.item, [item[w.item] EXCEPT !.naAccepted = TRUE])
        /\ th' = [th EXCEPT ![t] = IF th[t].todo = {w} THEN Idle
                                   ELSE [th[t] EXCEPT !.todo = @ \ {w}]]
    /\ UNCHANGED <<present, doc, closed, completeSent, owed, crashes>>

AcceptSave(t) ==
    /\ th[t].pc = "accept"
    /\ \E w \in th[t].todo :
        /\ w.seen = "dostarczony"
        /\ SaveBySender(w.item,
                        [item[w.item] EXCEPT !.status = "zaakceptowany"])
        /\ th' = [th EXCEPT ![t] = [th[t] EXCEPT !.pc = "accept_docs", !.item = w.item,
                                                   !.todo = @ \ {w}]]
    /\ UNCHANGED <<present, doc, closed, completeSent, crashes>>

\* documents.filter(status=UPLOADED).update(...): every such row of now.
DecideFiles(i, decision) ==
    doc' = [d \in Docs |-> IF ItemOf[d] = i /\ doc[d] = "uploaded"
                           THEN decision ELSE doc[d]]

\* Mutant of AcceptDocs: only the item is accepted.
AcceptDocsForgotten(t) ==
    /\ th[t].pc = "accept_docs"
    /\ th' = [th EXCEPT ![t] = IF th[t].todo = {} THEN Idle
                               ELSE [th[t] EXCEPT !.pc = "accept",
                                                  !.item = NoItem]]
    /\ UNCHANGED <<present, item, doc, closed, completeSent, owed, crashes>>

AcceptDocs(t) ==
    /\ th[t].pc = "accept_docs"
    /\ DecideFiles(th[t].item, "accepted")
    /\ th' = [th EXCEPT ![t] = IF th[t].todo = {} THEN Idle
                               ELSE [th[t] EXCEPT !.pc = "accept",
                                                  !.item = NoItem]]
    /\ UNCHANGED <<present, item, closed, completeSent, owed, crashes>>

RejectBegin(t, i) ==
    /\ Status(i) = "dostarczony"
    /\ Begin(t, "reject", i, NoDoc)

RejectSave(t) ==
    /\ th[t].pc = "reject"
    /\ SaveBySender(th[t].item,
                    [item[th[t].item] EXCEPT !.status = "odrzucony"])
    /\ Go(t, "reject_docs")
    /\ UNCHANGED <<present, doc, closed, completeSent, crashes>>

RejectDocs(t) ==
    /\ th[t].pc = "reject_docs"
    /\ DecideFiles(th[t].item, "rejected")
    /\ Done(t)
    /\ UNCHANGED <<present, item, closed, completeSent, owed, crashes>>

-----------------------------------------------------------------------------
(* ConfirmationService and NotApplicableService: test the copy, then save *)

ConfirmBegin(t, i) ==
    /\ ~closed
    /\ i \in Confirms
    /\ Status(i) \in Missing
    /\ Begin(t, "confirm", i, NoDoc)

UndoConfirmBegin(t, i) ==
    /\ ~closed
    /\ i \in Confirms
    /\ Status(i) = "dostarczony"
    /\ Begin(t, "undo_confirm", i, NoDoc)

MarkByRecipientBegin(t, i) ==
    /\ ~closed
    /\ Status(i) \in Missing
    /\ Begin(t, "mark_na", i, NoDoc)

UndoByRecipientBegin(t, i) ==
    /\ ~closed
    /\ Status(i) = "nie_dotyczy"
    /\ ~item[i].naAccepted
    /\ Begin(t, "undo_na", i, NoDoc)

MarkByOwnerBegin(t, i) ==
    /\ ~closed
    /\ Status(i) \in Missing
    /\ Begin(t, "owner_na", i, NoDoc)

\* DocumentReviewService.reject of a "Nie dotyczy" item.
RefuseBegin(t, i) ==
    /\ ~closed
    /\ Status(i) = "nie_dotyczy"
    /\ Begin(t, "refuse_na", i, NoDoc)

\* The fields each service saves; the others keep what the row holds now.
Saved(op, now) ==
    CASE op = "confirm"      -> [now EXCEPT !.status = "dostarczony"]
      [] op = "undo_confirm" -> [now EXCEPT !.status = "brak"]
      [] op = "revert"       -> [now EXCEPT !.status = "brak"]
      [] op = "mark_na"      -> [status |-> "nie_dotyczy", naAccepted |-> FALSE]
      [] op = "undo_na"      -> [status |-> "brak", naAccepted |-> FALSE]
      [] op = "owner_na"     -> [status |-> "nie_dotyczy", naAccepted |-> TRUE]
      [] op = "refuse_na"    -> [status |-> "odrzucony", naAccepted |-> FALSE]

\* Mutant of AnswerSave: the answer ends without _maybe_send_complete_email.
AnswerSaveSilent(t) ==
    /\ th[t].pc \in {"confirm", "mark_na"}
    /\ SaveByRecipient(th[t].item, Saved(th[t].pc, item[th[t].item]))
    /\ Done(t)
    /\ UNCHANGED <<present, doc, closed, completeSent, crashes>>

\* The recipient's answers go on to _maybe_send_complete_email.
AnswerSave(t) ==
    /\ th[t].pc \in {"confirm", "mark_na"}
    /\ SaveByRecipient(th[t].item, Saved(th[t].pc, item[th[t].item]))
    /\ Go(t, "saved")
    /\ UNCHANGED <<present, doc, closed, completeSent, crashes>>

FinalSave(t) ==
    /\ th[t].pc \in SavePcs \ {"confirm", "mark_na"}
    /\ SaveBySender(th[t].item, Saved(th[t].pc, item[th[t].item]))
    /\ Done(t)
    /\ UNCHANGED <<present, doc, closed, completeSent, crashes>>

-----------------------------------------------------------------------------
(* GuestDeleteService.delete_own_upload, by the browser that sent the file *)

DeleteBegin(t, d) ==
    /\ doc[d] # "none"
    /\ ~closed
    /\ Status(ItemOf[d]) # "zaakceptowany"
    /\ Begin(t, "delete", ItemOf[d], d)

DeleteRow(t) ==
    /\ th[t].pc = "delete"
    /\ doc' = [doc EXCEPT ![th[t].doc] = "none"]
    /\ Go(t, "deleted")
    /\ UNCHANGED <<present, item, closed, completeSent, owed, crashes>>

\* Mutant of DeleteCheckEmpty: the item keeps its status.
DeleteKeepsItem(t) ==
    /\ th[t].pc = "deleted"
    /\ Done(t)
    /\ UNCHANGED <<present, item, doc, closed, completeSent, owed, crashes>>

\* documents.exists(): rejected ones count too.
DeleteCheckEmpty(t) ==
    /\ th[t].pc = "deleted"
    /\ IF Files(th[t].item) = {} THEN Go(t, "revert") ELSE Done(t)
    /\ UNCHANGED <<present, item, doc, closed, completeSent, owed, crashes>>

-----------------------------------------------------------------------------
(* RequestService.close and reopen; a worker killed mid-request *)

Close ==
    /\ ~closed
    /\ closed' = TRUE
    /\ UNCHANGED <<present, item, doc, completeSent, th, owed, crashes>>

Reopen ==
    /\ closed
    /\ closed' = FALSE
    /\ UNCHANGED <<present, item, doc, completeSent, th, owed, crashes>>

Crash(t) ==
    /\ crashes < MaxCrashes
    /\ th[t].pc # "idle"
    /\ crashes' = crashes + 1
    /\ Done(t)
    /\ UNCHANGED <<present, item, doc, closed, completeSent, owed>>

-----------------------------------------------------------------------------
Recipient(t) ==
    \/ \E d \in Docs : UploadBegin(t, d) \/ DeleteBegin(t, d) \/ ExtraBegin(t, d)
    \/ \E i \in Items : \/ ConfirmBegin(t, i) \/ UndoConfirmBegin(t, i)
                        \/ MarkByRecipientBegin(t, i)
                        \/ UndoByRecipientBegin(t, i)

Sender(t) ==
    \/ \E i \in Items : \/ AcceptBegin(t, i) \/ RejectBegin(t, i)
                        \/ MarkByOwnerBegin(t, i) \/ RefuseBegin(t, i)
    \/ AcceptAllBegin(t)

Statement(t) ==
    \/ UploadCount(t) \/ UploadCheckDuplicate(t) \/ UploadStore(t) \/ UploadSave(t)
    \/ CompleteCheck(t) \/ CompleteSend(t)
    \/ ExtraCheck(t) \/ ExtraCommit(t)
    \/ AcceptNotApplicable(t) \/ AcceptSave(t) \/ AcceptDocs(t)
    \/ RejectSave(t) \/ RejectDocs(t)
    \/ AnswerSave(t) \/ FinalSave(t)
    \/ DeleteRow(t) \/ DeleteCheckEmpty(t)

Next ==
    \/ \E t \in Threads : Recipient(t) \/ Sender(t) \/ Statement(t) \/ Crash(t)
    \/ Close
    \/ Reopen

Spec == Init /\ [][Next]_vars

\* A worker that is not killed runs its statements to the end; nobody else
\* has to do anything.
FairSpec == Spec /\ \A t \in Threads : WF_vars(Statement(t))

-----------------------------------------------------------------------------
TypeOK ==
    /\ present \in SUBSET Items
    /\ item \in [Items -> [status : ItemStatus, naAccepted : BOOLEAN]]
    /\ doc \in [Docs -> DocStatus]
    /\ closed \in BOOLEAN
    /\ completeSent \in Nat
    /\ th \in [Threads -> Thread]
    /\ owed \in BOOLEAN
    /\ crashes \in 0..MaxCrashes

(***************************************************************************)
(* Safety, whatever the workers' interleaving                              *)
(***************************************************************************)

(* The sender sees "Zaakceptowany" only when no file of the item still     *)
(* waits for a decision: a file that arrives during accept is either       *)
(* caught by its second statement or makes the item "Dostarczony" again.   *)
(* What keeps this true without a lock is the order of the statements:     *)
(* upload_for_item writes the row, then the item; accept the item, then    *)
(* the rows.  (A worker killed in between breaks it.)                      *)
AcceptedIsReviewed ==
    crashes = 0 =>
        \A d \in Docs :
            doc[d] = "uploaded" /\ Status(ItemOf[d]) = "zaakceptowany" =>
                \E t \in Threads :
                    \/ th[t].pc = "stored" /\ th[t].doc = d
                    \/ th[t].pc = "accept_docs" /\ th[t].item = ItemOf[d]

(* When a recipient's own step completes the request, the "komplet" email  *)
(* is tried by some worker: of two workers that deliver the last two items *)
(* at once, at least one sees both delivered, because each looks after it  *)
(* wrote (_maybe_send_complete_email at the end of the handlers).          *)
CompleteEmailNotForgotten ==
    crashes = 0 /\ owed => \E t \in Threads : th[t].pc \in {"saved", "mailing"}

(* And so the email is tried: a recipient who completed the request is not *)
(* left without it for good, unless the sender's or the recipient's next   *)
(* step makes the request incomplete again.                                *)
CompleteEmailTried == owed ~> ~owed

(* "Already sent?" (services.py:172) is tested and not locked, and the test *)
(* of an extra document is made before its transaction shows: racing        *)
(* workers repeat the "komplet" email, but only those that were past the    *)
(* test when the first was logged.  Never more of them are logged than      *)
(* there are workers, and one with a single worker, however often the       *)
(* request becomes incomplete and complete again.                           *)
CompleteEmailsBounded == completeSent <= Cardinality(Threads)

(* The limit of files of one item is tested and not locked: racing uploads *)
(* overshoot it, but by at most one file per other worker.                 *)
FilesWithinLimit ==
    \A i \in Items :
        Cardinality(Files(i)) <= MaxFiles + Cardinality(Threads) - 1

(* Closing stops the recipient: after close, files and items change only   *)
(* by the sender's decisions and by requests that were read while the      *)
(* request was still open.                                                 *)
ClosedStopsRecipient ==
    [][\A t \in Threads :
          (closed /\ th'[t] # th[t] /\ <<present, item, doc>>' # <<present, item, doc>>)
              => \/ th[t].openAtRead
                 \/ th[t].pc \in {"accept", "accept_docs", "reject",
                                  "reject_docs"}]_vars

(***************************************************************************)
(* Safety when requests are served one at a time (a single worker)         *)
(***************************************************************************)
Quiet == \A t \in Threads : th[t].pc = "idle"

(* Between requests the files and their item agree: a file waiting for a   *)
(* decision belongs to a delivered item, an accepted file to an accepted   *)
(* item, and a delivered file item has some file.                          *)
FilesMatchItem ==
    crashes = 0 /\ Quiet =>
        /\ \A d \in Docs :
            /\ doc[d] = "uploaded" => Status(ItemOf[d]) = "dostarczony"
            /\ doc[d] = "accepted" => Status(ItemOf[d]) = "zaakceptowany"
        /\ \A i \in present \ Confirms :
            Status(i) = "dostarczony" => Files(i) # {}

(***************************************************************************)
(* What the repository says and the code does not do                       *)
(***************************************************************************)

(* "Done for the recipient: sent, accepted" (requests/services.py:67): a   *)
(* delivered file item has a current file.                                 *)
DeliveredHasCurrentFile ==
    Quiet => \A i \in present \ Confirms :
        Status(i) = "dostarczony" => \E d \in Files(i) : doc[d] = "uploaded"

=============================================================================
