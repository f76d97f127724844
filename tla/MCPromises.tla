---------------------------- MODULE MCPromises ----------------------------
(***************************************************************************)
(* What must happen in the end, on the smallest instances: every component *)
(* with a task of Celery's behind it, or a last statement that must not be *)
(* forgotten, under the fairness its module states.  The components run    *)
(* side by side, not as a product: the first state says which one moves.   *)
(***************************************************************************)
EXTENDS Invitations, TLC

CONSTANTS f, k, NoItem, NoDoc,
          NewsFiles, Answers, QuietTime, MaxDelay, MaxTime,
          Payments, NoPayment, MaxAttempts, MaxFaults,
          Documents

VARIABLES
    part,
    present, item, doc, closed, completeSent, th, owed, killed,
    clock, notice, komplet, rc, task, told, shared, lost, ends,
    paid, recent, vat, jobs, sent, issuer, faults,
    request, row, disk, old, worker, stops, orphan

\* A file item, here only answered "Nie dotyczy", and a "Zrobione" item.
L == INSTANCE ItemLifecycle WITH
        Items <- {f, k}, Confirms <- {k}, Extras <- {}, Docs <- {},
        ItemOf <- <<>>, Checksum <- <<>>,
        Threads <- Workers, MaxFiles <- 1, MaxExtra <- 0, MaxCrashes <- 0,
        crashes <- killed

N == INSTANCE UploadNotices WITH
        Files <- NewsFiles, Quiet <- QuietTime,
        Recipients <- {}, MaxCrashes <- 1, wk <- task, crashes <- ends

V == INSTANCE VatInvoices WITH row <- vat, mails <- sent, wk <- issuer

S == INSTANCE Storage WITH
        Docs <- Documents, MaxCrashes <- 1, crashes <- stops, lost <- orphan

ASSUME N!NoticeAssumption /\ V!InvoiceAssumption

itemVars == <<present, item, doc, closed, completeSent, th, owed, killed>>
noticeVars == <<clock, notice, komplet, rc, task, told, shared, lost, ends>>
invoiceVars == <<paid, recent, vat, jobs, sent, issuer, faults>>
fileVars == <<request, row, disk, old, worker, stops, orphan>>

\* Somebody who never stops uploading: a notice that is done with, and on no
\* worker's list, gives its place to the next one.
NextUpload(n) ==
    /\ notice[n].state = "gone" \/ notice[n].emailed
    /\ \A w \in Workers : n \notin task[w].list
    /\ notice' = [notice EXCEPT ![n] = N!NewNotice]
    /\ told' = [told EXCEPT ![n] = 0] /\ shared' = [shared EXCEPT ![n] = 0]
    /\ lost' = lost \ {n}
    /\ UNCHANGED <<clock, komplet, rc, task, ends>>

Earlier(t) == IF t > 1 THEN t - 1 ELSE t

\* The clock goes on for ever: time is counted from a minute later on.  Only
\* ages tell what is claimed, and from MaxDelay on they tell the same.
NextMinute ==
    /\ clock > 1
    /\ \A n \in NewsFiles : N!Unclaimed(n) /\ notice[n].at = 1 => clock - 2 >= MaxDelay
    /\ clock' = clock - 1
    /\ notice' = [n \in NewsFiles |-> [notice[n] EXCEPT !.at = Earlier(@)]]
    /\ task' = [w \in Workers |-> [task[w] EXCEPT !.first = Earlier(@)]]
    /\ UNCHANGED <<komplet, rc, told, shared, lost, ends>>

\* A "komplet" email and what the sender read in the panel decide what an
\* email lists, not what is claimed: here nobody reads, and none is sent.
OnlyClaimsMatter == komplet' = 0 /\ \A n \in NewsFiles : ~notice'[n].read

PartInit ==
    /\ part \in {"items", "invitations", "notices", "invoices", "files"}
    /\ Init /\ L!Init /\ N!Init /\ V!Init /\ S!Init
    /\ part # "invitations" => verified

PartNext ==
    /\ UNCHANGED part
    /\ \/ /\ part = "items" /\ L!Next
          /\ UNCHANGED <<vars, noticeVars, invoiceVars, fileVars>>
       \/ /\ part = "invitations" /\ Next
          /\ UNCHANGED <<itemVars, noticeVars, invoiceVars, fileVars>>
       \/ /\ part = "notices"
          /\ N!Next \/ NextMinute \/ \E n \in NewsFiles : NextUpload(n)
          /\ OnlyClaimsMatter
          /\ UNCHANGED <<vars, itemVars, invoiceVars, fileVars>>
       \/ /\ part = "invoices" /\ V!Next
          /\ UNCHANGED <<vars, itemVars, noticeVars, fileVars>>
       \/ /\ part = "files" /\ S!Next
          /\ UNCHANGED <<vars, itemVars, noticeVars, invoiceVars>>

\* The modules' own fairness, of the one that moves.
PartFairness ==
    /\ \A w \in Workers :
        /\ WF_itemVars(part = "items" /\ L!Statement(w))
        /\ WF_vars(part = "invitations" /\ Statement(w))
        /\ WF_noticeVars(part = "notices" /\ N!Task(w))
        /\ WF_invoiceVars(part = "invoices" /\ V!Work(w))
        /\ WF_fileVars(part = "files" /\ S!Step(w))
    /\ SF_vars(part = "invitations" /\ \E w \in Workers : QueueBegin(w))
    /\ WF_noticeVars(part = "notices" /\ N!Tick)
    /\ \A p \in Payments :
        /\ WF_invoiceVars(part = "invoices" /\ V!Reconcile(p))
        /\ WF_invoiceVars(part = "invoices" /\ V!InFakt(p))
    /\ SF_fileVars(part = "files" /\ \E w \in Workers : S!Retain(w))

PartSpec ==
    /\ PartInit
    /\ [][PartNext]_<<part, vars, itemVars, noticeVars, invoiceVars, fileVars>>
    /\ PartFairness

-----------------------------------------------------------------------------
(* The "komplet" email owed is tried; see ItemLifecycle.                    *)
CompleteEmailTried == L!CompleteEmailTried

(* News of a request reach its sender or are withdrawn; see UploadNotices.  *)
NewsIsWorkedOff == N!NewsIsWorkedOff

(* Every payment gets its invoice or the team's help, but one that neither  *)
(* the webhook nor reconcile saw; see VatInvoices.                          *)
PaidIsSettled == V!PaidIsSettled

(* No file outlives its retention period for ever; see Storage.             *)
ExpiredIsErased == S!ExpiredIsErased
=============================================================================
