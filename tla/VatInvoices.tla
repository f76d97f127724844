---------------------------- MODULE VatInvoices ----------------------------
(***************************************************************************)
(* VAT invoices for payments taken by Stripe, issued in inFakt             *)
(* (apps/billing/invoicing.py).                                            *)
(*                                                                         *)
(* queue_from_stripe stores one row per payment.  process, a task of every *)
(* minute, takes the unfinished rows one by one, each locked in its own    *)
(* transaction, and moves it one step: create the invoice in inFakt (an    *)
(* asynchronous job there), check the job, mail the PDF.  inFakt's webhook *)
(* may report the job first.  Requests to inFakt fail, and their answers   *)
(* get lost; a worker may be killed before its transaction commits.        *)
(***************************************************************************)
EXTENDS Naturals, Sequences, FiniteSets

CONSTANTS
    Payments,    \* paid Stripe invoices
    Workers,     \* Celery workers
    NoPayment,
    MaxAttempts, \* MAX_ATTEMPTS
    MaxFaults    \* bound: failed requests, lost answers and killed workers

InvoiceAssumption ==
    /\ MaxAttempts \in Nat \ {0}
    /\ MaxFaults \in Nat
    /\ NoPayment \notin Payments

VARIABLES
    paid,    \* Stripe: the payment was taken
    recent,  \* Stripe: it pays an invoice made in the last three days
    row,     \* the VatInvoice rows
    jobs,    \* inFakt: the asynchronous jobs of each payment, in their order
    mails,   \* invoice emails handed to the mail server
    wk,      \* the workers
    faults   \* history: what went wrong with each payment so far

vars == <<paid, recent, row, jobs, mails, wk, faults>>

Statuses == {"pending", "processing", "issued", "failed"}

\* task: which of the jobs the row points at (infakt_task), 0 for none.
Row == [status : Statuses \cup {"none"}, attempts : Nat, task : Nat,
        emailed : BOOLEAN]

NewRow == [status |-> "none", attempts |-> 0, task |-> 0, emailed |-> FALSE]

JobStates == {"running", "created", "refused"}

Worker == [todo : SUBSET Payments, hand : Payments \cup {NoPayment}, copy : Row]

Idle == [todo |-> {}, hand |-> NoPayment, copy |-> NewRow]

Init ==
    /\ paid = [p \in Payments |-> FALSE]
    /\ recent = [p \in Payments |-> FALSE]
    /\ row = [p \in Payments |-> NewRow]
    /\ jobs = [p \in Payments |-> <<>>]
    /\ mails = [p \in Payments |-> 0]
    /\ wk = [w \in Workers |-> Idle]
    /\ faults = [p \in Payments |-> 0]

-----------------------------------------------------------------------------
(* Stripe and the queue *)

\* At once, or by a card charged again days after it failed.
Pay(p, atOnce) ==
    /\ ~paid[p]
    /\ paid' = [paid EXCEPT ![p] = TRUE]
    /\ recent' = [recent EXCEPT ![p] = atOnce]
    /\ UNCHANGED <<row, jobs, mails, wk, faults>>

\* queue_from_stripe, from the webhook or from reconcile: nothing for a
\* payment that has its row already (stripe_invoice_id is unique).  The
\* webhook may come at any time, or never.
Queue(p) ==
    /\ paid[p]
    /\ row[p].status = "none"
    /\ row' = [row EXCEPT ![p].status = "pending"]
    /\ UNCHANGED <<paid, recent, jobs, mails, wk, faults>>

\* reconcile: what Stripe lists of the last three days.
Reconcile(p) == recent[p] /\ Queue(p)

-----------------------------------------------------------------------------
(* inFakt works on its jobs *)

JobDone(p, i, result) ==
    /\ jobs[p][i] = "running"
    /\ jobs' = [jobs EXCEPT ![p][i] = result]
    /\ UNCHANGED <<paid, recent, row, mails, wk, faults>>

-----------------------------------------------------------------------------
(* What a step does to the row it works on *)

\* _retry_later and, at MAX_ATTEMPTS, _fail.
RetryLater(q) ==
    [q EXCEPT !.attempts = @ + 1,
              !.status = IF q.attempts + 1 >= MaxAttempts THEN "failed" ELSE @]

\* _email_failed: the attempts count, the invoice stays issued.
EmailFailed(q) == [q EXCEPT !.attempts = @ + 1]

\* _apply_job with an answer about the invoice in hand.
ApplyJob(q, job) ==
    CASE job = "created" -> [q EXCEPT !.status = "issued", !.attempts = 0]
      [] job = "refused" -> [q EXCEPT !.status = "failed"]
      [] job = "running" -> q

-----------------------------------------------------------------------------
(* process *)

\* Mutant of Unfinished: a job's answer is left to the webhook.
UnfinishedUnasked(p) ==
    \/ row[p].status = "pending"
    \/ row[p].status = "issued" /\ ~row[p].emailed /\ row[p].attempts < MaxAttempts

Unfinished(p) ==
    \/ row[p].status \in {"pending", "processing"}
    \/ /\ row[p].status = "issued"
       /\ ~row[p].emailed
       /\ row[p].attempts < MaxAttempts

ProcessBegin(w) ==
    LET todo == {p \in Payments : Unfinished(p)} IN
    /\ wk[w] = Idle
    /\ todo # {}
    /\ wk' = [wk EXCEPT ![w].todo = todo]
    /\ UNCHANGED <<paid, recent, row, jobs, mails, faults>>

\* Mutant of Locked: the rows are read without select_for_update.
NotLocked(p) == FALSE

Locked(p) == \E w \in Workers : wk[w].hand = p

\* select_for_update(skip_locked) and a fresh look at the status.
Take(w, p) ==
    /\ wk[w].hand = NoPayment
    /\ p \in wk[w].todo
    /\ wk' = [wk EXCEPT ![w] =
                [todo |-> @.todo \ {p},
                 hand |-> IF Locked(p) \/ row[p].status = "failed"
                          THEN NoPayment ELSE p,
                 copy |-> IF Locked(p) \/ row[p].status = "failed"
                          THEN NewRow ELSE row[p]]]
    /\ UNCHANGED <<paid, recent, row, jobs, mails, faults>>

\* The transaction commits with q in the row of the payment in hand.
Commit(w, q) ==
    /\ row' = [row EXCEPT ![wk[w].hand] = q]
    /\ wk' = [wk EXCEPT ![w] = [@ EXCEPT !.hand = NoPayment, !.copy = NewRow]]

\* The worker is killed: nothing of the transaction remains.
Killed(w) ==
    /\ wk' = [wk EXCEPT ![w] = Idle]
    /\ UNCHANGED row

Fault(w) ==
    /\ faults[wk[w].hand] < MaxFaults
    /\ faults' = [faults EXCEPT ![wk[w].hand] = @ + 1]

NewJob(w) == jobs' = [jobs EXCEPT ![wk[w].hand] = Append(@, "running")]

\* _create: POST async/invoices.
Create(w) ==
    LET p == wk[w].hand
        q == wk[w].copy IN
    /\ p # NoPayment
    /\ q.status = "pending"
    /\ \/ /\ NewJob(w)
          /\ Commit(w, [q EXCEPT !.status = "processing",
                                 !.task = Len(jobs[p]) + 1])
          /\ UNCHANGED faults
       \/ /\ Commit(w, [q EXCEPT !.status = "failed"])        \* InfaktError
          /\ UNCHANGED <<jobs, faults>>
       \/ Fault(w) /\ UNCHANGED jobs /\ Commit(w, RetryLater(q))  \* not reached
       \/ Fault(w) /\ NewJob(w) /\ Commit(w, RetryLater(q))     \* answer lost
       \/ Fault(w) /\ NewJob(w) /\ Killed(w)
    /\ UNCHANGED <<paid, recent, mails>>

\* _check: GET async/invoices/status, and the invoice's number.
Check(w) ==
    LET p == wk[w].hand
        q == wk[w].copy IN
    /\ p # NoPayment
    /\ q.status = "processing"
    /\ \/ Commit(w, ApplyJob(q, jobs[p][q.task])) /\ UNCHANGED faults
       \/ Fault(w) /\ Commit(w, RetryLater(q))
       \/ Fault(w) /\ Commit(w, [q EXCEPT !.status = "failed"])  \* InfaktError
    /\ UNCHANGED <<paid, recent, jobs, mails>>

\* _email: the PDF from inFakt, then EmailService.send.
Email(w) ==
    LET p == wk[w].hand
        q == wk[w].copy
        mailed == mails' = [mails EXCEPT ![p] = @ + 1] IN
    /\ p # NoPayment
    /\ q.status = "issued"
    /\ ~q.emailed
    /\ \/ mailed /\ Commit(w, [q EXCEPT !.emailed = TRUE]) /\ UNCHANGED faults
       \/ Fault(w) /\ Commit(w, EmailFailed(q)) /\ UNCHANGED mails
       \/ Fault(w) /\ mailed /\ Killed(w)
    /\ UNCHANGED <<paid, recent, jobs>>

\* Somebody else finished the row after the list was read.
Nothing(w) ==
    /\ wk[w].hand # NoPayment
    /\ wk[w].copy.status = "issued"
    /\ wk[w].copy.emailed
    /\ Commit(w, wk[w].copy)
    /\ UNCHANGED <<paid, recent, jobs, mails, faults>>

-----------------------------------------------------------------------------
\* Mutant of Webhook: without the filter on the row's status.
WebhookAnyStatus(p) ==
    /\ row[p].task # 0
    /\ ~Locked(p)
    /\ jobs[p][row[p].task] # "running"
    /\ row' = [row EXCEPT ![p] = ApplyJob(@, jobs[p][@.task])]
    /\ UNCHANGED <<paid, recent, jobs, mails, wk, faults>>

\* handle_webhook: it waits for the row's lock; a webhook that comes before
\* the row has its task, comes late or never is one that changes nothing.
Webhook(p) ==
    /\ row[p].status = "processing"
    /\ ~Locked(p)
    /\ jobs[p][row[p].task] # "running"
    /\ row' = [row EXCEPT ![p] = ApplyJob(@, jobs[p][@.task])]
    /\ UNCHANGED <<paid, recent, jobs, mails, wk, faults>>

-----------------------------------------------------------------------------
Work(w) ==
    \/ ProcessBegin(w)
    \/ \E p \in Payments : Take(w, p)
    \/ Create(w) \/ Check(w) \/ Email(w) \/ Nothing(w)

InFakt(p) ==
    \E i \in DOMAIN jobs[p] : \E r \in {"created", "refused"} : JobDone(p, i, r)

Next ==
    \/ \E p \in Payments :
          \/ Queue(p) \/ InFakt(p) \/ Webhook(p)
          \/ \E atOnce \in BOOLEAN : Pay(p, atOnce)
    \/ \E w \in Workers : Work(w)

Spec == Init /\ [][Next]_vars

(***************************************************************************)
(* Celery runs process every minute and its statements to the end; three   *)
(* runs of the daily reconcile see a payment taken at once, one is assumed *)
(* to get through; inFakt finishes its jobs.                               *)
(***************************************************************************)
Fairness ==
    /\ \A w \in Workers : WF_vars(Work(w))
    /\ \A p \in Payments : WF_vars(Reconcile(p)) /\ WF_vars(InFakt(p))

FairSpec == Spec /\ Fairness

-----------------------------------------------------------------------------
TypeOK ==
    /\ paid \in [Payments -> BOOLEAN]
    /\ recent \in [Payments -> BOOLEAN]
    /\ row \in [Payments -> Row]
    /\ jobs \in [Payments -> Seq(JobStates)]
    /\ mails \in [Payments -> Nat]
    /\ wk \in [Workers -> Worker]
    /\ faults \in [Payments -> Nat]

Made(p) == {i \in DOMAIN jobs[p] : jobs[p][i] # "refused"}

ByHand(p) == IF row[p].status = "failed" THEN 1 ELSE 0

(* One VAT invoice per payment (invoicing.py: process): the invoices inFakt *)
(* made or is making, and the one the team is asked to make by hand, are    *)
(* together one - and one more for each request whose answer was lost and   *)
(* each worker killed, since inFakt is not told that a request is repeated. *)
InvoiceIssuedOnce ==
    \A p \in Payments : Cardinality(Made(p)) + ByHand(p) <= 1 + faults[p]

(* The invoice is mailed once, and once more for a worker killed between    *)
(* the mail and its commit (invoicing.py: _email under the row's lock).     *)
InvoiceMailedOnce == \A p \in Payments : mails[p] <= 1 + faults[p]

(* One VAT invoice per payment, and one email with it (see the two above;   *)
(* invoicing.py: process, _email).                                          *)
OneInvoicePerPayment == InvoiceIssuedOnce /\ InvoiceMailedOnce

-----------------------------------------------------------------------------
(* What the queue promises, without workers, jobs and attempts *)

Fate(p) ==
    CASE ~paid[p] -> "unpaid"
      [] paid[p] /\ row[p].status = "failed" -> "by hand"
      [] paid[p] /\ row[p].status = "issued" /\ row[p].emailed -> "delivered"
      [] paid[p] /\ row[p].status = "issued" /\ ~row[p].emailed -> "invoiced"
      [] OTHER -> "owed"

Promise == INSTANCE InvoicePromise WITH fate <- [p \in Payments |-> Fate(p)]

(* The detailed queue implements the abstract one: an invoice once issued   *)
(* is never owed or left to the team again, what was left to the team is    *)
(* not issued behind its back, and nothing is mailed before it is issued.   *)
KeepsPromise == Promise!Spec

\* A payment whose webhook never came, of a Stripe invoice reconcile does not
\* list any more.
Missed(p) == ~recent[p] /\ row[p].status = "none"

(* Every payment ends with its invoice, or with an alert to the team - but  *)
(* one taken more than three days after Stripe made its invoice, as a card  *)
(* charged again is, and of which no webhook came: "covers webhooks that    *)
(* never arrived" (invoicing.py:249) is said of the last days only.         *)
PaidIsSettled ==
    \A p \in Payments :
        paid[p] ~> Missed(p) \/ Fate(p) \in {"invoiced", "delivered", "by hand"}

=============================================================================
