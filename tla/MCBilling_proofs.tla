-------------------------- MODULE MCBilling_proofs --------------------------
(***************************************************************************)
(* Proofs about payments, for any number of customers, subscriptions,      *)
(* payments, workers, attempts and faults.                                 *)
(*                                                                         *)
(* Invoices.  The queue implements InvoicePromise, and makes and mails one *)
(* invoice for each payment and for each fault.  A worker's copy is the    *)
(* row as long as it has it (HandsOk), for no other has it (Apart); before *)
(* the invoice is issued the jobs that might have made one, but for the    *)
(* one the row points at, are answers that were lost (JobsCounted).        *)
(*                                                                         *)
(* The copy of a subscription.  From the read to the commit one worker has *)
(* the lock (HandOk): what it read is still so at Stripe, or an event not  *)
(* yet handled says otherwise (ReadOk), and so it is of the row (Synced).  *)
(* A customer is dropped only while it does not pay, but for an event not  *)
(* yet handled (DropOk), so whoever pays is the account's customer, is     *)
(* still to be handled, or was told of (Watched).                          *)
(*                                                                         *)
(* A deletion.  No try that may still erase the account passes over a      *)
(* subscription that was live when its list was read (ListOk); while one   *)
(* worker moves at a time, what is due - the time left that slipped past a *)
(* lost answer aside - is what went back, the credit, and what the worker  *)
(* has still to send (Balanced).                                           *)
(***************************************************************************)
EXTENDS MCBilling, Sequences, FiniteSetTheorems, TLAPS

-----------------------------------------------------------------------------
(* Invoices *)

Pays(p) == \E atOnce \in BOOLEAN : Pay(p, atOnce)

RowsPaid == \A p \in Payments : row[p].status # "none" => paid[p]

\* The job a row in processing points at.
TasksKnown ==
    \A p \in Payments : row[p].status = "processing" => row[p].task \in DOMAIN jobs[p]

HandsOk ==
    \A w \in Workers :
        /\ \A p \in wk[w].todo : row[p].status # "none"
        /\ wk[w].hand # NoPayment =>
              /\ wk[w].copy = row[wk[w].hand]
              /\ wk[w].copy.status # "none"

Apart == \A v, w \in Workers : v # w => wk[v].hand = NoPayment \/ wk[v].hand # wk[w].hand

\* The invoices made or being made that the row does not stand for.
Stray(p) ==
    IF row[p].status = "processing" THEN Made(p) \ {row[p].task} ELSE Made(p)

Allowed(p) == IF row[p].status = "issued" THEN faults[p] + 1 ELSE faults[p]

JobsCounted == \A p \in Payments : Cardinality(Stray(p)) <= Allowed(p)

MailsCounted ==
    \A p \in Payments : mails[p] <= IF row[p].emailed THEN faults[p] + 1 ELSE faults[p]

Control == TypeOK /\ RowsPaid /\ TasksKnown /\ HandsOk /\ Apart

IInv == Control /\ JobsCounted /\ MailsCounted

-----------------------------------------------------------------------------
(* Types *)

LEMMA IdleType == NewRow \in Row /\ Idle \in Worker
<1>1. NewRow \in Row
    BY DEF NewRow, Row, Statuses
<1> QED BY <1>1 DEF Idle, Worker

LEMMA RetryType ==
    ASSUME NEW q \in Row
    PROVE  /\ RetryLater(q) \in Row /\ RetryLater(q).task = q.task
           /\ RetryLater(q).status \in {"failed", q.status}
           /\ RetryLater(q).emailed = q.emailed
<1> DEFINE a == q.attempts + 1
           s == IF q.attempts + 1 >= MaxAttempts THEN "failed" ELSE q.status
<1>1. a \in Nat
    BY DEF Row
<1>2. s \in {"failed", q.status} /\ s \in Statuses \cup {"none"}
    BY DEF Row, Statuses
<1>3. RetryLater(q) = [q EXCEPT !.attempts = a, !.status = s]
    BY DEF RetryLater
<1> HIDE DEF a, s
<1> QED BY <1>1, <1>2, <1>3 DEF Row

LEMMA EmailFailedType ==
    ASSUME NEW q \in Row
    PROVE  /\ EmailFailed(q) \in Row /\ EmailFailed(q).task = q.task
           /\ EmailFailed(q).status = q.status
           /\ EmailFailed(q).emailed = q.emailed
BY DEF EmailFailed, Row, Statuses

LEMMA ApplyType ==
    ASSUME NEW q \in Row, NEW job \in JobStates
    PROVE  /\ ApplyJob(q, job) \in Row /\ ApplyJob(q, job).task = q.task
           /\ ApplyJob(q, job).emailed = q.emailed
           /\ ApplyJob(q, job).status = CASE job = "created" -> "issued"
                                          [] job = "refused" -> "failed"
                                          [] job = "running" -> q.status
<1>1. CASE job = "created"
    BY <1>1 DEF ApplyJob, Row, Statuses
<1>2. CASE job = "refused"
    BY <1>2 DEF ApplyJob, Row, Statuses
<1>3. CASE job = "running"
    BY <1>3 DEF ApplyJob, Row, Statuses
<1> QED BY <1>1, <1>2, <1>3 DEF JobStates

LEMMA AppendType ==
    ASSUME NEW s \in Seq(JobStates)
    PROVE  /\ Append(s, "running") \in Seq(JobStates)
           /\ Len(s) \in Nat /\ DOMAIN s = 1 .. Len(s)
           /\ Len(s) + 1 \in DOMAIN Append(s, "running")
           /\ \A i \in DOMAIN s : i \in DOMAIN Append(s, "running")
           /\ DOMAIN Append(s, "running") = DOMAIN s \cup {Len(s) + 1}
           /\ \A i \in DOMAIN s : Append(s, "running")[i] = s[i]
BY DEF JobStates

(* A commit ends the worker's hold of the row, which alone changes.        *)
LEMMA CommitType ==
    ASSUME TypeOK, NEW w \in Workers, wk[w].hand # NoPayment,
           NEW q \in Row, Commit(w, q)
    PROVE  /\ wk[w].hand \in Payments
           /\ row' \in [Payments -> Row]
           /\ wk' \in [Workers -> Worker]
           /\ row' = [row EXCEPT ![wk[w].hand] = q]
           /\ wk'[w].hand = NoPayment /\ wk'[w].todo = wk[w].todo
           /\ \A v \in Workers : v # w => wk'[v] = wk[v]
<1>1. wk[w] \in Worker
    BY DEF TypeOK
<1>2. wk[w].hand \in Payments
    BY <1>1 DEF Worker
<1>3. row' \in [Payments -> Row]
    BY <1>2 DEF Commit, TypeOK
<1>4. [wk[w] EXCEPT !.hand = NoPayment, !.copy = NewRow] \in Worker
    BY <1>1, IdleType DEF Worker
<1>5. wk' \in [Workers -> Worker]
    BY <1>4 DEF Commit, TypeOK
<1>6. /\ wk'[w].hand = NoPayment /\ wk'[w].todo = wk[w].todo
      /\ \A v \in Workers : v # w => wk'[v] = wk[v]
    BY <1>1 DEF Commit, TypeOK, Worker
<1> QED BY <1>2, <1>3, <1>5, <1>6 DEF Commit

-----------------------------------------------------------------------------
(* Rows, locks and copies *)

\* The rest of Control, once the variables keep their sets.
Linked == RowsPaid /\ TasksKnown /\ HandsOk /\ Apart

\* Jobs are added, not removed.
JobsKept == \A p \in Payments : DOMAIN jobs[p] \subseteq DOMAIN jobs'[p]

LEMMA CommitLinked ==
    ASSUME Control, NEW w \in Workers, wk[w].hand # NoPayment,
           NEW q \in Row, Commit(w, q), q.status # "none",
           q.status = "processing" => q.task \in DOMAIN jobs'[wk[w].hand],
           UNCHANGED <<paid, recent>>, JobsKept
    PROVE  Linked'
<1> DEFINE p == wk[w].hand
<1> USE DEF Control
<1>1. /\ p \in Payments /\ row' = [row EXCEPT ![p] = q]
      /\ row \in [Payments -> Row]
      /\ wk'[w].hand = NoPayment /\ wk'[w].todo = wk[w].todo
      /\ \A v \in Workers : v # w => wk'[v] = wk[v]
    BY CommitType DEF TypeOK
<1>2. RowsPaid'
    BY <1>1 DEF RowsPaid, HandsOk
<1>3. TasksKnown'
    BY <1>1 DEF TasksKnown, JobsKept
<1>4. Apart'
    BY <1>1 DEF Apart
<1>5. HandsOk'
    <2> SUFFICES ASSUME NEW v \in Workers
                 PROVE  /\ \A r \in wk'[v].todo : row'[r].status # "none"
                        /\ wk'[v].hand # NoPayment =>
                              /\ wk'[v].copy = row'[wk'[v].hand]
                              /\ wk'[v].copy.status # "none"
        BY DEF HandsOk
    <2>1. wk'[v].todo = wk[v].todo /\ wk[v].todo \subseteq Payments
        BY <1>1 DEF TypeOK, Worker
    <2>2. \A r \in wk'[v].todo : row'[r].status # "none"
        BY <1>1, <2>1 DEF HandsOk
    <2>3. wk'[v].hand # NoPayment => v # w /\ wk'[v] = wk[v] /\ wk[v].hand # p
        BY <1>1 DEF Apart
    <2>4. wk[v].hand \in Payments \cup {NoPayment}
        BY DEF TypeOK, Worker
    <2> QED BY <1>1, <2>2, <2>3, <2>4 DEF HandsOk
<1> QED BY <1>2, <1>3, <1>4, <1>5 DEF Linked

LEMMA KilledLinked ==
    ASSUME Control, NEW w \in Workers, Killed(w), UNCHANGED <<paid, recent>>, JobsKept
    PROVE  Linked' /\ row' = row /\ wk' \in [Workers -> Worker]
<1> USE DEF Control
<1>1. /\ row' = row /\ wk' = [wk EXCEPT ![w] = Idle]
      /\ wk \in [Workers -> Worker]
    BY DEF Killed, TypeOK
<1>2. wk' \in [Workers -> Worker]
    BY <1>1, IdleType
<1>3. RowsPaid' /\ TasksKnown'
    BY <1>1 DEF RowsPaid, TasksKnown, JobsKept
<1>4. /\ wk'[w].hand = NoPayment /\ wk'[w].todo = {}
      /\ \A v \in Workers : v # w => wk'[v] = wk[v]
    BY <1>1 DEF Idle
<1>5. HandsOk' /\ Apart'
    BY <1>1, <1>4 DEF HandsOk, Apart
<1> QED BY <1>1, <1>2, <1>3, <1>5 DEF Linked

LEMMA NewJobKept ==
    ASSUME TypeOK, NEW w \in Workers, wk[w].hand \in Payments, NewJob(w)
    PROVE  /\ JobsKept /\ jobs' \in [Payments -> Seq(JobStates)]
           /\ Len(jobs[wk[w].hand]) + 1 \in DOMAIN jobs'[wk[w].hand]
<1> DEFINE p == wk[w].hand
<1>1. jobs[p] \in Seq(JobStates) /\ jobs' = [jobs EXCEPT ![p] = Append(jobs[p], "running")]
    BY DEF TypeOK, NewJob
<1>2. /\ Append(jobs[p], "running") \in Seq(JobStates)
      /\ \A i \in DOMAIN jobs[p] : i \in DOMAIN Append(jobs[p], "running")
      /\ Len(jobs[p]) + 1 \in DOMAIN Append(jobs[p], "running")
    BY <1>1, AppendType
<1> QED BY <1>1, <1>2 DEF TypeOK, JobsKept

LEMMA FaultType ==
    ASSUME TypeOK, NEW w \in Workers, wk[w].hand \in Payments, Fault(w)
    PROVE  faults' \in [Payments -> Nat]
BY DEF TypeOK, Fault

(* The worker has a row, and its copy is the row.                          *)
LEMMA InHand ==
    ASSUME Control, NEW w \in Workers, wk[w].hand # NoPayment
    PROVE  /\ wk[w].hand \in Payments /\ wk[w].copy = row[wk[w].hand]
           /\ wk[w].copy \in Row /\ wk[w].copy.status # "none"
           /\ jobs[wk[w].hand] \in Seq(JobStates)
           /\ wk[w].copy.status = "processing" =>
                 /\ wk[w].copy.task \in DOMAIN jobs[wk[w].hand]
                 /\ jobs[wk[w].hand][wk[w].copy.task] \in JobStates
<1>1. wk[w] \in Worker
    BY DEF Control, TypeOK
<1>2. wk[w].hand \in Payments /\ wk[w].copy \in Row
    BY <1>1 DEF Worker
<1>3. wk[w].copy = row[wk[w].hand] /\ wk[w].copy.status # "none"
    BY DEF Control, HandsOk
<1>4. jobs[wk[w].hand] \in Seq(JobStates)
    BY <1>2 DEF Control, TypeOK
<1>5. wk[w].copy.status = "processing" => wk[w].copy.task \in DOMAIN jobs[wk[w].hand]
    BY <1>2, <1>3 DEF Control, TasksKnown
<1> QED BY <1>2, <1>3, <1>4, <1>5

LEMMA CreateControl ==
    ASSUME Control, NEW w \in Workers, Create(w)
    PROVE  Control'
<1> DEFINE p == wk[w].hand
           q == wk[w].copy
<1>1. /\ p # NoPayment /\ p \in Payments /\ q \in Row /\ q.status = "pending"
      /\ jobs[p] \in Seq(JobStates)
    BY InHand DEF Create
<1>2. UNCHANGED <<paid, recent>> /\ mails' = mails
    BY DEF Create
<1>3. faults' \in [Payments -> Nat]
    BY <1>1, FaultType DEF Create, Control, TypeOK
<1>4. JobsKept /\ jobs' \in [Payments -> Seq(JobStates)]
    BY <1>1, NewJobKept DEF Create, JobsKept, Control, TypeOK
<1>5. CASE Killed(w)
    BY <1>2, <1>3, <1>4, <1>5, KilledLinked DEF Control, TypeOK, Linked
<1>6. ASSUME NEW r \in Row, Commit(w, r), r.status # "none",
             r.status = "processing" => r.task \in DOMAIN jobs'[p]
      PROVE  Control'
    <2>1. Linked'
        BY <1>1, <1>2, <1>4, <1>6, CommitLinked
    <2>2. row' \in [Payments -> Row] /\ wk' \in [Workers -> Worker]
        BY <1>1, <1>6, CommitType DEF Control
    <2> QED BY <1>2, <1>3, <1>4, <2>1, <2>2 DEF Control, TypeOK, Linked
<1>7. CASE NewJob(w) /\ Commit(w, [q EXCEPT !.status = "processing", !.task = Len(jobs[p]) + 1])
    <2> DEFINE r == [q EXCEPT !.status = "processing", !.task = Len(jobs[p]) + 1]
    <2>1. Len(jobs[p]) + 1 \in Nat
        BY <1>1, AppendType
    <2>2. r \in Row /\ r.task = Len(jobs[p]) + 1 /\ r.status = "processing"
        BY <1>1, <2>1 DEF Row, Statuses
    <2>3. r.task \in DOMAIN jobs'[p]
        BY <1>1, <1>7, <2>2, NewJobKept DEF Control
    <2> QED BY <1>6, <1>7, <2>2, <2>3
<1>8. CASE Commit(w, [q EXCEPT !.status = "failed"])
    <2>1. [q EXCEPT !.status = "failed"] \in Row /\ [q EXCEPT !.status = "failed"].status = "failed"
        BY <1>1 DEF Row, Statuses
    <2> QED BY <1>6, <1>8, <2>1
<1>9. CASE Commit(w, RetryLater(q))
    <2>1. RetryLater(q) \in Row /\ RetryLater(q).status \in {"failed", "pending"}
        BY <1>1, RetryType
    <2> QED BY <1>6, <1>9, <2>1
<1> QED BY <1>5, <1>7, <1>8, <1>9 DEF Create

LEMMA CheckControl ==
    ASSUME Control, NEW w \in Workers, Check(w)
    PROVE  Control'
<1> DEFINE p == wk[w].hand
           q == wk[w].copy
<1>1. /\ p # NoPayment /\ p \in Payments /\ q \in Row /\ q.status = "processing"
      /\ q.task \in DOMAIN jobs[p] /\ jobs[p][q.task] \in JobStates
    BY InHand DEF Check
<1>2. UNCHANGED <<paid, recent>> /\ mails' = mails /\ jobs' = jobs /\ JobsKept
    BY DEF Check, JobsKept
<1>3. faults' \in [Payments -> Nat]
    BY <1>1, FaultType DEF Check, Control, TypeOK
<1>6. ASSUME NEW r \in Row, Commit(w, r), r.status # "none", r.task = q.task
      PROVE  Control'
    <2>1. Linked'
        BY <1>1, <1>2, <1>6, CommitLinked
    <2>2. row' \in [Payments -> Row] /\ wk' \in [Workers -> Worker]
        BY <1>1, <1>6, CommitType DEF Control
    <2> QED BY <1>2, <1>3, <2>1, <2>2 DEF Control, TypeOK, Linked
<1>7. CASE Commit(w, ApplyJob(q, jobs[p][q.task]))
    <2>1. /\ ApplyJob(q, jobs[p][q.task]) \in Row
          /\ ApplyJob(q, jobs[p][q.task]).task = q.task
          /\ ApplyJob(q, jobs[p][q.task]).status # "none"
        BY <1>1, ApplyType DEF JobStates
    <2> QED BY <1>6, <1>7, <2>1
<1>8. CASE Commit(w, [q EXCEPT !.status = "failed"])
    <2>1. /\ [q EXCEPT !.status = "failed"] \in Row
          /\ [q EXCEPT !.status = "failed"].status = "failed"
          /\ [q EXCEPT !.status = "failed"].task = q.task
        BY <1>1 DEF Row, Statuses
    <2> QED BY <1>6, <1>8, <2>1
<1>9. CASE Commit(w, RetryLater(q))
    <2>1. /\ RetryLater(q) \in Row /\ RetryLater(q).status \in {"failed", "processing"}
          /\ RetryLater(q).task = q.task
        BY <1>1, RetryType
    <2> QED BY <1>6, <1>9, <2>1
<1> QED BY <1>7, <1>8, <1>9 DEF Check

LEMMA EmailControl ==
    ASSUME Control, NEW w \in Workers, Email(w) \/ Nothing(w)
    PROVE  Control'
<1> DEFINE p == wk[w].hand
           q == wk[w].copy
<1>1. p # NoPayment /\ p \in Payments /\ q \in Row /\ q.status = "issued"
    BY InHand DEF Email, Nothing
<1>2. UNCHANGED <<paid, recent>> /\ jobs' = jobs /\ JobsKept
    BY DEF Email, Nothing, JobsKept
<1>3. faults' \in [Payments -> Nat]
    BY <1>1, FaultType DEF Email, Nothing, Control, TypeOK
<1>4. mails' \in [Payments -> Nat]
    <2>1. mails' = mails \/ mails' = [mails EXCEPT ![p] = @ + 1]
        BY DEF Email, Nothing
    <2>2. mails \in [Payments -> Nat]
        BY DEF Control, TypeOK
    <2> HIDE DEF p
    <2> QED BY <1>1, <2>1, <2>2
<1>5. CASE Killed(w)
    BY <1>2, <1>3, <1>4, <1>5, KilledLinked DEF Control, TypeOK, Linked
<1>6. ASSUME NEW r \in Row, Commit(w, r), r.status = "issued"
      PROVE  Control'
    <2>1. Linked'
        BY <1>1, <1>2, <1>6, CommitLinked
    <2>2. row' \in [Payments -> Row] /\ wk' \in [Workers -> Worker]
        BY <1>1, <1>6, CommitType DEF Control
    <2> QED BY <1>2, <1>3, <1>4, <2>1, <2>2 DEF Control, TypeOK, Linked
<1>7. CASE Commit(w, [q EXCEPT !.emailed = TRUE])
    <2>1. /\ [q EXCEPT !.emailed = TRUE] \in Row
          /\ [q EXCEPT !.emailed = TRUE].status = "issued"
        BY <1>1 DEF Row
    <2> QED BY <1>6, <1>7, <2>1
<1>8. CASE Commit(w, EmailFailed(q))
    <2>1. EmailFailed(q) \in Row /\ EmailFailed(q).status = "issued"
        BY <1>1, EmailFailedType
    <2> QED BY <1>6, <1>8, <2>1
<1>9. CASE Commit(w, q)
    BY <1>1, <1>6, <1>9
<1> QED BY <1>5, <1>7, <1>8, <1>9 DEF Email, Nothing

LEMMA TakeControl ==
    ASSUME Control, NEW w \in Workers, NEW p \in Payments, ProcessBegin(w) \/ Take(w, p)
    PROVE  Control'
<1> USE DEF Control
<1>1. UNCHANGED <<paid, recent, row, jobs, mails, faults>>
    BY DEF ProcessBegin, Take
<1>2. CASE ProcessBegin(w)
    <2> DEFINE t == {r \in Payments : Unfinished(r)}
    <2>1. wk[w] = Idle /\ wk' = [wk EXCEPT ![w] = [Idle EXCEPT !.todo = t]]
        BY <1>2 DEF ProcessBegin
    <2>2. [Idle EXCEPT !.todo = t] \in Worker
        BY IdleType DEF Worker
    <2>3. wk' \in [Workers -> Worker]
        BY <2>1, <2>2 DEF TypeOK
    <2>4. /\ wk'[w].hand = NoPayment /\ wk'[w].todo = t
          /\ \A v \in Workers : v # w => wk'[v] = wk[v]
        BY <2>1 DEF TypeOK, Idle
    <2>5. \A r \in t : row[r].status # "none"
        BY DEF Unfinished
    <2>6. HandsOk' /\ Apart'
        BY <1>1, <2>4, <2>5 DEF HandsOk, Apart
    <2> QED BY <1>1, <2>3, <2>6 DEF TypeOK, RowsPaid, TasksKnown
<1>3. CASE Take(w, p)
    <2> DEFINE free == ~(Locked(p) \/ row[p].status = "failed")
               t == wk[w].todo \ {p}
               new == [todo |-> t, hand |-> IF free THEN p ELSE NoPayment,
                       copy |-> IF free THEN row[p] ELSE NewRow]
    <2>1. /\ wk[w].hand = NoPayment /\ p \in wk[w].todo
          /\ wk' = [wk EXCEPT ![w] = new]
        BY <1>3 DEF Take
    <2>2. wk[w] \in Worker /\ row[p] \in Row
        BY DEF TypeOK
    <2>3. new \in Worker
        BY <2>2, IdleType DEF Worker
    <2>4. wk' \in [Workers -> Worker] /\ wk'[w] = new
          /\ \A v \in Workers : v # w => wk'[v] = wk[v]
        BY <2>1, <2>3 DEF TypeOK
    <2>5. HandsOk'
        BY <1>1, <2>1, <2>4 DEF HandsOk
    <2>6. Apart'
        BY <2>4 DEF Apart, Locked
    <2> QED BY <1>1, <2>4, <2>5, <2>6 DEF TypeOK, RowsPaid, TasksKnown
<1> QED BY <1>2, <1>3

(* What happens outside the workers.                                       *)
LEMMA OutsideControl ==
    ASSUME InvoiceAssumption, Control, NEW p \in Payments,
           Pays(p) \/ Queue(p) \/ InFakt(p) \/ Webhook(p)
    PROVE  Control'
<1> USE DEF Control
<1>1. CASE Pays(p)
    BY <1>1 DEF Pays, Pay, TypeOK, RowsPaid, TasksKnown, HandsOk, Apart
<1>2. CASE Queue(p)
    <2>1. /\ row' = [row EXCEPT ![p] = [row[p] EXCEPT !.status = "pending"]]
          /\ row[p].status = "none" /\ row[p] \in Row /\ paid[p]
          /\ UNCHANGED <<paid, recent, jobs, mails, wk, faults>>
        BY <1>2 DEF Queue, TypeOK
    <2>2. /\ [row[p] EXCEPT !.status = "pending"] \in Row
          /\ [row[p] EXCEPT !.status = "pending"].status = "pending"
        BY <2>1 DEF Row, Statuses
    <2>3. row' \in [Payments -> Row]
        BY <2>1, <2>2 DEF TypeOK
    <2>4. \A w \in Workers : wk[w].hand # p
        BY <2>1 DEF HandsOk, InvoiceAssumption
    <2>5. HandsOk'
        BY <2>1, <2>2, <2>4 DEF HandsOk, TypeOK, Worker
    <2> QED BY <2>1, <2>2, <2>3, <2>5 DEF TypeOK, RowsPaid, TasksKnown, Apart
<1>3. CASE InFakt(p)
    <2>1. PICK i \in DOMAIN jobs[p], r \in {"created", "refused"} : JobDone(p, i, r)
        BY <1>3 DEF InFakt
    <2>2. /\ jobs' = [jobs EXCEPT ![p] = [jobs[p] EXCEPT ![i] = r]]
          /\ jobs[p] \in Seq(JobStates) /\ r \in JobStates
          /\ UNCHANGED <<paid, recent, row, mails, wk, faults>>
        BY <2>1 DEF JobDone, TypeOK, JobStates
    <2>3. /\ [jobs[p] EXCEPT ![i] = r] \in Seq(JobStates)
          /\ DOMAIN [jobs[p] EXCEPT ![i] = r] = DOMAIN jobs[p]
        BY <2>1, <2>2
    <2> QED BY <2>2, <2>3 DEF TypeOK, RowsPaid, TasksKnown, HandsOk, Apart
<1>4. CASE Webhook(p)
    <2> DEFINE job == jobs[p][row[p].task]
               q == ApplyJob(row[p], job)
    <2>1. /\ row' = [row EXCEPT ![p] = q] /\ row[p].status = "processing" /\ ~Locked(p)
          /\ row[p] \in Row /\ UNCHANGED <<paid, recent, jobs, mails, wk, faults>>
        BY <1>4 DEF Webhook, TypeOK
    <2>2. row[p].task \in DOMAIN jobs[p] /\ job \in JobStates
        BY <2>1 DEF TasksKnown, TypeOK
    <2>3. q \in Row /\ q.task = row[p].task /\ q.status \in {"issued", "failed", "processing"}
        BY <2>1, <2>2, ApplyType DEF JobStates
    <2> HIDE DEF q
    <2>4. row' \in [Payments -> Row]
        BY <2>1, <2>3 DEF TypeOK
    <2>5. \A w \in Workers : wk[w].hand # p
        BY <2>1 DEF Locked
    <2>6. HandsOk'
        BY <2>1, <2>3, <2>5 DEF HandsOk, TypeOK, Worker
    <2>7. RowsPaid' /\ TasksKnown'
        BY <2>1, <2>2, <2>3 DEF RowsPaid, TasksKnown, TypeOK
    <2> QED BY <2>1, <2>4, <2>6, <2>7 DEF TypeOK, Apart
<1> QED BY <1>1, <1>2, <1>3, <1>4

LEMMA ControlStep ==
    ASSUME InvoiceAssumption, Control, [Next]_vars
    PROVE  Control'
<1>1. CASE UNCHANGED vars
    BY <1>1 DEF vars, Control, TypeOK, RowsPaid, TasksKnown, HandsOk, Apart
<1>2. ASSUME NEW p \in Payments, Pays(p) \/ Queue(p) \/ InFakt(p) \/ Webhook(p)
      PROVE  Control'
    BY <1>2, OutsideControl
<1>3. ASSUME NEW w \in Workers, Work(w)
      PROVE  Control'
    <2>1. CASE ProcessBegin(w)
        <3>1. \E p \in Payments : TRUE
            BY <2>1 DEF ProcessBegin
        <3> QED BY <2>1, <3>1, TakeControl
    <2>2. CASE \E p \in Payments : Take(w, p)
        BY <2>2, TakeControl
    <2> QED BY <1>3, <2>1, <2>2, CreateControl, CheckControl, EmailControl DEF Work
<1> QED BY <1>1, <1>2, <1>3 DEF Next, Pays

-----------------------------------------------------------------------------
(* Refinement *)

Fates == [p \in Payments |-> Fate(p)]

LEMMA FateOf ==
    ASSUME NEW p \in Payments
    PROVE  /\ ~paid[p] => Fate(p) = "unpaid"
           /\ paid[p] /\ row[p].status = "failed" => Fate(p) = "by hand"
           /\ paid[p] /\ row[p].status = "issued" =>
                 Fate(p) = IF row[p].emailed THEN "delivered" ELSE "invoiced"
           /\ paid[p] /\ row[p].status \notin {"failed", "issued"} => Fate(p) = "owed"
BY DEF Fate

LEMMA FateOfNext ==
    ASSUME NEW p \in Payments
    PROVE  /\ ~paid'[p] => Fate(p)' = "unpaid"
           /\ paid'[p] /\ row'[p].status = "failed" => Fate(p)' = "by hand"
           /\ paid'[p] /\ row'[p].status = "issued" =>
                 Fate(p)' = IF row'[p].emailed THEN "delivered" ELSE "invoiced"
           /\ paid'[p] /\ row'[p].status \notin {"failed", "issued"} => Fate(p)' = "owed"
BY DEF Fate

\* The turns a fate may take.
Turns(from, to) ==
    \/ from = to
    \/ from = "unpaid" /\ to = "owed"
    \/ from = "owed" /\ to \in {"invoiced", "by hand"}
    \/ from = "invoiced" /\ to = "delivered"

(* A step that changes the fate of one payment by a turn is a step of the  *)
(* promise.                                                                *)
LEMMA OneTurn ==
    ASSUME NEW p \in Payments, Turns(Fate(p), Fate(p)'),
           \A r \in Payments : r # p => Fate(r)' = Fate(r)
    PROVE  [Promise!Next]_Fates
<1>1. Fates' = [Fates EXCEPT ![p] = Fate(p)']
    BY DEF Fates
<1>2. Fates[p] = Fate(p)
    BY DEF Fates
<1>3. CASE Fate(p)' = Fate(p)
    BY <1>1, <1>3 DEF Fates
<1>4. CASE Fate(p) = "unpaid" /\ Fate(p)' = "owed"
    <2>1. Promise!Pay(p)
        BY <1>1, <1>2, <1>4 DEF Promise!Pay, Promise!Turn, Fates
    <2> QED BY <2>1 DEF Promise!Next
<1>5. CASE Fate(p) = "owed" /\ Fate(p)' = "invoiced"
    <2>1. Promise!Issue(p)
        BY <1>1, <1>2, <1>5 DEF Promise!Issue, Promise!Turn, Fates
    <2> QED BY <2>1 DEF Promise!Next
<1>6. CASE Fate(p) = "owed" /\ Fate(p)' = "by hand"
    <2>1. Promise!GiveUp(p)
        BY <1>1, <1>2, <1>6 DEF Promise!GiveUp, Promise!Turn, Fates
    <2> QED BY <2>1 DEF Promise!Next
<1>7. CASE Fate(p) = "invoiced" /\ Fate(p)' = "delivered"
    <2>1. Promise!Deliver(p)
        BY <1>1, <1>2, <1>7 DEF Promise!Deliver, Promise!Turn, Fates
    <2> QED BY <2>1 DEF Promise!Next
<1> QED BY <1>3, <1>4, <1>5, <1>6, <1>7 DEF Turns

MailedIssued == \A p \in Payments : row[p].emailed => row[p].status = "issued"

\* How a row may change: an issued one only by its email.
Moves(old, q) ==
    \/ q.status = old.status /\ q.emailed = old.emailed
    \/ old.status \in {"none", "pending", "processing"} /\ q.emailed = old.emailed
    \/ old.status = "issued" /\ q.status = "issued" /\ ~old.emailed

RowMoves ==
    \/ row' = row
    \/ \E p \in Payments, q \in Row : row' = [row EXCEPT ![p] = q] /\ Moves(row[p], q)

LEMMA CommitMoves ==
    ASSUME TypeOK, NEW w \in Workers, wk[w].hand \in Payments,
           NEW q \in Row, Commit(w, q), Moves(row[wk[w].hand], q)
    PROVE  RowMoves
BY DEF Commit, RowMoves

(* Every worker's step moves the row it has in hand as it may.             *)
LEMMA WorkMoves ==
    ASSUME Control, NEW w \in Workers, Work(w)
    PROVE  RowMoves
<1> DEFINE p == wk[w].hand
           q == wk[w].copy
<1>1. CASE ProcessBegin(w) \/ \E r \in Payments : Take(w, r)
    BY <1>1 DEF ProcessBegin, Take, RowMoves
<1>2. CASE Killed(w)
    BY <1>2 DEF Killed, RowMoves
<1>3. CASE Create(w) /\ ~Killed(w)
    <2>1. p \in Payments /\ q \in Row /\ q = row[p] /\ q.status = "pending" /\ TypeOK
        BY <1>3, InHand DEF Create, Control
    <2>2. CASE Commit(w, [q EXCEPT !.status = "processing", !.task = Len(jobs[p]) + 1])
        <3> DEFINE r == [q EXCEPT !.status = "processing", !.task = Len(jobs[p]) + 1]
        <3>1. Len(jobs[p]) + 1 \in Nat
            BY <2>1, AppendType DEF TypeOK
        <3>2. r \in Row /\ r.emailed = q.emailed
            BY <2>1, <3>1 DEF Row, Statuses
        <3>3. Moves(row[p], r)
            BY <2>1, <3>2 DEF Moves
        <3> QED BY <2>1, <2>2, <3>2, <3>3, CommitMoves
    <2>3. CASE Commit(w, [q EXCEPT !.status = "failed"])
        <3> DEFINE r == [q EXCEPT !.status = "failed"]
        <3>1. r \in Row /\ r.emailed = q.emailed
            BY <2>1 DEF Row, Statuses
        <3>2. Moves(row[p], r)
            BY <2>1, <3>1 DEF Moves
        <3> QED BY <2>1, <2>3, <3>1, <3>2, CommitMoves
    <2>4. CASE Commit(w, RetryLater(q))
        <3>1. RetryLater(q) \in Row /\ Moves(row[p], RetryLater(q))
            BY <2>1, RetryType DEF Moves
        <3> QED BY <2>1, <2>4, <3>1, CommitMoves
    <2> QED BY <1>3, <2>2, <2>3, <2>4 DEF Create
<1>4. CASE Check(w)
    <2>1. /\ p \in Payments /\ q \in Row /\ q = row[p] /\ q.status = "processing" /\ TypeOK
          /\ jobs[p][q.task] \in JobStates
        BY <1>4, InHand DEF Check, Control
    <2>2. CASE Commit(w, ApplyJob(q, jobs[p][q.task]))
        <3>1. /\ ApplyJob(q, jobs[p][q.task]) \in Row
              /\ Moves(row[p], ApplyJob(q, jobs[p][q.task]))
            BY <2>1, ApplyType DEF Moves
        <3> QED BY <2>1, <2>2, <3>1, CommitMoves
    <2>3. CASE Commit(w, [q EXCEPT !.status = "failed"])
        <3> DEFINE r == [q EXCEPT !.status = "failed"]
        <3>1. r \in Row /\ r.emailed = q.emailed
            BY <2>1 DEF Row, Statuses
        <3>2. Moves(row[p], r)
            BY <2>1, <3>1 DEF Moves
        <3> QED BY <2>1, <2>3, <3>1, <3>2, CommitMoves
    <2>4. CASE Commit(w, RetryLater(q))
        <3>1. RetryLater(q) \in Row /\ Moves(row[p], RetryLater(q))
            BY <2>1, RetryType DEF Moves
        <3> QED BY <2>1, <2>4, <3>1, CommitMoves
    <2> QED BY <1>4, <2>2, <2>3, <2>4 DEF Check
<1>5. CASE (Email(w) \/ Nothing(w)) /\ ~Killed(w)
    <2>1. p \in Payments /\ q \in Row /\ q = row[p] /\ q.status = "issued" /\ TypeOK
        BY <1>5, InHand DEF Email, Nothing, Control
    <2>2. CASE ~q.emailed /\ Commit(w, [q EXCEPT !.emailed = TRUE])
        <3> DEFINE r == [q EXCEPT !.emailed = TRUE]
        <3>1. r \in Row /\ r.status = q.status
            BY <2>1 DEF Row
        <3>2. Moves(row[p], r)
            BY <2>1, <2>2, <3>1 DEF Moves
        <3> QED BY <2>1, <2>2, <3>1, <3>2, CommitMoves
    <2>3. CASE Commit(w, EmailFailed(q))
        <3>1. EmailFailed(q) \in Row /\ Moves(row[p], EmailFailed(q))
            BY <2>1, EmailFailedType DEF Moves
        <3> QED BY <2>1, <2>3, <3>1, CommitMoves
    <2>4. CASE Commit(w, q)
        <3>1. Moves(row[p], q)
            BY <2>1 DEF Moves
        <3> QED BY <2>1, <2>4, <3>1, CommitMoves
    <2> QED BY <1>5, <2>2, <2>3, <2>4 DEF Email, Nothing
<1> QED BY <1>1, <1>2, <1>3, <1>4, <1>5 DEF Work

LEMMA OutsideMoves ==
    ASSUME Control, NEW p \in Payments, Queue(p) \/ InFakt(p) \/ Webhook(p)
    PROVE  RowMoves
<1>1. CASE Queue(p)
    <2> DEFINE q == [row[p] EXCEPT !.status = "pending"]
    <2>1. row' = [row EXCEPT ![p] = q] /\ row[p].status = "none" /\ row[p] \in Row
        BY <1>1 DEF Queue, Control, TypeOK
    <2>2. q \in Row /\ q.emailed = row[p].emailed
        BY <2>1 DEF Row, Statuses
    <2>3. Moves(row[p], q)
        BY <2>1, <2>2 DEF Moves
    <2> QED BY <2>1, <2>2, <2>3 DEF RowMoves
<1>2. CASE InFakt(p)
    BY <1>2 DEF InFakt, JobDone, RowMoves
<1>3. CASE Webhook(p)
    <2> DEFINE q == ApplyJob(row[p], jobs[p][row[p].task])
    <2>1. row' = [row EXCEPT ![p] = q] /\ row[p].status = "processing" /\ row[p] \in Row
        BY <1>3 DEF Webhook, Control, TypeOK
    <2>2. jobs[p][row[p].task] \in JobStates
        BY <2>1 DEF Control, TasksKnown, TypeOK
    <2>3. q \in Row /\ q.emailed = row[p].emailed
        BY <2>1, <2>2, ApplyType
    <2> HIDE DEF q
    <2>4. Moves(row[p], q)
        BY <2>1, <2>3 DEF Moves
    <2> QED BY <2>1, <2>3, <2>4 DEF RowMoves
<1> QED BY <1>1, <1>2, <1>3

(* One row changes: its fate turns with it.                                *)
LEMMA RowTurn ==
    ASSUME TypeOK, MailedIssued, RowMoves, UNCHANGED <<paid, recent>>
    PROVE  [Promise!Next]_Fates /\ MailedIssued'
<1>1. CASE row' = row
    BY <1>1 DEF Fates, Fate, MailedIssued
<1>2. ASSUME NEW p \in Payments, NEW q \in Row,
             row' = [row EXCEPT ![p] = q], Moves(row[p], q)
      PROVE  [Promise!Next]_Fates /\ MailedIssued'
    <2>1. row'[p] = q /\ \A r \in Payments : r # p => row'[r] = row[r]
        BY <1>2 DEF TypeOK
    <2>2. row[p].emailed => row[p].status = "issued"
        BY DEF MailedIssued
    <2>3. q.emailed => q.status = "issued"
        BY <1>2, <2>2 DEF Moves
    <2>4. MailedIssued'
        BY <2>1, <2>3 DEF MailedIssued
    <2>5. \A r \in Payments : r # p => Fate(r)' = Fate(r)
        BY <2>1 DEF Fate
    <2>6. CASE ~paid[p]
        <3>1. Fate(p) = "unpaid" /\ Fate(p)' = "unpaid"
            BY <2>6, FateOf, FateOfNext
        <3> QED BY <2>4, <2>5, <3>1, OneTurn DEF Turns
    <2>7. CASE paid[p] /\ q.status = row[p].status /\ q.emailed = row[p].emailed
        <3>1. Fate(p)' = Fate(p)
            BY <2>1, <2>7 DEF Fate
        <3> QED BY <2>4, <2>5, <3>1, OneTurn DEF Turns
    <2>8. CASE /\ paid[p] /\ row[p].status \in {"none", "pending", "processing"}
               /\ q.emailed = row[p].emailed
        <3>1. ~q.emailed
            BY <2>2, <2>8
        <3>2. Fate(p) = "owed"
            BY <2>8, FateOf
        <3>3. Fate(p)' \in {"owed", "invoiced", "by hand"}
            BY <2>1, <2>8, <3>1, FateOfNext
        <3> QED BY <2>4, <2>5, <3>2, <3>3, OneTurn DEF Turns
    <2>9. CASE paid[p] /\ row[p].status = "issued" /\ q.status = "issued" /\ ~row[p].emailed
        <3>1. Fate(p) = "invoiced"
            BY <2>9, FateOf
        <3>2. Fate(p)' \in {"invoiced", "delivered"}
            BY <2>1, <2>9, FateOfNext
        <3> QED BY <2>4, <2>5, <3>1, <3>2, OneTurn DEF Turns
    <2> QED BY <1>2, <2>6, <2>7, <2>8, <2>9 DEF Moves
<1> QED BY <1>1, <1>2 DEF RowMoves

LEMMA PayTurn ==
    ASSUME TypeOK, RowsPaid, MailedIssued, NEW p \in Payments, Pays(p)
    PROVE  [Promise!Next]_Fates /\ MailedIssued'
<1>1. /\ ~paid[p] /\ paid'[p] /\ row' = row
      /\ \A r \in Payments : r # p => paid'[r] = paid[r]
    BY DEF Pays, Pay, TypeOK
<1>2. row[p].status = "none"
    BY <1>1 DEF RowsPaid
<1>3. Fate(p) = "unpaid" /\ Fate(p)' = "owed"
    BY <1>1, <1>2, FateOf, FateOfNext
<1>4. \A r \in Payments : r # p => Fate(r)' = Fate(r)
    BY <1>1 DEF Fate
<1>5. MailedIssued'
    BY <1>1 DEF MailedIssued
<1> QED BY <1>3, <1>4, <1>5, OneTurn DEF Turns

(* Every step of the queue is a step of the promise, or stutters.          *)
LEMMA PromiseStep ==
    ASSUME Control, MailedIssued, [Next]_vars
    PROVE  [Promise!Next]_Fates /\ MailedIssued'
<1> USE DEF Control
<1>1. CASE UNCHANGED vars
    BY <1>1 DEF vars, Fates, Fate, MailedIssued
<1>2. ASSUME NEW p \in Payments, Pays(p)
      PROVE  [Promise!Next]_Fates /\ MailedIssued'
    BY <1>2, PayTurn
<1>3. ASSUME NEW p \in Payments, Queue(p) \/ InFakt(p) \/ Webhook(p)
      PROVE  [Promise!Next]_Fates /\ MailedIssued'
    <2>1. UNCHANGED <<paid, recent>>
        BY <1>3 DEF Queue, InFakt, JobDone, Webhook
    <2> QED BY <1>3, <2>1, OutsideMoves, RowTurn
<1>4. ASSUME NEW w \in Workers, Work(w)
      PROVE  [Promise!Next]_Fates /\ MailedIssued'
    <2>1. UNCHANGED <<paid, recent>>
        BY <1>4 DEF Work, ProcessBegin, Take, Create, Check, Email, Nothing
    <2> QED BY <1>4, <2>1, WorkMoves, RowTurn
<1> QED BY <1>1, <1>2, <1>3, <1>4 DEF Next, Pays

-----------------------------------------------------------------------------
(* Counting the invoices *)

LEMMA FiniteDomain ==
    ASSUME NEW s \in Seq(JobStates)
    PROVE  IsFiniteSet(DOMAIN s)
<1>1. DOMAIN s = 1 .. Len(s) /\ Len(s) \in Int
    OBVIOUS
<1>2. IsFiniteSet(1 .. Len(s))
    BY <1>1, FS_Interval
<1> QED BY <1>1, <1>2

LEMMA MadeFinite ==
    ASSUME NEW p \in Payments
    PROVE  /\ TypeOK => IsFiniteSet(Made(p)) /\ IsFiniteSet(Stray(p))
           /\ TypeOK' => IsFiniteSet(Made(p)') /\ IsFiniteSet(Stray(p)')
<1>1. ASSUME TypeOK
      PROVE  IsFiniteSet(Made(p)) /\ IsFiniteSet(Stray(p))
    <2>1. jobs[p] \in Seq(JobStates)
        BY <1>1 DEF TypeOK
    <2>3. IsFiniteSet(DOMAIN jobs[p])
        BY <2>1, FiniteDomain
    <2>4. Made(p) \in SUBSET DOMAIN jobs[p] /\ Stray(p) \in SUBSET DOMAIN jobs[p]
        BY DEF Made, Stray
    <2> QED BY <2>3, <2>4, FS_Subset
<1>2. ASSUME TypeOK'
      PROVE  IsFiniteSet(Made(p)') /\ IsFiniteSet(Stray(p)')
    <2>1. jobs'[p] \in Seq(JobStates)
        BY <1>2 DEF TypeOK
    <2>3. IsFiniteSet(DOMAIN jobs'[p])
        BY <2>1, FiniteDomain
    <2>4. Made(p)' \in SUBSET DOMAIN jobs'[p] /\ Stray(p)' \in SUBSET DOMAIN jobs'[p]
        BY DEF Made, Stray
    <2> QED BY <2>3, <2>4, FS_Subset
<1> QED BY <1>1, <1>2

LEMMA OneMoreCounts ==
    ASSUME NEW S, IsFiniteSet(S), NEW x, NEW T \in SUBSET (S \cup {x})
    PROVE  Cardinality(T) <= Cardinality(S) + 1
<1>1. /\ IsFiniteSet(S \cup {x})
      /\ Cardinality(S \cup {x}) = IF x \in S THEN Cardinality(S) ELSE Cardinality(S) + 1
    BY FS_AddElement
<1>2. Cardinality(S) \in Nat
    BY FS_CardinalityType
<1>3. IsFiniteSet(T) /\ Cardinality(T) <= Cardinality(S \cup {x})
    BY <1>1, FS_Subset
<1>4. Cardinality(T) \in Nat /\ Cardinality(S \cup {x}) \in Nat
    BY <1>1, <1>3, FS_CardinalityType
<1> QED BY <1>1, <1>2, <1>3, <1>4

\* A payment the step leaves alone.
Untouched(p) == row'[p] = row[p] /\ jobs'[p] = jobs[p] /\ faults'[p] = faults[p]

(* Nothing more is made, or one more for a fault, or one is in the row.    *)
LEMMA CountStep ==
    ASSUME TypeOK, TypeOK', JobsCounted, NEW p \in Payments,
           \A r \in Payments : r # p => Untouched(r),
           \/ Stray(p)' \subseteq Stray(p) /\ Allowed(p)' >= Allowed(p)
           \/ /\ \E x : Stray(p)' \subseteq Stray(p) \cup {x}
              /\ Allowed(p)' = Allowed(p) + 1
    PROVE  JobsCounted'
<1>1. ASSUME NEW r \in Payments, r # p
      PROVE  Cardinality(Stray(r)') <= Allowed(r)'
    <2>1. Stray(r)' = Stray(r) /\ Allowed(r)' = Allowed(r)
        BY <1>1 DEF Untouched, Stray, Made, Allowed
    <2> QED BY <2>1 DEF JobsCounted
<1>2. Cardinality(Stray(p)') <= Allowed(p)'
    <2>1. /\ IsFiniteSet(Stray(p)) /\ IsFiniteSet(Stray(p)')
          /\ Cardinality(Stray(p)) \in Nat /\ Cardinality(Stray(p)') \in Nat
        BY MadeFinite, FS_CardinalityType
    <2>2. Allowed(p) \in Nat /\ Allowed(p)' \in Nat
        BY DEF Allowed, TypeOK
    <2>3. Cardinality(Stray(p)) <= Allowed(p)
        BY DEF JobsCounted
    <2>4. CASE Stray(p)' \subseteq Stray(p) /\ Allowed(p)' >= Allowed(p)
        <3>1. Cardinality(Stray(p)') <= Cardinality(Stray(p))
            BY <2>1, <2>4, FS_Subset
        <3> QED BY <2>1, <2>2, <2>3, <2>4, <3>1
    <2>5. CASE /\ \E x : Stray(p)' \subseteq Stray(p) \cup {x}
               /\ Allowed(p)' = Allowed(p) + 1
        <3>1. Cardinality(Stray(p)') <= Cardinality(Stray(p)) + 1
            BY <2>1, <2>5, OneMoreCounts
        <3> QED BY <2>1, <2>2, <2>3, <2>5, <3>1
    <2> QED BY <2>4, <2>5
<1> QED BY <1>1, <1>2 DEF JobsCounted

(* A new job is the one after the last.                                    *)
LEMMA NewJobMade ==
    ASSUME TypeOK, NEW w \in Workers, NEW p \in Payments, p = wk[w].hand, NewJob(w)
    PROVE  /\ Made(p)' \subseteq Made(p) \cup {Len(jobs[p]) + 1}
           /\ \A r \in Payments : r # p => jobs'[r] = jobs[r]
<1>1. jobs[p] \in Seq(JobStates) /\ jobs' = [jobs EXCEPT ![p] = Append(jobs[p], "running")]
    BY DEF TypeOK, NewJob
<1>2. jobs'[p] = Append(jobs[p], "running")
    BY <1>1 DEF TypeOK
<1>3. /\ DOMAIN jobs'[p] = DOMAIN jobs[p] \cup {Len(jobs[p]) + 1}
      /\ \A i \in DOMAIN jobs[p] : jobs'[p][i] = jobs[p][i]
    BY <1>1, <1>2, AppendType
<1>4. Made(p)' \subseteq Made(p) \cup {Len(jobs[p]) + 1}
    BY <1>3 DEF Made
<1> QED BY <1>1, <1>4 DEF TypeOK

LEMMA FaultCounts ==
    ASSUME TypeOK, NEW w \in Workers, NEW p \in Payments, p = wk[w].hand, Fault(w)
    PROVE  /\ faults'[p] = faults[p] + 1
           /\ \A r \in Payments : r # p => faults'[r] = faults[r]
BY DEF TypeOK, Fault

(* An answer about the job: made at last it is the row's own, refused it   *)
(* was none.                                                               *)
LEMMA ApplyCounts ==
    ASSUME TypeOK, NEW p \in Payments, row[p].status = "processing",
           row[p].task \in DOMAIN jobs[p],
           row' = [row EXCEPT ![p] = ApplyJob(row[p], jobs[p][row[p].task])],
           jobs' = jobs, faults' = faults
    PROVE  /\ \A r \in Payments : r # p => Untouched(r)
           /\ \/ Stray(p)' \subseteq Stray(p) /\ Allowed(p)' >= Allowed(p)
              \/ /\ \E x : Stray(p)' \subseteq Stray(p) \cup {x}
                 /\ Allowed(p)' = Allowed(p) + 1
<1> DEFINE job == jobs[p][row[p].task]
           q == ApplyJob(row[p], job)
<1>1. row[p] \in Row /\ job \in JobStates /\ faults[p] \in Nat
    BY DEF TypeOK
<1>2. row'[p] = q /\ \A r \in Payments : r # p => row'[r] = row[r]
    BY DEF TypeOK
<1>3. /\ q.task = row[p].task
      /\ job = "created" => q.status = "issued"
      /\ job = "refused" => q.status = "failed"
      /\ job = "running" => q.status = "processing"
    <2> HIDE DEF job
    <2> QED BY <1>1, ApplyType
<1> HIDE DEF q
<1>4. \A r \in Payments : r # p => Untouched(r)
    BY <1>2 DEF Untouched
<1>5. Made(p)' = Made(p) /\ Stray(p) = Made(p) \ {row[p].task} /\ Allowed(p) = faults[p]
    BY DEF Made, Stray, Allowed
<1>6. CASE job = "created"
    <2>1. Stray(p)' = Made(p) /\ Allowed(p)' = faults[p] + 1
        BY <1>2, <1>3, <1>5, <1>6 DEF Stray, Allowed
    <2> QED BY <1>4, <1>5, <2>1
<1>7. CASE job = "refused"
    <2>1. Stray(p)' = Made(p) /\ Allowed(p)' = faults[p]
        BY <1>2, <1>3, <1>5, <1>7 DEF Stray, Allowed
    <2>2. row[p].task \notin Made(p)
        BY <1>7 DEF Made
    <2> QED BY <1>1, <1>4, <1>5, <2>1, <2>2
<1>8. CASE job = "running"
    <2>1. Stray(p)' = Stray(p) /\ Allowed(p)' = faults[p]
        BY <1>2, <1>3, <1>5, <1>8 DEF Stray, Allowed
    <2> QED BY <1>1, <1>4, <1>5, <2>1
<1> QED BY <1>1, <1>6, <1>7, <1>8 DEF JobStates

\* What CountStep asks of the payment that is touched.
Counts(p) ==
    \/ Stray(p)' \subseteq Stray(p) /\ Allowed(p)' >= Allowed(p)
    \/ /\ \E x : Stray(p)' \subseteq Stray(p) \cup {x}
       /\ Allowed(p)' = Allowed(p) + 1

(* The row committed in place of the payment's: what it is a matter of.    *)
LEMMA CommitCounts ==
    ASSUME TypeOK, NEW w \in Workers, NEW p \in Payments, p = wk[w].hand,
           NEW q \in Row, Commit(w, q)
    PROVE  /\ row'[p] = q
           /\ \A r \in Payments : r # p => row'[r] = row[r]
           /\ Stray(p)' = IF q.status = "processing" THEN Made(p)' \ {q.task} ELSE Made(p)'
           /\ Allowed(p)' = IF q.status = "issued" THEN faults'[p] + 1 ELSE faults'[p]
<1>1. row'[p] = q /\ \A r \in Payments : r # p => row'[r] = row[r]
    BY DEF Commit, TypeOK
<1> QED BY <1>1 DEF Stray, Allowed

LEMMA CreateCounts ==
    ASSUME Control, NEW w \in Workers, NEW p \in Payments, p = wk[w].hand, Create(w)
    PROVE  (\A r \in Payments : r # p => Untouched(r)) /\ Counts(p)
<1> DEFINE q == wk[w].copy
           n == Len(jobs[p]) + 1
<1>1. /\ q \in Row /\ q = row[p] /\ q.status = "pending" /\ TypeOK
      /\ p # NoPayment /\ jobs[p] \in Seq(JobStates) /\ faults[p] \in Nat
    BY InHand DEF Create, Control, TypeOK
<1>2. Stray(p) = Made(p) /\ Allowed(p) = faults[p]
    BY <1>1 DEF Stray, Allowed
<1>3. CASE NewJob(w) /\ Commit(w, [q EXCEPT !.status = "processing", !.task = n]) /\ faults' = faults
    <2> DEFINE r == [q EXCEPT !.status = "processing", !.task = n]
    <2>1. r \in Row /\ r.status = "processing" /\ r.task = n
        <3>1. n \in Nat
            BY <1>1, AppendType
        <3> HIDE DEF n
        <3> QED BY <1>1, <3>1 DEF Row, Statuses
    <2>2. Stray(p)' = Made(p)' \ {n} /\ Allowed(p)' = faults[p]
        <3>1. Commit(w, r) /\ faults' = faults
            BY <1>3
        <3> HIDE DEF r, n
        <3> QED BY <1>1, <2>1, <3>1, CommitCounts
    <2>3. Stray(p)' \subseteq Stray(p)
        BY <1>1, <1>2, <1>3, <2>2, NewJobMade
    <2>4. \A k \in Payments : k # p => Untouched(k)
        BY <1>1, <1>3, <2>1, CommitCounts, NewJobMade DEF Untouched
    <2> QED BY <1>1, <1>2, <2>2, <2>3, <2>4 DEF Counts
<1>4. CASE Commit(w, [q EXCEPT !.status = "failed"]) /\ jobs' = jobs /\ faults' = faults
    <2> DEFINE r == [q EXCEPT !.status = "failed"]
    <2>1. r \in Row /\ r.status = "failed"
        BY <1>1 DEF Row, Statuses
    <2>2. Stray(p)' = Made(p) /\ Allowed(p)' = faults[p]
        BY <1>1, <1>4, <2>1, CommitCounts DEF Made
    <2>3. \A k \in Payments : k # p => Untouched(k)
        BY <1>1, <1>4, <2>1, CommitCounts DEF Untouched
    <2> QED BY <1>1, <1>2, <2>2, <2>3 DEF Counts
<1>5. CASE Fault(w) /\ Commit(w, RetryLater(q)) /\ (jobs' = jobs \/ NewJob(w))
    <2>1. RetryLater(q) \in Row /\ RetryLater(q).status \in {"failed", "pending"}
        BY <1>1, RetryType
    <2>2. Stray(p)' = Made(p)' /\ Allowed(p)' = faults[p] + 1
        BY <1>1, <1>5, <2>1, CommitCounts, FaultCounts
    <2>3. Made(p)' \subseteq Made(p) \cup {n} /\ \A k \in Payments : k # p => jobs'[k] = jobs[k]
        BY <1>1, <1>5, NewJobMade DEF Made
    <2>4. \A k \in Payments : k # p => Untouched(k)
        BY <1>1, <1>5, <2>1, <2>3, CommitCounts, FaultCounts DEF Untouched
    <2> QED BY <1>2, <2>2, <2>3, <2>4 DEF Counts
<1>6. CASE Fault(w) /\ NewJob(w) /\ Killed(w)
    <2>1. row' = row
        BY <1>6 DEF Killed
    <2>2. Stray(p)' = Made(p)' /\ Allowed(p)' = faults[p] + 1
        BY <1>1, <1>6, <2>1, FaultCounts DEF Stray, Allowed
    <2>3. Made(p)' \subseteq Made(p) \cup {n}
        BY <1>1, <1>6, NewJobMade
    <2>4. \A k \in Payments : k # p => Untouched(k)
        BY <1>1, <1>6, <2>1, NewJobMade, FaultCounts DEF Untouched
    <2> QED BY <1>2, <2>2, <2>3, <2>4 DEF Counts
<1> QED BY <1>3, <1>4, <1>5, <1>6 DEF Create

LEMMA CheckCounts ==
    ASSUME Control, NEW w \in Workers, NEW p \in Payments, p = wk[w].hand, Check(w)
    PROVE  (\A r \in Payments : r # p => Untouched(r)) /\ Counts(p)
<1> DEFINE q == wk[w].copy
<1>1. /\ q \in Row /\ q = row[p] /\ q.status = "processing" /\ TypeOK
      /\ p # NoPayment /\ faults[p] \in Nat /\ q.task \in DOMAIN jobs[p]
    BY InHand DEF Check, Control, TypeOK
<1>2. Stray(p) = Made(p) \ {q.task} /\ Allowed(p) = faults[p]
    BY <1>1 DEF Stray, Allowed
<1>3. jobs' = jobs /\ Made(p)' = Made(p)
    BY DEF Check, Made
<1>4. CASE Commit(w, ApplyJob(q, jobs[p][q.task])) /\ faults' = faults
    <2>1. row' = [row EXCEPT ![p] = ApplyJob(row[p], jobs[p][row[p].task])]
        BY <1>1, <1>4 DEF Commit
    <2> QED BY <1>1, <1>3, <1>4, <2>1, ApplyCounts DEF Counts
<1>5. CASE Fault(w) /\ Commit(w, RetryLater(q))
    <2>1. /\ RetryLater(q) \in Row /\ RetryLater(q).status \in {"failed", "processing"}
          /\ RetryLater(q).task = q.task
        BY <1>1, RetryType
    <2>2. Stray(p)' \subseteq Stray(p) \cup {q.task} /\ Allowed(p)' = faults[p] + 1
        BY <1>1, <1>2, <1>3, <1>5, <2>1, CommitCounts, FaultCounts
    <2>3. \A k \in Payments : k # p => Untouched(k)
        BY <1>1, <1>3, <1>5, <2>1, CommitCounts, FaultCounts DEF Untouched
    <2> QED BY <1>2, <2>2, <2>3 DEF Counts
<1>6. CASE Fault(w) /\ Commit(w, [q EXCEPT !.status = "failed"])
    <2> DEFINE r == [q EXCEPT !.status = "failed"]
    <2>1. r \in Row /\ r.status = "failed"
        BY <1>1 DEF Row, Statuses
    <2>2. Stray(p)' \subseteq Stray(p) \cup {q.task} /\ Allowed(p)' = faults[p] + 1
        <3>1. Commit(w, r) /\ Fault(w)
            BY <1>6
        <3> HIDE DEF r
        <3> QED BY <1>1, <1>2, <1>3, <2>1, <3>1, CommitCounts, FaultCounts
    <2>3. \A k \in Payments : k # p => Untouched(k)
        BY <1>1, <1>3, <1>6, <2>1, CommitCounts, FaultCounts DEF Untouched
    <2> QED BY <1>2, <2>2, <2>3 DEF Counts
<1> QED BY <1>4, <1>5, <1>6 DEF Check

LEMMA EmailCounts ==
    ASSUME Control, NEW w \in Workers, NEW p \in Payments, p = wk[w].hand,
           Email(w) \/ Nothing(w)
    PROVE  (\A r \in Payments : r # p => Untouched(r)) /\ Counts(p)
<1> DEFINE q == wk[w].copy
<1>1. /\ q \in Row /\ q = row[p] /\ q.status = "issued" /\ TypeOK
      /\ p # NoPayment /\ faults[p] \in Nat
    BY InHand DEF Email, Nothing, Control, TypeOK
<1>2. Stray(p) = Made(p) /\ Allowed(p) = faults[p] + 1
    BY <1>1 DEF Stray, Allowed
<1>3. jobs' = jobs /\ Made(p)' = Made(p)
    BY DEF Email, Nothing, Made
<1>4. /\ faults'[p] \in Nat /\ faults'[p] >= faults[p]
      /\ \A r \in Payments : r # p => faults'[r] = faults[r]
    <2>1. CASE Fault(w)
        BY <1>1, <2>1, FaultCounts
    <2>2. CASE faults' = faults
        BY <1>1, <2>2
    <2> QED BY <2>1, <2>2 DEF Email, Nothing
<1>5. ASSUME NEW r \in Row, Commit(w, r), r.status = "issued"
      PROVE  (\A k \in Payments : k # p => Untouched(k)) /\ Counts(p)
    <2>1. Stray(p)' = Made(p) /\ Allowed(p)' = faults'[p] + 1
        BY <1>1, <1>3, <1>5, CommitCounts
    <2>2. Allowed(p)' >= Allowed(p)
        BY <1>1, <1>2, <1>4, <2>1
    <2>3. \A k \in Payments : k # p => Untouched(k)
        BY <1>1, <1>3, <1>4, <1>5, CommitCounts DEF Untouched
    <2> QED BY <1>2, <2>1, <2>2, <2>3 DEF Counts
<1>6. CASE Commit(w, [q EXCEPT !.emailed = TRUE])
    <2>1. [q EXCEPT !.emailed = TRUE] \in Row /\ [q EXCEPT !.emailed = TRUE].status = "issued"
        BY <1>1 DEF Row
    <2> QED BY <1>5, <1>6, <2>1
<1>7. CASE Commit(w, EmailFailed(q))
    <2>1. EmailFailed(q) \in Row /\ EmailFailed(q).status = "issued"
        BY <1>1, EmailFailedType
    <2> QED BY <1>5, <1>7, <2>1
<1>8. CASE Commit(w, q)
    BY <1>1, <1>5, <1>8
<1>9. CASE Killed(w)
    <2>1. row' = row
        BY <1>9 DEF Killed
    <2>2. Stray(p)' = Made(p) /\ Allowed(p)' = faults'[p] + 1
        BY <1>1, <1>3, <2>1 DEF Stray, Allowed
    <2>3. \A k \in Payments : k # p => Untouched(k)
        BY <1>3, <1>4, <2>1 DEF Untouched
    <2>4. Allowed(p)' >= Allowed(p)
        BY <1>1, <1>2, <1>4, <2>2
    <2> QED BY <1>2, <2>2, <2>3, <2>4 DEF Counts
<1> QED BY <1>6, <1>7, <1>8, <1>9 DEF Email, Nothing

LEMMA WorkCounts ==
    ASSUME InvoiceAssumption, Control, Control', JobsCounted, NEW w \in Workers, Work(w)
    PROVE  JobsCounted'
<1>1. CASE ProcessBegin(w) \/ \E r \in Payments : Take(w, r)
    BY <1>1 DEF ProcessBegin, Take, JobsCounted, Stray, Made, Allowed
<1>2. CASE Create(w) \/ Check(w) \/ Email(w) \/ Nothing(w)
    <2>1. wk[w].hand \in Payments
        BY <1>2, InHand DEF Create, Check, Email, Nothing
    <2>2. PICK p \in Payments : p = wk[w].hand
        BY <2>1
    <2>3. (\A r \in Payments : r # p => Untouched(r)) /\ Counts(p)
        BY <1>2, <2>2, CreateCounts, CheckCounts, EmailCounts
    <2> QED BY <2>3, CountStep DEF Counts, Control
<1> QED BY <1>1, <1>2 DEF Work

LEMMA OutsideCounts ==
    ASSUME InvoiceAssumption, Control, Control', JobsCounted, NEW p \in Payments,
           Pays(p) \/ Queue(p) \/ InFakt(p) \/ Webhook(p)
    PROVE  JobsCounted'
<1> USE DEF Control
<1>1. CASE Pays(p)
    BY <1>1 DEF Pays, Pay, JobsCounted, Stray, Made, Allowed
<1>2. CASE Queue(p)
    <2>1. /\ row' = [row EXCEPT ![p] = [row[p] EXCEPT !.status = "pending"]]
          /\ row[p].status = "none" /\ row[p] \in Row
          /\ jobs' = jobs /\ faults' = faults
        BY <1>2 DEF Queue, TypeOK
    <2>2. row'[p].status = "pending" /\ \A r \in Payments : r # p => row'[r] = row[r]
        BY <2>1 DEF TypeOK, Row
    <2>3. \A r \in Payments : Stray(r)' = Stray(r) /\ Allowed(r)' = Allowed(r)
        BY <2>1, <2>2 DEF Stray, Made, Allowed
    <2> QED BY <2>3 DEF JobsCounted
<1>3. CASE InFakt(p)
    <2>1. PICK i \in DOMAIN jobs[p], r \in {"created", "refused"} : JobDone(p, i, r)
        BY <1>3 DEF InFakt
    <2>2. /\ jobs' = [jobs EXCEPT ![p] = [jobs[p] EXCEPT ![i] = r]]
          /\ jobs[p][i] = "running" /\ row' = row /\ faults' = faults
        BY <2>1 DEF JobDone
    <2>3. /\ jobs'[p] = [jobs[p] EXCEPT ![i] = r]
          /\ \A k \in Payments : k # p => Untouched(k)
        BY <2>2 DEF TypeOK, Untouched
    <2>4. Made(p)' \subseteq Made(p)
        BY <2>2, <2>3 DEF Made
    <2>5. Stray(p)' \subseteq Stray(p) /\ Allowed(p)' = Allowed(p) /\ Allowed(p) \in Nat
        BY <2>2, <2>4 DEF Stray, Allowed, TypeOK
    <2> QED BY <2>3, <2>5, CountStep
<1>4. CASE Webhook(p)
    <2>1. row[p].status = "processing" /\ row[p].task \in DOMAIN jobs[p]
        BY <1>4 DEF Webhook, TasksKnown
    <2>2. /\ row' = [row EXCEPT ![p] = ApplyJob(row[p], jobs[p][row[p].task])]
          /\ jobs' = jobs /\ faults' = faults
        BY <1>4 DEF Webhook
    <2>3. (\A r \in Payments : r # p => Untouched(r)) /\ Counts(p)
        BY <2>1, <2>2, ApplyCounts DEF Counts
    <2> QED BY <2>3, CountStep DEF Counts
<1> QED BY <1>1, <1>2, <1>3, <1>4

-----------------------------------------------------------------------------
(* Counting the emails *)

LEMMA EmailMails ==
    ASSUME Control, MailsCounted, NEW w \in Workers, Email(w)
    PROVE  MailsCounted'
<1> DEFINE q == wk[w].copy
<1>1. PICK p \in Payments : p = wk[w].hand
    BY InHand DEF Email
<1>2. /\ q \in Row /\ q = row[p] /\ ~q.emailed /\ TypeOK
      /\ p # NoPayment /\ faults[p] \in Nat /\ mails[p] \in Nat
    BY <1>1, InHand DEF Email, Control, TypeOK
<1>3. mails[p] <= faults[p]
    BY <1>2 DEF MailsCounted
<1>4. CASE mails' = [mails EXCEPT ![p] = @ + 1] /\ Commit(w, [q EXCEPT !.emailed = TRUE]) /\ faults' = faults
    <2> DEFINE r == [q EXCEPT !.emailed = TRUE]
    <2>1. r \in Row /\ r.emailed
        BY <1>2 DEF Row
    <2>2. row'[p].emailed /\ \A k \in Payments : k # p => row'[k] = row[k]
        <3>1. Commit(w, r)
            BY <1>4
        <3> HIDE DEF r
        <3> QED BY <1>1, <1>2, <2>1, <3>1, CommitCounts
    <2>3. mails'[p] <= faults'[p] + 1 /\ \A k \in Payments : k # p => mails'[k] = mails[k]
        BY <1>2, <1>3, <1>4 DEF TypeOK
    <2> QED BY <1>4, <2>2, <2>3 DEF MailsCounted
<1>5. CASE Fault(w) /\ Commit(w, EmailFailed(q)) /\ mails' = mails
    <2>1. EmailFailed(q) \in Row /\ ~EmailFailed(q).emailed
        BY <1>2, EmailFailedType
    <2>2. ~row'[p].emailed /\ \A k \in Payments : k # p => row'[k] = row[k]
        BY <1>1, <1>2, <1>5, <2>1, CommitCounts
    <2>3. faults'[p] = faults[p] + 1 /\ \A k \in Payments : k # p => faults'[k] = faults[k]
        BY <1>1, <1>2, <1>5, FaultCounts
    <2>4. mails'[p] <= faults'[p]
        BY <1>2, <1>3, <1>5, <2>3
    <2> QED BY <1>5, <2>2, <2>3, <2>4 DEF MailsCounted
<1>6. CASE Fault(w) /\ mails' = [mails EXCEPT ![p] = @ + 1] /\ Killed(w)
    <2>1. row' = row
        BY <1>6 DEF Killed
    <2>2. faults'[p] = faults[p] + 1 /\ \A k \in Payments : k # p => faults'[k] = faults[k]
        BY <1>1, <1>2, <1>6, FaultCounts
    <2>3. mails'[p] = mails[p] + 1 /\ \A k \in Payments : k # p => mails'[k] = mails[k]
        BY <1>2, <1>6 DEF TypeOK
    <2>4. mails'[p] <= faults'[p] /\ ~row'[p].emailed
        BY <1>2, <1>3, <2>1, <2>2, <2>3
    <2> QED BY <2>1, <2>2, <2>3, <2>4 DEF MailsCounted
<1> QED BY <1>1, <1>4, <1>5, <1>6 DEF Email

(* Every other step leaves what was mailed mailed, and faults stay.        *)
LEMMA OtherMails ==
    ASSUME TypeOK, TypeOK', RowMoves, MailsCounted, mails' = mails,
           \A p \in Payments : faults'[p] >= faults[p]
    PROVE  MailsCounted'
<1>1. \A p \in Payments : row[p].emailed => row'[p].emailed
    BY DEF RowMoves, Moves, TypeOK
<1> SUFFICES ASSUME NEW p \in Payments
             PROVE  mails'[p] <= IF row'[p].emailed THEN faults'[p] + 1 ELSE faults'[p]
    BY DEF MailsCounted
<1>2. /\ mails'[p] = mails[p] /\ mails[p] \in Nat
      /\ faults[p] \in Nat /\ faults'[p] \in Nat /\ faults'[p] >= faults[p]
    BY DEF TypeOK
<1>3. CASE row[p].emailed
    <2>1. mails[p] <= faults[p] + 1 /\ row'[p].emailed
        BY <1>1, <1>3 DEF MailsCounted
    <2>2. mails'[p] <= faults'[p] + 1
        BY <1>2, <2>1
    <2> QED BY <2>1, <2>2
<1>4. CASE ~row[p].emailed
    <2>1. mails[p] <= faults[p]
        BY <1>4 DEF MailsCounted
    <2>2. mails'[p] <= faults'[p] /\ mails'[p] <= faults'[p] + 1
        BY <1>2, <2>1
    <2> QED BY <2>2
<1> QED BY <1>3, <1>4

LEMMA MailsStep ==
    ASSUME Control, Control', MailsCounted, [Next]_vars
    PROVE  MailsCounted'
<1>1. TypeOK /\ TypeOK'
    BY DEF Control
<1>2. \A p \in Payments : faults[p] \in Nat
    BY <1>1 DEF TypeOK
<1>3. CASE UNCHANGED vars
    BY <1>3 DEF vars, MailsCounted
<1>4. ASSUME NEW p \in Payments, Pays(p) \/ Queue(p) \/ InFakt(p) \/ Webhook(p)
      PROVE  MailsCounted'
    <2>1. mails' = mails /\ faults' = faults
        BY <1>4 DEF Pays, Pay, Queue, InFakt, JobDone, Webhook
    <2>2. RowMoves
        BY <1>4, OutsideMoves DEF Pays, Pay, RowMoves
    <2> QED BY <1>1, <1>2, <2>1, <2>2, OtherMails
<1>5. ASSUME NEW w \in Workers, Work(w)
      PROVE  MailsCounted'
    <2>1. CASE Email(w)
        BY <2>1, EmailMails
    <2>2. CASE (Create(w) \/ Check(w)) /\ Fault(w)
        <3>1. PICK p \in Payments : p = wk[w].hand
            BY <2>2, InHand DEF Create, Check
        <3>2. \A r \in Payments : faults'[r] >= faults[r]
            BY <1>1, <1>2, <2>2, <3>1, FaultCounts
        <3>3. mails' = mails
            BY <2>2 DEF Create, Check
        <3> QED BY <1>1, <1>5, <3>2, <3>3, WorkMoves, OtherMails
    <2>3. CASE faults' = faults /\ mails' = mails
        BY <1>1, <1>2, <1>5, <2>3, WorkMoves, OtherMails
    <2> QED BY <1>5, <2>1, <2>2, <2>3 DEF Work, ProcessBegin, Take, Create, Check, Nothing
<1> QED BY <1>3, <1>4, <1>5 DEF Next, Pays

-----------------------------------------------------------------------------
(* The theorems *)

Inv == IInv /\ MailedIssued

LEMMA InitInv == ASSUME InvoiceAssumption, Init PROVE Inv /\ Promise!Init
<1>1. TypeOK
    <2>1. <<>> \in Seq(JobStates)
        OBVIOUS
    <2> QED BY <2>1, IdleType DEF Init, TypeOK
<1>2. RowsPaid /\ TasksKnown /\ HandsOk /\ Apart /\ MailedIssued
    BY DEF Init, RowsPaid, TasksKnown, HandsOk, Apart, MailedIssued, NewRow, Idle
<1>3. JobsCounted
    <2> SUFFICES ASSUME NEW p \in Payments
                 PROVE  Cardinality(Stray(p)) <= Allowed(p)
        BY DEF JobsCounted
    <2>1. Made(p) = {}
        BY DEF Init, Made
    <2>2. Stray(p) = {} /\ Allowed(p) = 0
        BY <2>1 DEF Init, NewRow, Stray, Allowed
    <2> QED BY <2>2, FS_EmptySet
<1>4. MailsCounted
    BY DEF Init, NewRow, MailsCounted
<1>5. Promise!Init
    BY DEF Init, Promise!Init, Fate
<1> QED BY <1>1, <1>2, <1>3, <1>4, <1>5 DEF Inv, IInv, Control

LEMMA NextInv ==
    ASSUME InvoiceAssumption, Inv, [Next]_vars
    PROVE  Inv' /\ [Promise!Next]_Fates
<1> USE DEF Inv, IInv
<1>1. Control'
    BY ControlStep
<1>2. MailedIssued' /\ [Promise!Next]_Fates
    BY PromiseStep
<1>3. MailsCounted'
    BY <1>1, MailsStep
<1>4. JobsCounted'
    <2>1. CASE UNCHANGED vars
        BY <2>1 DEF vars, JobsCounted, Stray, Made, Allowed
    <2> QED BY <1>1, <2>1, WorkCounts, OutsideCounts DEF Next, Pays
<1> QED BY <1>1, <1>2, <1>3, <1>4

LEMMA Invariant == ASSUME InvoiceAssumption PROVE Spec => []Inv
<1>1. Init => Inv
    BY InitInv
<1>2. Inv /\ [Next]_vars => Inv'
    BY NextInv
<1> QED BY <1>1, <1>2, PTL DEF Spec

(* The rows, jobs, workers and counters of the queue keep their sets.      *)
THEOREM TypeCorrect == ASSUME InvoiceAssumption PROVE Spec => []TypeOK
<1>1. Inv => TypeOK
    BY DEF Inv, IInv, Control
<1> QED BY <1>1, Invariant, PTL

(* The queue of invoicing.py - its rows, locks, attempts and lost answers  *)
(* - implements the promise of its docstring: once issued an invoice is    *)
(* never owed again or left to the team, and it is mailed after that only. *)
THEOREM QueueKeepsPromise == ASSUME InvoiceAssumption PROVE Spec => KeepsPromise
<1>1. Init => Promise!Init
    BY InitInv
<1>2. Inv /\ [Next]_vars => [Promise!Next]_Fates
    BY NextInv
<1>3. Promise!Init /\ [][Promise!Next]_Fates => KeepsPromise
    BY DEF KeepsPromise, Promise!Spec, Fates
<1> QED BY <1>1, <1>2, <1>3, Invariant, PTL DEF Spec

(* One VAT invoice for each payment, made by inFakt or by hand, and one    *)
(* more for each lost answer or killed worker; mailed once, and once more  *)
(* for each worker killed over it (invoicing.py: process, _email).         *)
THEOREM InvoicedOnce == ASSUME InvoiceAssumption PROVE Spec => []OneInvoicePerPayment
<1>1. ASSUME Inv
      PROVE  InvoiceIssuedOnce
    <2> SUFFICES ASSUME NEW p \in Payments
                 PROVE  Cardinality(Made(p)) + ByHand(p) <= 1 + faults[p]
        BY DEF InvoiceIssuedOnce
    <2>1. /\ TypeOK /\ IsFiniteSet(Made(p)) /\ IsFiniteSet(Stray(p)) /\ faults[p] \in Nat
          /\ Cardinality(Stray(p)) <= Allowed(p)
        BY <1>1, MadeFinite DEF Inv, IInv, Control, TypeOK, JobsCounted
    <2>2. Cardinality(Made(p)) \in Nat /\ Cardinality(Stray(p)) \in Nat
        BY <2>1, FS_CardinalityType
    <2>3. CASE row[p].status = "processing"
        <3>1. Made(p) \subseteq Stray(p) \cup {row[p].task}
            BY <2>3 DEF Stray
        <3>2. Cardinality(Made(p)) <= Cardinality(Stray(p)) + 1
            BY <2>1, <3>1, OneMoreCounts
        <3>3. ByHand(p) = 0 /\ Allowed(p) = faults[p]
            BY <2>3 DEF ByHand, Allowed
        <3> QED BY <2>1, <2>2, <3>2, <3>3
    <2>4. CASE row[p].status # "processing"
        <3>1. Stray(p) = Made(p)
            BY <2>4 DEF Stray
        <3>2. /\ row[p].status = "issued" => ByHand(p) = 0 /\ Allowed(p) = faults[p] + 1
              /\ row[p].status # "issued" => ByHand(p) \in {0, 1} /\ Allowed(p) = faults[p]
            BY DEF ByHand, Allowed
        <3> QED BY <2>1, <2>2, <3>1, <3>2
    <2> QED BY <2>3, <2>4
<1>2. ASSUME Inv
      PROVE  InvoiceMailedOnce
    <2> SUFFICES ASSUME NEW p \in Payments
                 PROVE  mails[p] <= 1 + faults[p]
        BY DEF InvoiceMailedOnce
    <2>1. mails[p] \in Nat /\ faults[p] \in Nat
        BY <1>2 DEF Inv, IInv, Control, TypeOK
    <2>2. mails[p] <= faults[p] \/ mails[p] <= faults[p] + 1
        BY <1>2 DEF Inv, IInv, MailsCounted
    <2> QED BY <2>1, <2>2
<1>3. Inv => OneInvoicePerPayment
    BY <1>1, <1>2 DEF OneInvoicePerPayment
<1> QED BY <1>3, Invariant, PTL

-----------------------------------------------------------------------------
(* An account kept in sync: the invariant *)

SyncTyped ==
    /\ sub \in [Subs -> Y!Sub]
    /\ owner \in [Subs -> Customers]
    /\ events \in Seq(Customers)
    /\ handled \subseteq DOMAIN events
    /\ acct \in Y!Account
    /\ lock \in Workers \cup {NoOne}
    /\ process \in [Workers -> Y!Worker]
    /\ told \in Ranks \cup {0}
    /\ silent \in BOOLEAN

\* A worker has the lock from the read to the commit, and what it has in
\* hand is an event that was sent.
HandOk(w) ==
    /\ process[w].pc = "idle" => process[w] = Y!Idle
    /\ process[w].pc \in {"read", "store"} <=> lock = w
    /\ process[w].ev \in DOMAIN events \cup {0}
    /\ process[w].pc = "adopt" => process[w].ev # 0
    /\ process[w].adopts # NoOne =>
          /\ process[w].pc \in {"read", "store"}
          /\ process[w].ev # 0 /\ process[w].adopts = events[process[w].ev]
    /\ process[w].pc \in {"read", "store"} /\ process[w].adopts = NoOne => acct.cust # NoOne

\* An account without a customer has had no event.
Unused == acct.cust = NoOne => acct = Y!Blank(NoOne) /\ handled = {}

\* Every subscription was reported.
Sent ==
    \A s \in Subs : sub[s].status # "none" => \E e \in DOMAIN events : events[e] = owner[s]

\* Events of a customer still to be handled.
ToHandle(c) == {e \in DOMAIN events \ handled : events[e] = c}

Synced == Y!Mirrors(acct) \/ ToHandle(acct.cust) # {}

\* The customer a worker syncs: Before(w).cust.
Target(w) == IF process[w].adopts = NoOne THEN acct.cust ELSE process[w].adopts

\* What was read from Stripe is still so, or another event says otherwise.
ReadOk(w) ==
    process[w].pc = "store" =>
        \/ /\ process[w].picked = Y!Pick(Target(w))
           /\ process[w].picked # 0 => process[w].got = sub[process[w].picked]
        \/ ToHandle(Target(w)) \ {process[w].ev} # {}

\* The customer about to be dropped does not pay, but for what an event
\* still to be handled says.
DropOk(w) ==
    process[w].adopts \notin {NoOne, acct.cust} =>
        \A s \in Subs : owner[s] = acct.cust /\ Y!Live(s) => ToHandle(acct.cust) # {}

Watched ==
    \A s \in Subs : Y!Live(s) =>
        \/ owner[s] = acct.cust
        \/ ToHandle(owner[s]) # {}
        \/ owner[s] \in alerts \cup crossed

SyncInv ==
    /\ SyncTyped
    /\ \A w \in Workers : HandOk(w) /\ ReadOk(w) /\ DropOk(w)
    /\ Unused /\ Sent /\ Synced /\ Watched
    /\ Y!OwnerWasTold

-----------------------------------------------------------------------------
(* An account kept in sync: what Stripe is asked *)

LEMMA NewestIn ==
    ASSUME Y!SyncAssumption, NEW T \in SUBSET Subs, T # {}
    PROVE  Y!Newest(T) \in T
BY DEF Y!SyncAssumption, Y!Newest

LEMMA PickIs ==
    ASSUME Y!SyncAssumption, NEW c
    PROVE  /\ Y!Of(c) = {} => Y!Pick(c) = 0
           /\ Y!Of(c) # {} => Y!Pick(c) \in Y!Of(c)
           /\ \A s \in Y!Of(c) : Y!Live(s) => Y!Live(Y!Pick(c))
<1> DEFINE paying == {s \in Y!Of(c) : Y!Live(s)}
<1>1. Y!Of(c) \in SUBSET Subs /\ paying \in SUBSET Subs
  BY DEF Y!Of
<1>2. CASE paying # {}
  <2>1. Y!Pick(c) = Y!Newest(paying)
    BY <1>2 DEF Y!Pick
  <2>2. Y!Newest(paying) \in paying
    BY <1>1, <1>2, NewestIn
  <2> QED BY <2>1, <2>2
<1>3. CASE paying = {} /\ Y!Of(c) # {}
  <2>1. Y!Pick(c) = Y!Newest(Y!Of(c))
    BY <1>3 DEF Y!Pick
  <2>2. Y!Newest(Y!Of(c)) \in Y!Of(c)
    BY <1>1, <1>3, NewestIn
  <2> QED BY <1>3, <2>1, <2>2
<1>4. CASE Y!Of(c) = {}
  BY <1>4 DEF Y!Pick
<1> QED BY <1>2, <1>3, <1>4

LEMMA PickSub ==
    ASSUME Y!SyncAssumption, NEW c
    PROVE  /\ Y!Pick(c) \in Subs \cup {0}
           /\ Y!Pick(c) # 0 => owner[Y!Pick(c)] = c
BY PickIs DEF Y!Of

\* What happens to others' subscriptions changes nothing for a customer.
LEMMA PickSame ==
    ASSUME NEW c, owner' = owner,
           \A s \in Subs : owner[s] = c => sub'[s] = sub[s]
    PROVE  Y!Pick(c)' = Y!Pick(c)
<1>1. Y!Of(c)' = Y!Of(c)
  BY DEF Y!Of
<1>2. \A s \in Y!Of(c) : Y!Live(s)' <=> Y!Live(s)
  BY DEF Y!Of, Y!Live
<1>3. {s \in Y!Of(c) : Y!Live(s)}' = {s \in Y!Of(c) : Y!Live(s)}
  BY <1>1, <1>2
<1> QED BY <1>1, <1>3 DEF Y!Pick, Y!Newest

LEMMA SyncInit ==
    ASSUME Y!SyncAssumption, Y!Init
    PROVE  SyncInv
<1>1. /\ sub = [s \in Subs |-> Y!NoSub] /\ owner \in [Subs -> Customers] /\ events = <<>>
      /\ handled = {} /\ lock = NoOne /\ process = [w \in Workers |-> Y!Idle]
      /\ told = 0 /\ silent = FALSE
  BY DEF Y!Init
<1>2. PICK c \in Customers \cup {NoOne} : acct = Y!Blank(c)
  BY DEF Y!Init
<1>3. Y!NoSub \in Y!Sub /\ Y!NoSub.status = "none"
  BY DEF Y!NoSub, Y!Sub, Y!Paying
<1>4. /\ Y!Idle \in Y!Worker /\ Y!Idle.pc = "idle" /\ Y!Idle.ev = 0 /\ Y!Idle.adopts = NoOne
  BY <1>3 DEF Y!Idle, Y!Worker
<1>5. Y!Blank(c) \in Y!Account /\ acct.cust = c /\ acct.id = 0 /\ ~Y!Paid(acct)
  BY <1>2 DEF Y!Blank, Y!Account, Y!Paying, Y!Paid
<1>6. SyncTyped
  <2>1. sub \in [Subs -> Y!Sub] /\ process \in [Workers -> Y!Worker] /\ events \in Seq(Customers)
    BY <1>1, <1>3, <1>4
  <2>2. handled \subseteq DOMAIN events /\ lock \in Workers \cup {NoOne} /\ acct \in Y!Account
    BY <1>1, <1>2, <1>5
  <2> QED BY <1>1, <2>1, <2>2 DEF SyncTyped
<1>7. \A w \in Workers : process[w] = Y!Idle /\ lock # w
  BY <1>1 DEF Y!SyncAssumption
<1>8. \A w \in Workers : HandOk(w) /\ ReadOk(w) /\ DropOk(w)
  BY <1>4, <1>7 DEF HandOk, ReadOk, DropOk
<1>9. \A s \in Subs : sub[s].status = "none" /\ ~Y!Live(s)
  BY <1>1, <1>3 DEF Y!Live, Y!Paying
<1>10. Unused /\ Sent /\ Watched
  BY <1>1, <1>2, <1>5, <1>9 DEF Unused, Sent, Watched
<1>11. Synced
  <2>1. Y!Of(c) = {}
    BY <1>9 DEF Y!Of
  <2> QED BY <1>5, <2>1, PickIs DEF Synced, Y!Mirrors
<1>12. Y!OwnerWasTold
  BY <1>1, <1>5 DEF Y!OwnerWasTold, Y!InForce
<1> QED BY <1>6, <1>8, <1>10, <1>11, <1>12 DEF SyncInv

-----------------------------------------------------------------------------
(* An account kept in sync: the steps *)

\* A change at Stripe leaves an event to handle.
LEMMA ChangeKeeps ==
    ASSUME Y!SyncAssumption, SyncInv, NEW s \in Subs, NEW q \in Y!Sub, Y!Change(s, q)
    PROVE  SyncInv'
<1> DEFINE n == Len(events) + 1
<1>1. /\ SyncTyped /\ sub' = [sub EXCEPT ![s] = q] /\ events' = Append(events, owner[s])
      /\ UNCHANGED <<owner, handled, acct, lock, process, alerts, told, silent, crossed>>
  BY DEF SyncInv, Y!Change
<1>2. /\ events \in Seq(Customers) /\ owner[s] \in Customers
      /\ sub \in [Subs -> Y!Sub] /\ handled \subseteq DOMAIN events
  BY <1>1 DEF SyncTyped
<1>3. /\ events' \in Seq(Customers) /\ DOMAIN events' = DOMAIN events \cup {n}
      /\ n \notin DOMAIN events /\ events'[n] = owner[s]
      /\ \A e \in DOMAIN events : events'[e] = events[e]
      /\ 0 \notin DOMAIN events
  BY <1>1, <1>2
<1> HIDE DEF n
<1>4. /\ \A c : ToHandle(c) \subseteq ToHandle(c)'
      /\ n \in ToHandle(owner[s])' /\ n # 0
  BY <1>1, <1>2, <1>3 DEF ToHandle
<1>5. \A t \in Subs : t # s => sub'[t] = sub[t]
  BY <1>1, <1>2
<1>6. \A t \in Subs : \/ Y!Live(t)' <=> Y!Live(t)
                      \/ n \in ToHandle(owner[t])'
  BY <1>4, <1>5 DEF Y!Live
<1>7. ASSUME NEW c, c # owner[s]
      PROVE  /\ Y!Pick(c)' = Y!Pick(c)
             /\ Y!Pick(c) # 0 => sub'[Y!Pick(c)] = sub[Y!Pick(c)]
  <2>1. \A t \in Subs : owner[t] = c => sub'[t] = sub[t]
    BY <1>5, <1>7
  <2> QED BY <1>1, <2>1, PickSame, PickSub
<1>8. SyncTyped'
  <2>1. sub' \in [Subs -> Y!Sub]
    BY <1>1, <1>2
  <2> QED BY <1>1, <1>3, <2>1 DEF SyncTyped
<1>9. ASSUME NEW w \in Workers
      PROVE  HandOk(w)' /\ ReadOk(w)' /\ DropOk(w)'
  <2>1. HandOk(w) /\ ReadOk(w) /\ DropOk(w)
    BY DEF SyncInv
  <2>2. HandOk(w)'
    BY <1>1, <1>3, <2>1 DEF HandOk
  <2>3. PICK c : c = Target(w) /\ Target(w)' = c
    BY <1>1 DEF Target
  <2>4. ReadOk(w)'
    <3>1. SUFFICES ASSUME process[w].pc = "store" PROVE ReadOk(w)'
      BY <1>1 DEF ReadOk
    <3>2. CASE ToHandle(c) \ {process[w].ev} # {}
      BY <1>1, <1>4, <2>3, <3>2 DEF ReadOk
    <3>3. CASE c = owner[s]
      <4>1. n # process[w].ev
        BY <1>3, <1>4, <2>1 DEF HandOk
      <4> QED BY <1>1, <1>4, <2>3, <3>3, <4>1 DEF ReadOk
    <3>4. CASE c # owner[s] /\ ~(ToHandle(c) \ {process[w].ev} # {})
      <4>1. /\ process[w].picked = Y!Pick(c)
            /\ process[w].picked # 0 => process[w].got = sub[process[w].picked]
        BY <2>1, <2>3, <3>1, <3>4 DEF ReadOk
      <4>2. /\ process'[w].picked = Y!Pick(c)'
            /\ process'[w].picked # 0 => process'[w].got = sub'[process'[w].picked]
        BY <1>1, <1>7, <3>4, <4>1
      <4> QED BY <2>3, <4>2 DEF ReadOk
    <3> QED BY <3>2, <3>3, <3>4
  <2>5. DropOk(w)'
    <3>1. SUFFICES ASSUME process[w].adopts \notin {NoOne, acct.cust}, NEW t \in Subs,
                          owner[t] = acct.cust, Y!Live(t)'
                   PROVE  ToHandle(acct.cust)' # {}
      BY <1>1 DEF DropOk
    <3>2. PICK d : d = acct.cust /\ acct'.cust = d
      BY <1>1
    <3>3. ToHandle(d)' # {}
      <4>1. CASE Y!Live(t)
        <5>1. ToHandle(d) # {}
          BY <2>1, <3>1, <3>2, <4>1 DEF DropOk
        <5> QED BY <1>4, <5>1
      <4>2. CASE ~Y!Live(t)
        BY <1>1, <1>6, <3>1, <3>2, <4>2
      <4> QED BY <4>1, <4>2
    <3> QED BY <3>2, <3>3
  <2> QED BY <2>2, <2>4, <2>5
<1>10. Unused' /\ Y!OwnerWasTold'
  BY <1>1 DEF SyncInv, Unused, Y!OwnerWasTold, Y!InForce, Y!Paid, Y!Blank
<1>11. Sent'
  BY <1>1, <1>3, <1>5 DEF SyncInv, Sent
<1>12. Synced'
  <2>1. PICK c : c = acct.cust /\ acct'.cust = c
    BY <1>1
  <2>2. CASE c = owner[s]
    BY <1>1, <1>4, <2>1, <2>2 DEF Synced
  <2>3. CASE c # owner[s] /\ ToHandle(c) # {}
    BY <1>4, <2>1, <2>3 DEF Synced
  <2>4. CASE c # owner[s] /\ ToHandle(c) = {}
    <3>1. Y!Mirrors(acct)
      BY <2>1, <2>4 DEF SyncInv, Synced
    <3>2. Y!Mirrors(acct)'
      BY <1>1, <1>7, <2>1, <2>4, <3>1 DEF Y!Mirrors
    <3> QED BY <3>2 DEF Synced
  <2> QED BY <2>2, <2>3, <2>4
<1>13. Watched'
  BY <1>1, <1>4, <1>6 DEF SyncInv, Watched
<1> QED BY <1>8, <1>9, <1>10, <1>11, <1>12, <1>13 DEF SyncInv

LEMMA StripeKeeps ==
    ASSUME Y!SyncAssumption, SyncInv, NEW s \in Subs,
           \/ \E r \in Ranks : Y!Subscribe(s, r) \/ Y!ChangePlan(s, r)
           \/ Y!ToggleCancel(s) \/ Y!PaymentFails(s) \/ Y!PaymentArrives(s) \/ Y!End(s)
    PROVE  SyncInv'
<1>1. sub[s] \in Y!Sub
  BY DEF SyncInv, SyncTyped
<1>2. ASSUME NEW r \in Ranks, Y!Subscribe(s, r)
      PROVE  \E q \in Y!Sub : Y!Change(s, q)
  <2>1. [status |-> "active", rank |-> r, cancel |-> FALSE] \in Y!Sub
    BY DEF Y!Sub, Y!Paying
  <2> QED BY <1>2, <2>1 DEF Y!Subscribe
<1>3. ASSUME NEW r \in Ranks, Y!ChangePlan(s, r)
      PROVE  \E q \in Y!Sub : Y!Change(s, q)
  <2>1. [sub[s] EXCEPT !.rank = r] \in Y!Sub
    BY <1>1 DEF Y!Sub
  <2> QED BY <1>3, <2>1 DEF Y!ChangePlan
<1>4. ASSUME Y!ToggleCancel(s)
      PROVE  \E q \in Y!Sub : Y!Change(s, q)
  <2>1. [sub[s] EXCEPT !.cancel = ~@] \in Y!Sub
    BY <1>1 DEF Y!Sub
  <2> QED BY <1>4, <2>1 DEF Y!ToggleCancel
<1>5. ASSUME NEW to \in {"active", "past_due", "canceled"},
             Y!Change(s, [sub[s] EXCEPT !.status = to])
      PROVE  \E q \in Y!Sub : Y!Change(s, q)
  <2>1. [sub[s] EXCEPT !.status = to] \in Y!Sub
    BY <1>1 DEF Y!Sub, Y!Paying
  <2> QED BY <1>5, <2>1
<1>6. \E q \in Y!Sub : Y!Change(s, q)
  BY <1>2, <1>3, <1>4, <1>5 DEF Y!PaymentFails, Y!PaymentArrives, Y!End
<1> QED BY <1>6, ChangeKeeps

\* The workers move, Stripe does not: what all these steps keep.
LEMMA StillSent ==
    ASSUME SyncInv, UNCHANGED <<sub, owner, events>>
    PROVE  /\ Sent'
           /\ \A c : Y!Pick(c)' = Y!Pick(c) /\ Y!Of(c)' = Y!Of(c)
           /\ \A s \in Subs : Y!Live(s)' <=> Y!Live(s)
<1>1. Sent'
  BY DEF SyncInv, Sent
<1>2. \A c : Y!Of(c)' = Y!Of(c)
  BY DEF Y!Of
<1>3. \A c : Y!Pick(c)' = Y!Pick(c)
  BY PickSame
<1>4. \A s \in Subs : Y!Live(s)' <=> Y!Live(s)
  BY DEF Y!Live
<1> QED BY <1>1, <1>2, <1>3, <1>4

\* A worker that commits nothing changes nothing of what is known: only its
\* own state is to be checked.
LEMMA OnlyWorks ==
    ASSUME Y!SyncAssumption, SyncInv, NEW w \in Workers, NEW r \in Y!Worker,
           process' = [process EXCEPT ![w] = r],
           UNCHANGED <<sub, owner, events, handled, acct, told, silent, crossed>>,
           alerts \subseteq alerts',
           lock' \in Workers \cup {NoOne},
           \A v \in Workers \ {w} : lock' = v <=> lock = v,
           HandOk(w)', ReadOk(w)', DropOk(w)'
    PROVE  SyncInv'
<1>1. /\ SyncTyped /\ \A v \in Workers : HandOk(v) /\ ReadOk(v) /\ DropOk(v)
      /\ Unused /\ Synced /\ Watched /\ Y!OwnerWasTold
  BY DEF SyncInv
<1>2. /\ process' \in [Workers -> Y!Worker] /\ process'[w] = r
      /\ \A v \in Workers \ {w} : process'[v] = process[v]
  BY <1>1 DEF SyncTyped
<1>3. SyncTyped'
  BY <1>1, <1>2 DEF SyncTyped
<1>4. \A c : ToHandle(c)' = ToHandle(c)
  BY DEF ToHandle
<1>5. ASSUME NEW v \in Workers PROVE HandOk(v)' /\ ReadOk(v)' /\ DropOk(v)'
  <2>1. CASE v = w
    BY <2>1
  <2>2. CASE v # w
    <3>1. HandOk(v)'
      BY <1>1, <1>2, <2>2 DEF HandOk
    <3>2. Target(v)' = Target(v)
      BY <1>2, <2>2 DEF Target
    <3>3. ReadOk(v)' /\ DropOk(v)'
      BY <1>1, <1>2, <1>4, <2>2, <3>2, StillSent DEF ReadOk, DropOk
    <3> QED BY <3>1, <3>3
  <2> QED BY <2>1, <2>2
<1>6. Unused' /\ Synced' /\ Watched' /\ Y!OwnerWasTold'
  <2>1. Unused' /\ Y!OwnerWasTold'
    BY <1>1 DEF Unused, Y!OwnerWasTold, Y!InForce, Y!Paid, Y!Blank
  <2>2. Synced'
    BY <1>1, <1>4, StillSent DEF Synced, Y!Mirrors
  <2>3. Watched'
    BY <1>1, <1>4, StillSent DEF Watched
  <2> QED BY <2>1, <2>2, <2>3
<1> QED BY <1>3, <1>5, <1>6, StillSent DEF SyncInv

LEMMA SyncIdle ==
    ASSUME Y!SyncAssumption
    PROVE  /\ Y!Idle \in Y!Worker /\ Y!Idle.pc = "idle" /\ Y!Idle.ev = 0
           /\ Y!Idle.adopts = NoOne
BY DEF Y!Idle, Y!Worker, Y!NoSub, Y!Sub, Y!Paying

LEMMA EventBeginKeeps ==
    ASSUME Y!SyncAssumption, SyncInv, NEW w \in Workers, NEW e \in DOMAIN events,
           Y!EventBegin(w, e)
    PROVE  SyncInv'
<1> DEFINE to == IF events[e] = acct.cust THEN "lock" ELSE "adopt"
           r == [process[w] EXCEPT !.ev = e, !.pc = to]
<1>1. /\ process[w].pc = "idle" /\ process' = [process EXCEPT ![w] = r]
      /\ UNCHANGED <<sub, owner, events, handled, acct, lock, alerts, told, silent, crossed>>
  BY DEF Y!EventBegin, Y!stripeVars
<1>2. process[w] = Y!Idle /\ lock # w /\ process \in [Workers -> Y!Worker]
      /\ events \in Seq(Customers)
  BY <1>1 DEF SyncInv, SyncTyped, HandOk
<1>3. /\ r \in Y!Worker /\ r.pc = to /\ r.ev = e /\ r.adopts = NoOne
  <2>1. e \in Nat /\ to \in {"lock", "adopt"}
    BY <1>2
  <2> HIDE DEF to
  <2> QED BY <1>2, <2>1, SyncIdle DEF Y!Worker
<1> HIDE DEF r
<1>4. process'[w] = r /\ to \in {"lock", "adopt"} /\ e # 0
  BY <1>1, <1>2, <1>3
<1> HIDE DEF to
<1>5. HandOk(w)' /\ ReadOk(w)' /\ DropOk(w)'
  BY <1>1, <1>2, <1>3, <1>4 DEF HandOk, ReadOk, DropOk
<1>6. lock \in Workers \cup {NoOne}
  BY DEF SyncInv, SyncTyped
<1> QED BY <1>1, <1>3, <1>5, <1>6, OnlyWorks

LEMMA PageBeginKeeps ==
    ASSUME Y!SyncAssumption, SyncInv, NEW w \in Workers, Y!PageBegin(w)
    PROVE  SyncInv'
<1> DEFINE r == [process[w] EXCEPT !.pc = "lock"]
<1>1. /\ process[w].pc = "idle" /\ process' = [process EXCEPT ![w] = r]
      /\ UNCHANGED <<sub, owner, events, handled, acct, lock, alerts, told, silent, crossed>>
  BY DEF Y!PageBegin, Y!stripeVars
<1>2. process[w] = Y!Idle /\ lock # w /\ process \in [Workers -> Y!Worker]
  BY <1>1 DEF SyncInv, SyncTyped, HandOk
<1>3. /\ r \in Y!Worker /\ r.pc = "lock" /\ r.ev = 0 /\ r.adopts = NoOne
  BY <1>2, SyncIdle DEF Y!Worker
<1> HIDE DEF r
<1>4. process'[w] = r
  BY <1>1, <1>2
<1>5. HandOk(w)' /\ ReadOk(w)' /\ DropOk(w)'
  BY <1>1, <1>2, <1>3, <1>4 DEF HandOk, ReadOk, DropOk
<1>6. lock \in Workers \cup {NoOne}
  BY DEF SyncInv, SyncTyped
<1> QED BY <1>1, <1>3, <1>5, <1>6, OnlyWorks

LEMMA LockKeeps ==
    ASSUME Y!SyncAssumption, SyncInv, NEW w \in Workers, Y!Lock(w)
    PROVE  SyncInv'
<1> DEFINE r == [process[w] EXCEPT !.pc = "read"]
<1>1. /\ process[w].pc = "lock" /\ lock = NoOne /\ NoOne \notin Workers
      /\ UNCHANGED <<sub, owner, events, handled, acct, alerts, told, silent, crossed>>
  BY DEF Y!Lock, Y!stripeVars, Y!SyncAssumption
<1>2. /\ process \in [Workers -> Y!Worker] /\ process[w] \in Y!Worker
      /\ HandOk(w) /\ process[w].adopts = NoOne
  BY <1>1 DEF SyncInv, SyncTyped, HandOk
<1>3. CASE acct.cust = NoOne
  <2>1. process' = [process EXCEPT ![w] = Y!Idle] /\ lock' = lock /\ process'[w] = Y!Idle
    BY <1>2, <1>3 DEF Y!Lock
  <2>2. HandOk(w)' /\ ReadOk(w)' /\ DropOk(w)'
    BY <1>1, <2>1, SyncIdle DEF HandOk, ReadOk, DropOk
  <2> QED BY <1>1, <2>1, <2>2, SyncIdle, OnlyWorks
<1>4. CASE acct.cust # NoOne
  <2>1. process' = [process EXCEPT ![w] = r] /\ lock' = w /\ process'[w] = r
    BY <1>2, <1>4 DEF Y!Lock
  <2>2. r \in Y!Worker /\ r.pc = "read" /\ r.adopts = NoOne /\ r.ev = process[w].ev
    BY <1>2 DEF Y!Worker
  <2> HIDE DEF r
  <2>3. HandOk(w)' /\ ReadOk(w)' /\ DropOk(w)'
    BY <1>1, <1>2, <1>4, <2>1, <2>2 DEF HandOk, ReadOk, DropOk
  <2> QED BY <1>1, <2>1, <2>2, <2>3, OnlyWorks
<1> QED BY <1>3, <1>4

LEMMA ReadKeeps ==
    ASSUME Y!SyncAssumption, SyncInv, NEW w \in Workers, Y!Read(w)
    PROVE  SyncInv'
<1> DEFINE s == Y!Pick(Y!Before(w).cust)
           got == IF s = 0 THEN Y!NoSub ELSE sub[s]
           r == [process[w] EXCEPT !.pc = "store", !.picked = s, !.got = got]
<1>1. /\ process[w].pc = "read" /\ process' = [process EXCEPT ![w] = r]
      /\ alerts \subseteq alerts'
      /\ UNCHANGED <<sub, owner, events, handled, acct, lock, told, silent, crossed>>
  BY DEF Y!Read, Y!stripeVars
<1>2. /\ SyncTyped /\ process \in [Workers -> Y!Worker] /\ process[w] \in Y!Worker
      /\ HandOk(w) /\ DropOk(w)
  BY <1>1 DEF SyncInv, SyncTyped
<1>3. s = Y!Pick(Target(w))
  BY DEF Y!Before, Y!Blank, Target
<1>4. s \in Subs \cup {0} /\ got \in Y!Sub
  <2>1. s \in Subs \cup {0}
    BY PickSub
  <2> HIDE DEF s
  <2> QED BY <1>2, <2>1 DEF SyncTyped, Y!NoSub, Y!Sub, Y!Paying
<1> HIDE DEF s
<1>5. /\ r \in Y!Worker /\ r.pc = "store" /\ r.adopts = process[w].adopts
      /\ r.ev = process[w].ev /\ r.picked = s
      /\ s # 0 => r.got = sub[s]
  <2>1. s # 0 => got = sub[s]
    OBVIOUS
  <2> HIDE DEF got
  <2> QED BY <1>2, <1>4, <2>1 DEF Y!Worker
<1> HIDE DEF got, r
<1>6. process'[w] = r
  BY <1>1, <1>2
<1>7. HandOk(w)' /\ DropOk(w)'
  <2>1. HandOk(w)'
    BY <1>1, <1>2, <1>5, <1>6 DEF HandOk
  <2>2. ToHandle(acct.cust)' = ToHandle(acct.cust)
    BY <1>1 DEF ToHandle
  <2>3. DropOk(w)'
    BY <1>1, <1>2, <1>5, <1>6, <2>2, StillSent DEF DropOk
  <2> QED BY <2>1, <2>3
<1>8. ReadOk(w)'
  <2>1. Target(w)' = Target(w)
    BY <1>1, <1>5, <1>6 DEF Target
  <2>2. PICK c : c = Target(w) /\ Target(w)' = c
    BY <2>1
  <2>3. Y!Pick(c)' = s
    BY <1>1, <1>3, <2>2, StillSent
  <2> QED BY <1>1, <1>5, <1>6, <2>2, <2>3 DEF ReadOk
<1>9. lock \in Workers \cup {NoOne}
  BY <1>2 DEF SyncTyped
<1> QED BY <1>1, <1>5, <1>7, <1>8, <1>9, OnlyWorks

LEMMA FailKeeps ==
    ASSUME Y!SyncAssumption, SyncInv, NEW w \in Workers, Y!Fail(w)
    PROVE  SyncInv'
<1>1. /\ process' = [process EXCEPT ![w] = Y!Idle]
      /\ lock' = IF lock = w THEN NoOne ELSE lock
      /\ UNCHANGED <<sub, owner, events, handled, acct, alerts, told, silent, crossed>>
  BY DEF Y!Fail, Y!stripeVars
<1>2. /\ process'[w] = Y!Idle /\ lock' # w /\ lock' \in Workers \cup {NoOne}
      /\ \A v \in Workers \ {w} : lock' = v <=> lock = v
  BY <1>1 DEF SyncInv, SyncTyped, Y!SyncAssumption
<1>3. HandOk(w)' /\ ReadOk(w)' /\ DropOk(w)'
  BY <1>2, SyncIdle DEF HandOk, ReadOk, DropOk
<1> QED BY <1>1, <1>2, <1>3, SyncIdle, OnlyWorks

LEMMA AdoptKeeps ==
    ASSUME Y!SyncAssumption, SyncInv, NEW w \in Workers, Y!Adopt(w)
    PROVE  SyncInv'
<1> DEFINE ev == process[w].ev
           c == events[ev]
           r == [process[w] EXCEPT !.pc = "read", !.adopts = c]
<1>1. /\ process[w].pc = "adopt" /\ lock = NoOne /\ NoOne \notin Workers
      /\ UNCHANGED <<sub, owner, events, acct, told, silent, crossed>>
  BY DEF Y!Adopt, Y!stripeVars, Y!SyncAssumption
<1>2. /\ SyncTyped /\ process \in [Workers -> Y!Worker] /\ process[w] \in Y!Worker
      /\ HandOk(w) /\ process[w].adopts = NoOne
      /\ ev \in DOMAIN events /\ ev # 0 /\ events \in Seq(Customers) /\ c \in Customers
      /\ \A v \in Workers : HandOk(v) /\ ReadOk(v) /\ DropOk(v)
      /\ Unused /\ Synced /\ Watched /\ Y!OwnerWasTold
  BY <1>1 DEF SyncInv, SyncTyped, HandOk
<1>3. CASE ~(acct.cust # c /\ \E s \in Y!Of(acct.cust) : Y!Live(s))
  <2>1. /\ process' = [process EXCEPT ![w] = r] /\ lock' = w /\ process'[w] = r
        /\ UNCHANGED <<handled, alerts>>
    BY <1>2, <1>3 DEF Y!Adopt
  <2> HIDE DEF c
  <2>2. r \in Y!Worker /\ r.pc = "read" /\ r.adopts = c /\ r.ev = ev
    BY <1>2 DEF Y!Worker
  <2> HIDE DEF r
  <2>3. HandOk(w)'
    BY <1>1, <1>2, <2>1, <2>2 DEF HandOk, c, Y!SyncAssumption
  <2>4. ReadOk(w)'
    BY <2>1, <2>2 DEF ReadOk
  <2>5. DropOk(w)'
    <3>1. acct.cust # c => \A s \in Subs : owner[s] = acct.cust => ~Y!Live(s)
      BY <1>3 DEF Y!Of, Y!Live, Y!Paying
    <3> QED BY <1>1, <2>1, <2>2, <3>1, StillSent DEF DropOk
  <2> QED BY <1>1, <2>1, <2>2, <2>3, <2>4, <2>5, OnlyWorks
<1>4. CASE acct.cust # c /\ \E s \in Y!Of(acct.cust) : Y!Live(s)
  <2>1. /\ process' = [process EXCEPT ![w] = Y!Idle] /\ lock' = lock
        /\ handled' = handled \cup ({ev} \ {0})
        /\ alerts' = alerts \cup {c}
    BY <1>4 DEF Y!Adopt, Y!Done
  <2>2. /\ process' \in [Workers -> Y!Worker] /\ process'[w] = Y!Idle
        /\ \A v \in Workers \ {w} : process'[v] = process[v]
        /\ handled' = handled \cup {ev}
    BY <1>2, <2>1, SyncIdle
  <2>3. acct.cust # NoOne
    BY <1>2, <1>4 DEF Y!Of, SyncTyped, Y!SyncAssumption
  <2>4. \A d : d # c => ToHandle(d)' = ToHandle(d)
    BY <1>1, <2>2 DEF ToHandle
  <2>5. SyncTyped'
    BY <1>1, <1>2, <2>1, <2>2 DEF SyncTyped
  <2>6. ASSUME NEW v \in Workers PROVE HandOk(v)' /\ ReadOk(v)' /\ DropOk(v)'
    <3>1. process[v].pc \notin {"read", "store"} /\ process[v].adopts = NoOne
      BY <1>1, <1>2 DEF HandOk
    <3>2. process'[v].pc \notin {"read", "store"} /\ process'[v].adopts = NoOne
      BY <2>2, <3>1, SyncIdle
    <3>3. HandOk(v)'
      BY <1>1, <1>2, <2>1, <2>2, <3>1, <3>2, SyncIdle DEF HandOk
    <3> QED BY <3>2, <3>3 DEF ReadOk, DropOk
  <2>7. Unused' /\ Y!OwnerWasTold'
    BY <1>1, <1>2, <2>3 DEF Unused, Y!OwnerWasTold, Y!InForce, Y!Paid
  <2>8. Synced'
    <3>1. PICK d : d = acct.cust /\ acct'.cust = d
      BY <1>1
    <3>2. ToHandle(d)' = ToHandle(d)
      BY <1>4, <2>4, <3>1
    <3> QED BY <1>1, <1>2, <3>1, <3>2, StillSent DEF Synced, Y!Mirrors
  <2>9. Watched'
    <3>1. SUFFICES ASSUME NEW s \in Subs, Y!Live(s)',
                          owner[s] # acct.cust, owner[s] \notin alerts' \cup crossed'
                   PROVE  ToHandle(owner[s])' # {}
      BY <1>1 DEF Watched
    <3>2. Y!Live(s) /\ owner[s] \notin alerts \cup crossed /\ owner[s] # c
      BY <1>1, <2>1, <3>1, StillSent
    <3>3. PICK d : d = owner[s] /\ owner'[s] = d
      BY <1>1
    <3>4. ToHandle(d) # {}
      BY <1>2, <3>1, <3>2, <3>3 DEF Watched
    <3> QED BY <2>4, <3>2, <3>3, <3>4
  <2> QED BY <1>1, <2>5, <2>6, <2>7, <2>8, <2>9, StillSent DEF SyncInv
<1> QED BY <1>3, <1>4

LEMMA EnsureCustomerKeeps ==
    ASSUME Y!SyncAssumption, SyncInv, NEW c \in Customers, Y!EnsureCustomer(c)
    PROVE  SyncInv'
<1>1. /\ lock = NoOne /\ NoOne \notin Workers /\ NoOne \notin Customers
      /\ acct.cust = NoOne /\ acct' = Y!Blank(c)
      /\ UNCHANGED <<sub, owner, events, handled, lock, process, alerts, told, silent, crossed>>
  BY DEF Y!EnsureCustomer, Y!stripeVars, Y!SyncAssumption
<1>2. /\ SyncTyped /\ \A v \in Workers : HandOk(v)
      /\ Unused /\ Sent /\ Synced /\ Watched /\ Y!OwnerWasTold
  BY DEF SyncInv
<1>3. /\ acct' \in Y!Account /\ acct'.cust = c /\ acct'.id = 0 /\ ~Y!Paid(acct')
      /\ handled = {} /\ ~Y!Paid(acct)
  BY <1>1, <1>2 DEF Y!Blank, Y!Account, Y!Paying, Y!Paid, Unused
<1>4. SyncTyped'
  BY <1>1, <1>2, <1>3 DEF SyncTyped
<1>5. ASSUME NEW v \in Workers PROVE HandOk(v)' /\ ReadOk(v)' /\ DropOk(v)'
  <2>1. process[v].pc \notin {"read", "store"} /\ process[v].adopts = NoOne
    BY <1>1, <1>2 DEF HandOk
  <2> QED BY <1>1, <1>2, <2>1 DEF HandOk, ReadOk, DropOk
<1>6. Unused' /\ Y!OwnerWasTold'
  BY <1>1, <1>2, <1>3 DEF Unused, Y!OwnerWasTold, Y!InForce
<1>7. \A d : ToHandle(d)' = ToHandle(d)
  BY <1>1 DEF ToHandle
<1>8. Synced'
  <2>1. CASE Y!Of(c) = {}
    <3>1. Y!Pick(c)' = 0
      BY <1>1, <2>1, PickIs, StillSent
    <3> QED BY <1>3, <3>1 DEF Synced, Y!Mirrors
  <2>2. CASE Y!Of(c) # {}
    <3>1. ToHandle(c) # {}
      BY <1>2, <1>3, <2>2 DEF Y!Of, Sent, ToHandle
    <3> QED BY <1>3, <1>7, <3>1 DEF Synced
  <2> QED BY <2>1, <2>2
<1>9. Watched'
  <2>1. ASSUME NEW s \in Subs, Y!Live(s)'
        PROVE  ToHandle(owner[s]) # {} \/ owner[s] \in alerts \cup crossed
    BY <1>1, <1>2, <2>1, StillSent DEF Watched, SyncTyped
  <2> QED BY <1>1, <1>7, <2>1 DEF Watched
<1> QED BY <1>1, <1>4, <1>5, <1>6, <1>8, <1>9, StillSent DEF SyncInv

LEMMA GraceEndsKeeps ==
    ASSUME Y!SyncAssumption, SyncInv, Y!GraceEnds
    PROVE  SyncInv'
<1>1. /\ acct.since = "recent" /\ acct' = [acct EXCEPT !.since = "long"]
      /\ silent' = (silent \/ Y!Paid(acct))
      /\ UNCHANGED <<sub, owner, events, handled, lock, process, alerts, told, crossed>>
  BY DEF Y!GraceEnds, Y!stripeVars
<1>2. /\ SyncTyped /\ \A v \in Workers : HandOk(v) /\ ReadOk(v) /\ DropOk(v)
      /\ Unused /\ Synced /\ Watched /\ Y!OwnerWasTold
  BY DEF SyncInv
<1>3. /\ acct' \in Y!Account /\ acct'.cust = acct.cust /\ acct'.id = acct.id
      /\ acct'.status = acct.status /\ acct'.rank = acct.rank
      /\ acct'.cancel = acct.cancel /\ acct'.since = "long"
  BY <1>1, <1>2 DEF SyncTyped, Y!Account
<1>4. SyncTyped'
  BY <1>1, <1>2, <1>3 DEF SyncTyped
<1>5. \A d : ToHandle(d)' = ToHandle(d)
  BY <1>1 DEF ToHandle
<1>6. ASSUME NEW v \in Workers PROVE HandOk(v)' /\ ReadOk(v)' /\ DropOk(v)'
  <2>1. HandOk(v)'
    BY <1>1, <1>2, <1>3 DEF HandOk
  <2>2. Target(v)' = Target(v)
    BY <1>1, <1>3 DEF Target
  <2>3. ReadOk(v)' /\ DropOk(v)'
    BY <1>1, <1>2, <1>3, <1>5, <2>2, StillSent DEF ReadOk, DropOk
  <2> QED BY <2>1, <2>3
<1>7. Unused'
  <2>1. acct.cust # NoOne
    BY <1>1, <1>2 DEF Unused, Y!Blank
  <2> QED BY <1>3, <2>1 DEF Unused
<1>8. Y!OwnerWasTold'
  BY <1>1, <1>2, <1>3 DEF Y!OwnerWasTold, Y!InForce, Y!Paid
<1>9. Synced'
  BY <1>1, <1>2, <1>3, <1>5, StillSent DEF Synced, Y!Mirrors
<1>10. Watched'
  BY <1>1, <1>2, <1>3, <1>5, StillSent DEF Watched
<1> QED BY <1>1, <1>4, <1>6, <1>7, <1>8, <1>9, <1>10, StillSent DEF SyncInv

\* The row as Stripe was read.
LEMMA AppliedIs ==
    ASSUME Y!SyncAssumption, NEW a \in Y!Account, NEW s \in Subs \cup {0}, NEW q \in Y!Sub
    PROVE  /\ Y!Applied(a, s, q) \in Y!Account
           /\ Y!Applied(a, s, q).cust = a.cust /\ Y!Applied(a, s, q).id = s
           /\ s # 0 => /\ Y!Applied(a, s, q).status = q.status
                       /\ Y!Applied(a, s, q).rank = q.rank
                       /\ Y!Applied(a, s, q).cancel = q.cancel
<1>1. CASE s = 0
  BY <1>1 DEF Y!Applied, Y!Blank, Y!Account, Y!Paying
<1>2. CASE s # 0
  <2> DEFINE since == CASE q.status # "past_due" -> "no"
                        [] q.status = "past_due" /\ a.since = "no" -> "recent"
                        [] OTHER -> a.since
  <2>1. Y!Applied(a, s, q) = [cust |-> a.cust, id |-> s, status |-> q.status,
                              rank |-> q.rank, cancel |-> q.cancel, since |-> since]
    BY <1>2 DEF Y!Applied
  <2>2. since \in {"no", "recent", "long"}
    BY DEF Y!Account
  <2> HIDE DEF since
  <2> QED BY <2>1, <2>2 DEF Y!Account, Y!Sub
<1> QED BY <1>1, <1>2

\* An email that names no plan leaves the plan in force as it was.
LEMMA UntoldIsSame ==
    ASSUME NEW b, NEW a, Y!ChangeKind(b, a) \notin Y!NamesPlan,
           b.rank \in Nat, a.rank \in Nat
    PROVE  Y!InForce(a) = Y!InForce(b)
<1>1. CASE ~Y!Paid(a) /\ ~Y!Paid(b)
  BY <1>1 DEF Y!InForce
<1>2. CASE Y!Paid(a) /\ Y!Paid(b)
  <2>1. ~(b.rank < a.rank) /\ ~(b.rank > a.rank)
    BY <1>2 DEF Y!ChangeKind, Y!NamesPlan
  <2>2. b.rank = a.rank
    BY <2>1
  <2> QED BY <1>2, <2>2 DEF Y!InForce
<1>3. CASE Y!Paid(b) /\ ~Y!Paid(a)
  BY <1>3 DEF Y!ChangeKind, Y!NamesPlan
<1>4. CASE Y!Paid(a) /\ ~Y!Paid(b)
  BY <1>4 DEF Y!ChangeKind, Y!NamesPlan
<1> QED BY <1>1, <1>2, <1>3, <1>4

LEMMA StoreKeeps ==
    ASSUME Y!SyncAssumption, SyncInv, NEW w \in Workers, Y!Store(w)
    PROVE  SyncInv'
<1> DEFINE me == process[w]
           before == Y!Before(w)
           after == Y!Applied(before, me.picked, me.got)
           kind == Y!ChangeKind(before, after)
<1>1. /\ me.pc = "store" /\ acct' = after /\ lock' = NoOne
      /\ told' = IF kind \in Y!NamesPlan THEN Y!InForce(after) ELSE told
      /\ silent' = CASE kind \in Y!NamesPlan -> FALSE
                     [] kind \notin Y!NamesPlan /\ me.adopts # NoOne /\ Y!Paid(acct) -> TRUE
                     [] OTHER -> silent
      /\ crossed' = IF me.ev # 0 /\ events[me.ev] # before.cust
                    THEN crossed \cup {events[me.ev]} ELSE crossed
      /\ handled' = handled \cup ({me.ev} \ {0})
      /\ process' = [process EXCEPT ![w] = Y!Idle]
      /\ UNCHANGED <<sub, owner, events, alerts>>
  BY DEF Y!Store, Y!Done, Y!stripeVars
<1>2. /\ SyncTyped /\ process \in [Workers -> Y!Worker] /\ me \in Y!Worker
      /\ \A v \in Workers : HandOk(v) /\ ReadOk(v) /\ DropOk(v)
      /\ Unused /\ Sent /\ Synced /\ Watched /\ Y!OwnerWasTold
      /\ events \in Seq(Customers) /\ NoOne \notin Customers /\ NoOne \notin Workers
      /\ acct \in Y!Account
  BY DEF SyncInv, SyncTyped, Y!SyncAssumption
<1>3. /\ lock = w /\ me.ev \in DOMAIN events \cup {0}
      /\ me.adopts # NoOne => me.ev # 0 /\ me.adopts = events[me.ev]
      /\ me.adopts = NoOne => acct.cust # NoOne
  BY <1>1, <1>2 DEF HandOk
<1>4. PICK c : c = Target(w)
  OBVIOUS
<1>5. /\ before \in Y!Account /\ before.cust = c /\ c \in Customers
      /\ me.adopts = NoOne => before = acct
      /\ me.adopts # NoOne => ~Y!Paid(before) /\ before.rank = 0
  <2>1. CASE me.adopts = NoOne
    BY <1>2, <1>3, <1>4, <2>1 DEF Y!Before, Target, Y!Account
  <2>2. CASE me.adopts # NoOne
    <3>1. before = Y!Blank(me.adopts) /\ c = me.adopts /\ me.adopts \in Customers
      BY <1>2, <1>3, <1>4, <2>2 DEF Y!Before, Target
    <3> QED BY <2>2, <3>1 DEF Y!Blank, Y!Account, Y!Paying, Y!Paid
  <2> QED BY <2>1, <2>2
<1>6. /\ after \in Y!Account /\ after.cust = c /\ after.id = me.picked
      /\ me.picked # 0 => /\ after.status = me.got.status /\ after.rank = me.got.rank
                          /\ after.cancel = me.got.cancel
  <2>1. me.picked \in Subs \cup {0} /\ me.got \in Y!Sub
    BY <1>2 DEF Y!Worker
  <2> HIDE DEF before
  <2> QED BY <1>5, <2>1, AppliedIs
<1> HIDE DEF before, after
<1>7. told' \in Ranks \cup {0} /\ silent' \in BOOLEAN
  <2>1. Y!InForce(after) \in Ranks \cup {0}
    BY <1>6 DEF Y!InForce, Y!Account
  <2> HIDE DEF kind
  <2> QED BY <1>1, <1>2, <2>1 DEF SyncTyped
<1>8. /\ handled' = handled \cup ({me.ev} \ {0})
      /\ process'[w] = Y!Idle /\ \A v \in Workers \ {w} : process'[v] = process[v]
      /\ process' \in [Workers -> Y!Worker]
  BY <1>1, <1>2, SyncIdle
<1>9. SyncTyped'
  <2>1. handled' \subseteq DOMAIN events'
    BY <1>1, <1>2, <1>3 DEF SyncTyped
  <2> QED BY <1>1, <1>2, <1>6, <1>7, <1>8, <2>1 DEF SyncTyped
<1>10. ASSUME NEW v \in Workers PROVE HandOk(v)' /\ ReadOk(v)' /\ DropOk(v)'
  <2>1. CASE v = w
    BY <1>1, <1>2, <1>8, <2>1, SyncIdle DEF HandOk, ReadOk, DropOk
  <2>2. CASE v # w
    <3>1. process[v].pc \notin {"read", "store"} /\ process[v].adopts = NoOne
      BY <1>2, <1>3, <2>2 DEF HandOk
    <3> QED BY <1>1, <1>2, <1>8, <2>2, <3>1 DEF HandOk, ReadOk, DropOk
  <2> QED BY <2>1, <2>2
<1>11. Unused'
  BY <1>1, <1>2, <1>5, <1>6 DEF Unused
<1>12. Y!OwnerWasTold'
  <2>1. before.rank \in Nat /\ after.rank \in Nat
    <3>1. before.rank \in Ranks \cup {0} /\ after.rank \in Ranks \cup {0}
      BY <1>5, <1>6 DEF Y!Account
    <3>2. Ranks \cup {0} \subseteq Nat
      BY DEF Y!SyncAssumption
    <3> QED BY <3>1, <3>2
  <2>2. CASE kind \in Y!NamesPlan
    BY <1>1, <2>2 DEF Y!OwnerWasTold
  <2>3. CASE kind \notin Y!NamesPlan
    <3>1. Y!InForce(after) = Y!InForce(before)
      BY <2>1, <2>3, UntoldIsSame
    <3>2. CASE me.adopts = NoOne
      BY <1>1, <1>2, <1>5, <2>3, <3>1, <3>2 DEF Y!OwnerWasTold
    <3>3. CASE me.adopts # NoOne
      BY <1>1, <1>2, <1>5, <2>3, <3>1, <3>3 DEF Y!OwnerWasTold, Y!InForce
    <3> QED BY <3>2, <3>3
  <2> QED BY <2>2, <2>3
<1>13. \A d : ToHandle(d) \ {me.ev} \subseteq ToHandle(d)'
  BY <1>1 DEF ToHandle
<1>14. Synced'
  <2>1. CASE ToHandle(c) \ {me.ev} # {}
    BY <1>1, <1>6, <1>13, <2>1 DEF Synced
  <2>2. CASE ~(ToHandle(c) \ {me.ev} # {})
    <3>1. me.picked = Y!Pick(c) /\ (me.picked # 0 => me.got = sub[me.picked])
      BY <1>1, <1>2, <1>4, <2>2 DEF ReadOk
    <3>2. Y!Pick(c)' = Y!Pick(c)
      BY <1>1, StillSent
    <3>3. Y!Mirrors(acct)'
      BY <1>1, <1>6, <3>1, <3>2 DEF Y!Mirrors
    <3> QED BY <3>3 DEF Synced
  <2> QED BY <2>1, <2>2
<1>15. Watched'
  <2>1. SUFFICES ASSUME NEW s \in Subs, Y!Live(s)', NEW d, d = owner[s], d # c,
                        d \notin alerts \cup crossed'
                 PROVE  ToHandle(d)' # {}
    BY <1>1, <1>6 DEF Watched
  <2>2. Y!Live(s) /\ d \notin alerts \cup crossed
    BY <1>1, <2>1, StillSent
  <2>3. me.ev = 0 \/ events[me.ev] # d
    BY <1>1, <1>5, <2>1
  <2>4. ToHandle(d) # {}
    <3>1. CASE d = acct.cust
      <4>1. me.adopts \notin {NoOne, acct.cust}
        BY <1>4, <2>1, <3>1 DEF Target
      <4> QED BY <1>2, <2>1, <2>2, <3>1, <4>1 DEF DropOk
    <3>2. CASE d # acct.cust
      BY <1>2, <2>1, <2>2, <3>2 DEF Watched
    <3> QED BY <3>1, <3>2
  <2>5. me.ev \notin ToHandle(d)
    BY <1>2, <2>3 DEF ToHandle
  <2> QED BY <1>13, <2>4, <2>5
<1> QED BY <1>1, <1>9, <1>10, <1>11, <1>12, <1>14, <1>15, StillSent DEF SyncInv

LEMMA SyncStep ==
    ASSUME Y!SyncAssumption, SyncInv, Y!Next
    PROVE  SyncInv'
<1>1. CASE Y!Stripe
  BY <1>1, StripeKeeps DEF Y!Stripe
<1>2. ASSUME NEW w \in Workers,
             \/ \E e \in DOMAIN events : Y!EventBegin(w, e)
             \/ Y!PageBegin(w) \/ Y!Adopt(w) \/ Y!Lock(w) \/ Y!Read(w) \/ Y!Store(w)
             \/ Y!Fail(w)
      PROVE  SyncInv'
  BY <1>2, EventBeginKeeps, PageBeginKeeps, AdoptKeeps, LockKeeps, ReadKeeps, StoreKeeps, FailKeeps
<1>3. CASE \E c \in Customers : Y!EnsureCustomer(c)
  BY <1>3, EnsureCustomerKeeps
<1>4. CASE Y!GraceEnds
  BY <1>4, GraceEndsKeeps
<1> QED BY <1>1, <1>2, <1>3, <1>4 DEF Y!Next

LEMMA SyncStutter ==
    ASSUME SyncInv, UNCHANGED syncVars
    PROVE  SyncInv'
<1>1. UNCHANGED <<sub, owner, events, handled, acct, lock, process, alerts, told, silent, crossed>>
  BY DEF syncVars
<1>2. \A d : ToHandle(d)' = ToHandle(d)
  BY <1>1 DEF ToHandle
<1>3. ASSUME NEW w \in Workers PROVE HandOk(w)' /\ ReadOk(w)' /\ DropOk(w)'
  <2>1. Target(w)' = Target(w)
    BY <1>1 DEF Target
  <2>2. HandOk(w) /\ ReadOk(w) /\ DropOk(w)
    BY DEF SyncInv
  <2> QED BY <1>1, <1>2, <2>1, <2>2, StillSent DEF HandOk, ReadOk, DropOk
<1>4. SyncTyped' /\ Unused' /\ Y!OwnerWasTold'
  BY <1>1 DEF SyncInv, SyncTyped, Unused, Y!OwnerWasTold, Y!InForce, Y!Paid, Y!Blank
<1>5. Synced' /\ Watched'
  BY <1>1, <1>2, StillSent DEF SyncInv, Synced, Watched, Y!Mirrors
<1> QED BY <1>1, <1>3, <1>4, <1>5, StillSent DEF SyncInv

LEMMA SyncInvariant == ASSUME Y!SyncAssumption PROVE PartSpec => []SyncInv
<1>1. PartInit => SyncInv
  BY SyncInit DEF PartInit
<1>2. SyncInv /\ [PartNext]_<<part, vars, syncVars, deletionVars>> => SyncInv'
  <2> SUFFICES ASSUME SyncInv, [PartNext]_<<part, vars, syncVars, deletionVars>>
               PROVE  SyncInv'
    OBVIOUS
  <2> QED BY SyncStep, SyncStutter DEF PartNext
<1> QED BY <1>1, <1>2, PTL DEF PartSpec

(* Once the events are handled the row is what Stripe has, however late,   *)
(* repeated and out of order they come and whichever workers fail          *)
(* (gateway.py: "late or repeated events can't leave a stale state         *)
(* behind"), and the owner's emails tell the plan in force (notices.py).   *)
THEOREM SyncedInTheEnd ==
    ASSUME Y!SyncAssumption PROVE PartSpec => []AccountFollowsStripe
<1>1. SyncInv => AccountFollowsStripe
  <2>1. ASSUME SyncInv, handled = DOMAIN events PROVE Y!Mirrors(acct)
    <3>1. ToHandle(acct.cust) = {}
      BY <2>1 DEF ToHandle
    <3> QED BY <2>1, <3>1 DEF SyncInv, Synced
  <2> QED BY <2>1 DEF SyncInv, AccountFollowsStripe, Y!QuietMeansSynced
<1> QED BY <1>1, SyncInvariant, PTL

(* Once the events are handled, a subscription that is paid gives the      *)
(* account a plan, or the team was told - but for a customer an event of   *)
(* which synced another one (gateway.py: _adopt_customer, refresh).        *)
THEOREM PaidIsSeen ==
    ASSUME Y!SyncAssumption PROVE PartSpec => []NobodyPaysForNothing
<1>1. SyncInv => NobodyPaysForNothing
  <2>1. ASSUME SyncInv, handled = DOMAIN events, NEW s \in Subs, Y!Live(s)
        PROVE  acct.status \in Y!Paying \/ owner[s] \in alerts \cup crossed
    <3>1. \A d : ToHandle(d) = {}
      BY <2>1 DEF ToHandle
    <3>2. CASE owner[s] = acct.cust
      <4>1. Y!Mirrors(acct)
        BY <2>1, <3>1 DEF SyncInv, Synced
      <4>2. s \in Y!Of(acct.cust)
        BY <2>1, <3>2 DEF Y!Of, Y!Live, Y!Paying
      <4>3. Y!Live(Y!Pick(acct.cust)) /\ Y!Pick(acct.cust) \in Subs
        BY <2>1, <4>2, PickIs DEF Y!Of
      <4>4. Y!Pick(acct.cust) # 0
        BY <4>3 DEF Y!SyncAssumption
      <4> QED BY <4>1, <4>3, <4>4 DEF Y!Mirrors, Y!Live
    <3>3. CASE owner[s] # acct.cust
      BY <2>1, <3>1, <3>3 DEF SyncInv, Watched
    <3> QED BY <3>2, <3>3
  <2> QED BY <2>1 DEF NobodyPaysForNothing, Y!NobodyPaysForNothing
<1> QED BY <1>1, SyncInvariant, PTL

-----------------------------------------------------------------------------
(* An account that is deleted: the invariant *)

Closing == [pc : {"idle", "cancel", "balance", "refund", "clear", "end"},
            reason : {"", "account_deleted", "credit_after_end"},
            todo : SUBSET Subscriptions, unused : Nat, credit : Nat, due : Nat,
            seen : Seq(Nat), at : Nat \ {0}, refunded : Nat, short : Nat,
            failed : BOOLEAN, problem : BOOLEAN]

\* What is due, but for the time left that a lost answer keeps out of sight.
Owed == due - slipped

DeletionTyped ==
    /\ exists \in BOOLEAN
    /\ subs \in [Subscriptions -> {"none", "live", "ended"}]
    /\ due \in Int /\ slipped \in Int /\ Owed \in Int
    /\ credit \in Int /\ back \in Int /\ listed \in Int
    /\ left \in Seq(Nat) /\ Len(left) = Len(Payouts)
    /\ worker \in [Workers -> Closing]
    /\ \A w \in Workers :
          /\ worker[w].pc = "idle" => worker[w] = D!Idle
          /\ Len(worker[w].seen) = Len(Payouts)
          /\ worker[w].pc = "cancel" => worker[w].reason = "account_deleted"
          /\ worker[w].pc \in {"cancel", "balance"} => worker[w].refunded = 0
          /\ worker[w].pc \in {"refund", "clear"} => worker[w].refunded <= worker[w].due
    /\ late \subseteq Subscriptions

Live(s) == subs[s] = "live"

\* No try that may still erase the account passes over a subscription that
\* was live when its list was read.
ListOk(w) ==
    worker[w].reason = "account_deleted" /\ ~worker[w].failed =>
        \A s \in Subscriptions :
            Live(s) => \/ s \in late
                       \/ worker[w].pc = "cancel" /\ s \in worker[w].todo

ListsOk ==
    /\ \A w \in Workers : ListOk(w)
    /\ ~exists => \A s \in Subscriptions : Live(s) => s \in late

\* What a worker still has to send back, the credit aside before it is read.
Balanced(w) ==
    CASE worker[w].pc \in {"cancel", "balance"} ->
            /\ Owed = back + credit + worker[w].unused
            /\ worker[w].refunded = 0 /\ worker[w].short = 0
            /\ worker[w].reason = "credit_after_end" => worker[w].unused = 0
      [] worker[w].pc \in {"refund", "clear"} ->
            /\ Owed = back + worker[w].due - worker[w].refunded
            /\ worker[w].credit = credit /\ worker[w].short = 0
            /\ worker[w].due = credit + worker[w].unused
            /\ worker[w].reason = "credit_after_end" => worker[w].unused = 0
      [] worker[w].pc = "end" ->
            /\ Owed = back + worker[w].short
            /\ worker[w].reason = "credit_after_end" => credit = worker[w].short
            /\ worker[w].short = 0 => credit = 0

MoneyOk ==
    /\ credit >= 0 /\ 0 <= back /\ back <= Owed
    /\ \A v, w \in Workers : worker[v].pc # "idle" /\ worker[w].pc # "idle" => v = w
    /\ \A w \in Workers : worker[w].pc # "idle" =>
          /\ exists
          /\ worker[w].reason \in {"account_deleted", "credit_after_end"}
          /\ worker[w].problem <=> worker[w].short > 0
          /\ Balanced(w)
    /\ exists /\ D!Quiet => Owed = back + credit
    /\ ~exists => Owed = back + listed

DeletionInv == DeletionTyped /\ ListsOk /\ (odd = {} => MoneyOk)

-----------------------------------------------------------------------------
(* An account that is deleted: the steps *)

LEMMA IdlePc == D!Idle.pc = "idle"
BY DEF D!Idle

LEMMA IdleReason == D!Idle.reason = "" /\ ~D!Idle.failed
BY DEF D!Idle

LEMMA IdleClosing ==
    ASSUME D!DeletionAssumption
    PROVE  /\ D!Idle \in Closing /\ D!Idle.pc = "idle" /\ D!Idle.reason = ""
           /\ D!Idle.seen = Payouts /\ ~D!Idle.failed /\ ~D!Idle.problem
           /\ D!Idle.unused = 0 /\ D!Idle.refunded = 0 /\ D!Idle.short = 0
BY DEF D!Idle, Closing, D!DeletionAssumption

LEMMA DeletionInit ==
    ASSUME D!DeletionAssumption, D!Init
    PROVE  DeletionInv
<1>1. DeletionTyped
  <2>1. \A w \in Workers : worker[w] = D!Idle
    BY DEF D!Init
  <2>2. worker \in [Workers -> Closing]
    BY IdleClosing DEF D!Init
  <2>3. /\ due \in Int /\ slipped \in Int /\ Owed \in Int
        /\ credit \in Int /\ back \in Int /\ listed \in Int
    BY DEF D!Init, D!DeletionAssumption, Owed
  <2>4. /\ exists \in BOOLEAN /\ left = Payouts /\ late = {}
        /\ subs \in [Subscriptions -> {"none", "live", "ended"}]
    BY DEF D!Init
  <2>5. Payouts \in Seq(Nat)
    BY DEF D!DeletionAssumption
  <2> QED BY <2>1, <2>2, <2>3, <2>4, <2>5, IdleClosing DEF DeletionTyped
<1>2. ListsOk
  BY IdleClosing DEF D!Init, ListsOk, ListOk
<1>3. credit \in Nat /\ Owed = credit /\ back = 0 /\ exists = TRUE
  BY DEF D!Init, D!DeletionAssumption, Owed
<1>4. \A w \in Workers : worker[w].pc = "idle"
  BY IdleClosing DEF D!Init
<1>5. MoneyOk
  BY <1>3, <1>4 DEF MoneyOk
<1> QED BY <1>1, <1>2, <1>5 DEF DeletionInv

\* What the move of one worker leaves of the others.
LEMMA OneMoves ==
    ASSUME DeletionTyped, NEW w \in Workers, NEW r \in Closing,
           worker' = [worker EXCEPT ![w] = r]
    PROVE  /\ worker' \in [Workers -> Closing] /\ worker'[w] = r
           /\ \A v \in Workers \ {w} : worker'[v] = worker[v]
BY DEF DeletionTyped

LEMMA MoveTyped ==
    ASSUME DeletionTyped, NEW w \in Workers, NEW r \in Closing,
           worker' = [worker EXCEPT ![w] = r],
           r.pc = "idle" => r = D!Idle,
           Len(r.seen) = Len(Payouts),
           r.pc = "cancel" => r.reason = "account_deleted",
           r.pc \in {"cancel", "balance"} => r.refunded = 0,
           r.pc \in {"refund", "clear"} => r.refunded <= r.due,
           exists' \in BOOLEAN, subs' \in [Subscriptions -> {"none", "live", "ended"}],
           due' \in Int, slipped' \in Int, Owed' \in Int,
           credit' \in Int, back' \in Int, listed' \in Int,
           left' \in Seq(Nat), Len(left') = Len(Payouts), late' \subseteq Subscriptions
    PROVE  DeletionTyped'
<1>1. /\ worker' \in [Workers -> Closing] /\ worker'[w] = r
      /\ \A v \in Workers \ {w} : worker'[v] = worker[v]
  BY OneMoves
<1>2. ASSUME NEW v \in Workers
      PROVE  /\ worker'[v].pc = "idle" => worker'[v] = D!Idle
             /\ Len(worker'[v].seen) = Len(Payouts)
             /\ worker'[v].pc = "cancel" => worker'[v].reason = "account_deleted"
             /\ worker'[v].pc \in {"cancel", "balance"} => worker'[v].refunded = 0
             /\ worker'[v].pc \in {"refund", "clear"} => worker'[v].refunded <= worker'[v].due
  <2>1. CASE v = w
    BY <1>1, <2>1
  <2>2. CASE v # w
    BY <1>1, <2>2 DEF DeletionTyped
  <2> QED BY <2>1, <2>2
<1> QED BY <1>1, <1>2 DEF DeletionTyped

\* Lists: the other workers see no new subscription that is not late.
LEMMA MoveLists ==
    ASSUME DeletionTyped, ListsOk, NEW w \in Workers, NEW r \in Closing,
           worker' = [worker EXCEPT ![w] = r],
           \A s \in Subscriptions : subs'[s] = "live" => Live(s),
           late' = late, exists' = exists,
           r.reason = "account_deleted" /\ ~r.failed =>
               \A s \in Subscriptions :
                   subs'[s] = "live" => \/ s \in late
                                        \/ r.pc = "cancel" /\ s \in r.todo
    PROVE  ListsOk'
<1>1. /\ worker'[w] = r /\ \A v \in Workers \ {w} : worker'[v] = worker[v]
  BY OneMoves
<1>2. ASSUME NEW v \in Workers PROVE ListOk(v)'
  <2>1. CASE v = w
    BY <1>1, <2>1 DEF ListOk, Live
  <2>2. CASE v # w
    BY <1>1, <2>2 DEF ListOk, ListsOk, Live
  <2> QED BY <2>1, <2>2
<1> QED BY <1>2 DEF ListsOk, Live

\* Money: the one worker at work goes on.
LEMMA MoveMoney ==
    ASSUME DeletionTyped, MoneyOk, NEW w \in Workers, NEW r \in Closing,
           worker' = [worker EXCEPT ![w] = r], worker[w].pc # "idle", r.pc # "idle",
           exists' = exists, r.reason = worker[w].reason, r.problem <=> r.short > 0,
           credit' >= 0, back' >= 0, back' <= Owed', Balanced(w)'
    PROVE  MoneyOk'
<1>1. /\ worker'[w] = r /\ \A v \in Workers \ {w} : worker'[v] = worker[v]
  BY OneMoves
<1>2. \A v \in Workers \ {w} : worker'[v].pc = "idle"
  BY <1>1 DEF MoneyOk
<1>3. exists /\ r.reason \in {"account_deleted", "credit_after_end"}
  BY DEF MoneyOk
<1>4. ~D!Quiet'
  BY <1>1, IdlePc DEF D!Quiet
<1>5. \A v \in Workers : worker'[v].pc # "idle" => v = w
  BY <1>2
<1>6. \A v \in Workers : worker'[v].pc # "idle" =>
          /\ exists'
          /\ worker'[v].reason \in {"account_deleted", "credit_after_end"}
          /\ worker'[v].problem <=> worker'[v].short > 0
          /\ Balanced(v)'
  BY <1>1, <1>3, <1>5
<1> QED BY <1>3, <1>4, <1>5, <1>6 DEF MoneyOk

\* Money: on to the balance, with nothing moved yet.
LEMMA SameMoney ==
    ASSUME DeletionTyped, MoneyOk, NEW w \in Workers, NEW r \in Closing, Balanced(w),
           worker' = [worker EXCEPT ![w] = r], worker[w].pc = "cancel", r.pc = "balance",
           r.reason = worker[w].reason, r.unused = worker[w].unused,
           r.refunded = worker[w].refunded, r.short = worker[w].short,
           r.problem = worker[w].problem, UNCHANGED <<exists, credit, Owed, back>>
    PROVE  MoneyOk'
<1>1. worker'[w] = r
  BY OneMoves
<1>2. Balanced(w)'
  BY <1>1 DEF Balanced
<1>3. worker[w].problem <=> worker[w].short > 0
  BY DEF MoneyOk
<1>4. credit' >= 0 /\ back' >= 0 /\ back' <= Owed'
  BY DEF MoneyOk, DeletionTyped
<1>5. r.problem <=> r.short > 0
  BY <1>3
<1> QED BY <1>2, <1>4, <1>5, MoveMoney

\* Money: with nobody at work, one starts.
LEMMA StartMoney ==
    ASSUME DeletionTyped, MoneyOk, NEW w \in Workers, NEW r \in Closing,
           \A v \in Workers : worker[v] = D!Idle,
           worker' = [worker EXCEPT ![w] = r], exists,
           \/ r.pc = "cancel" /\ r.reason = "account_deleted"
           \/ r.pc = "balance" /\ r.reason = "credit_after_end",
           r.unused = 0, r.refunded = 0, r.short = 0, ~r.problem,
           UNCHANGED <<exists, credit, Owed, back>>, Owed = back + credit
    PROVE  MoneyOk'
<1>1. /\ worker'[w] = r /\ \A v \in Workers \ {w} : worker'[v] = worker[v]
  BY OneMoves
<1>2. \A v \in Workers : worker'[v].pc # "idle" => v = w
  BY <1>1, IdlePc
<1>3. r.pc \in {"cancel", "balance"} /\ r.reason \in {"account_deleted", "credit_after_end"}
  OBVIOUS
<1>4. Balanced(w)'
  <2>1. Owed' = back' + credit' + worker'[w].unused
    BY <1>1 DEF DeletionTyped
  <2>2. worker'[w].refunded = 0 /\ worker'[w].short = 0 /\ worker'[w].unused = 0
    BY <1>1
  <2> QED BY <1>1, <1>3, <2>1, <2>2 DEF Balanced
<1>5. worker'[w].problem <=> worker'[w].short > 0
  <2>1. ~worker'[w].problem
    BY <1>1
  <2>2. ~(worker'[w].short > 0)
    BY <1>1
  <2> QED BY <2>1, <2>2
<1>6. ~D!Quiet'
  BY <1>1, <1>3, IdlePc DEF D!Quiet
<1>7. \A v \in Workers : worker'[v].pc # "idle" =>
          /\ exists'
          /\ worker'[v].reason \in {"account_deleted", "credit_after_end"}
          /\ worker'[v].problem <=> worker'[v].short > 0
          /\ Balanced(v)'
  BY <1>1, <1>2, <1>3, <1>4, <1>5
<1> QED BY <1>2, <1>6, <1>7 DEF MoneyOk

\* Money: nobody is at work any more.
LEMMA EndMoney ==
    ASSUME DeletionTyped, MoneyOk, NEW w \in Workers, D!Idle \in Closing,
           worker' = [worker EXCEPT ![w] = D!Idle], worker[w].pc # "idle",
           UNCHANGED <<credit, Owed, back>>,
           exists' => Owed = back + credit,
           ~exists' => Owed = back + listed'
    PROVE  MoneyOk'
<1>1. /\ worker'[w] = D!Idle /\ \A v \in Workers \ {w} : worker'[v] = worker[v]
  BY OneMoves
<1>2. \A v \in Workers : worker'[v].pc = "idle"
  BY <1>1, IdlePc DEF MoneyOk
<1> QED BY <1>2 DEF MoneyOk

\* Stripe by itself.
LEMMA CheckoutKeeps ==
    ASSUME DeletionInv, NEW t \in Subscriptions, D!Checkout(t)
    PROVE  DeletionInv'
<1>1. /\ DeletionTyped /\ ListsOk
      /\ subs' = [subs EXCEPT ![t] = "live"]
      /\ late' = IF exists /\ D!Quiet THEN late ELSE late \cup {t}
      /\ UNCHANGED <<exists, credit, left, keys, ended, worker>>
      /\ UNCHANGED <<due, slipped, Owed, back, listed, odd>>
  BY DEF DeletionInv, D!Checkout, Owed
<1>2. DeletionTyped'
  BY <1>1 DEF DeletionTyped
<1>3. ASSUME NEW w \in Workers PROVE ListOk(w)'
  <2>1. CASE exists /\ D!Quiet
    BY <1>1, <2>1, IdleReason DEF D!Quiet, ListOk
  <2>2. CASE ~(exists /\ D!Quiet)
    BY <1>1, <2>2 DEF ListsOk, ListOk, Live, DeletionTyped
  <2> QED BY <2>1, <2>2
<1>4. ListsOk'
  BY <1>1, <1>3 DEF ListsOk, Live, DeletionTyped
<1>5. odd' = {} => MoneyOk'
  BY <1>1 DEF DeletionInv, MoneyOk, Balanced, D!Quiet
<1> QED BY <1>2, <1>4, <1>5 DEF DeletionInv

LEMMA PeriodEndsKeeps ==
    ASSUME DeletionInv, NEW t \in Subscriptions, D!PeriodEnds(t)
    PROVE  DeletionInv'
<1>1. /\ DeletionTyped /\ ListsOk
      /\ subs' = [subs EXCEPT ![t] = "ended"]
      /\ UNCHANGED <<exists, credit, left, keys, worker>>
      /\ UNCHANGED <<due, slipped, Owed, back, listed, late, odd>>
  BY DEF DeletionInv, D!PeriodEnds, D!History, Owed
<1>2. DeletionTyped'
  BY <1>1 DEF DeletionTyped
<1>3. \A s \in Subscriptions : Live(s)' => Live(s)
  BY <1>1 DEF Live, DeletionTyped
<1>4. ListsOk'
  BY <1>1, <1>3 DEF ListsOk, ListOk
<1>5. odd' = {} => MoneyOk'
  BY <1>1 DEF DeletionInv, MoneyOk, Balanced, D!Quiet
<1> QED BY <1>2, <1>4, <1>5 DEF DeletionInv

\* A try, or the webhook, starts.
LEMMA ConfirmKeeps ==
    ASSUME D!DeletionAssumption, DeletionInv, NEW w \in Workers, D!Confirm(w)
    PROVE  DeletionInv'
<1> DEFINE live == {s \in Subscriptions : subs[s] = "live"}
           r == [D!Idle EXCEPT !.pc = "cancel", !.reason = "account_deleted", !.todo = live]
<1>1. DeletionTyped /\ ListsOk /\ exists
  BY DEF DeletionInv, D!Confirm
<1>2. /\ r \in Closing /\ r.pc = "cancel" /\ r.reason = "account_deleted" /\ r.todo = live
      /\ Len(r.seen) = Len(Payouts) /\ r.unused = 0 /\ r.refunded = 0 /\ r.short = 0
      /\ ~r.problem
  BY IdleClosing DEF Closing
<1>3. /\ worker' = [worker EXCEPT ![w] = r] /\ worker[w] = D!Idle
      /\ odd' = IF D!Quiet THEN odd ELSE odd \cup {"overlap"}
      /\ late' = IF D!Quiet THEN {} ELSE late
      /\ UNCHANGED <<exists, due, slipped, Owed, back, listed, subs, credit, left>>
  BY DEF D!Confirm, D!Start, D!Set, D!Stripe, Owed
<1> HIDE DEF r
<1>4. DeletionTyped'
  <2>1. late' \subseteq Subscriptions
    BY <1>1, <1>3 DEF DeletionTyped
  <2> QED BY <1>1, <1>2, <1>3, <2>1, MoveTyped DEF DeletionTyped
<1>5. ListsOk'
  <2>1. /\ worker'[w] = r /\ \A v \in Workers \ {w} : worker'[v] = worker[v]
    BY <1>1, <1>2, <1>3, OneMoves
  <2>2. ASSUME NEW v \in Workers PROVE ListOk(v)'
    <3>1. CASE v = w
      BY <1>2, <1>3, <2>1, <3>1 DEF ListOk, Live
    <3>2. CASE v # w /\ D!Quiet
      BY <1>3, <2>1, <3>2, IdleReason DEF ListOk, D!Quiet
    <3>3. CASE v # w /\ ~D!Quiet
      BY <1>1, <1>3, <2>1, <3>3 DEF ListOk, ListsOk, Live
    <3> QED BY <3>1, <3>2, <3>3
  <2> QED BY <1>1, <1>3, <2>2 DEF ListsOk
<1>6. ASSUME odd' = {} PROVE MoneyOk'
  <2>1. D!Quiet /\ MoneyOk
    BY <1>3, <1>6 DEF DeletionInv
  <2>2. Owed = back + credit
    BY <1>1, <2>1 DEF MoneyOk
  <2> QED BY <1>1, <1>2, <1>3, <2>1, <2>2, StartMoney DEF D!Quiet
<1> QED BY <1>4, <1>5, <1>6 DEF DeletionInv

LEMMA CreditAfterEndKeeps ==
    ASSUME D!DeletionAssumption, DeletionInv, NEW w \in Workers, NEW t, D!CreditAfterEnd(w, t)
    PROVE  DeletionInv'
<1> DEFINE r == [D!Idle EXCEPT !.pc = "balance", !.reason = "credit_after_end"]
<1>1. DeletionTyped /\ ListsOk
  BY DEF DeletionInv
<1>2. /\ r \in Closing /\ r.pc = "balance" /\ r.reason = "credit_after_end"
      /\ Len(r.seen) = Len(Payouts) /\ r.unused = 0 /\ r.refunded = 0 /\ r.short = 0
      /\ ~r.problem
  BY IdleClosing DEF Closing
<1>3. UNCHANGED <<exists, due, slipped, Owed, back, listed, late, subs, credit, left>>
  BY DEF D!CreditAfterEnd, D!Stripe, Owed
<1>4. CASE UNCHANGED <<worker, odd>>
  <2>1. DeletionTyped' /\ ListsOk'
    BY <1>1, <1>3, <1>4 DEF DeletionTyped, ListsOk, ListOk, Live
  <2>2. odd' = {} => MoneyOk'
    BY <1>3, <1>4 DEF DeletionInv, MoneyOk, Balanced, D!Quiet
  <2> QED BY <2>1, <2>2 DEF DeletionInv
<1>5. CASE exists /\ D!Start(w, r)
  <2>1. /\ worker' = [worker EXCEPT ![w] = r] /\ worker[w] = D!Idle
        /\ odd' = IF D!Quiet THEN odd ELSE odd \cup {"overlap"}
    BY <1>5 DEF D!Start, D!Set
  <2> HIDE DEF r
  <2>2. DeletionTyped'
    BY <1>1, <1>2, <1>3, <2>1, MoveTyped DEF DeletionTyped
  <2>3. ListsOk'
    BY <1>1, <1>2, <1>3, <2>1, MoveLists DEF Live
  <2>4. ASSUME odd' = {} PROVE MoneyOk'
    <3>1. D!Quiet /\ MoneyOk
      BY <2>1, <2>4 DEF DeletionInv
    <3>2. Owed = back + credit
      BY <1>5, <3>1 DEF MoneyOk
    <3> QED BY <1>1, <1>2, <1>3, <1>5, <2>1, <3>1, <3>2, StartMoney DEF D!Quiet
  <2> QED BY <2>2, <2>3, <2>4 DEF DeletionInv
<1> QED BY <1>4, <1>5 DEF D!CreditAfterEnd

\* The worker at work.
LEMMA AtWork ==
    ASSUME D!DeletionAssumption, DeletionInv, NEW w \in Workers, worker[w].pc # "idle"
    PROVE  /\ DeletionTyped /\ ListsOk /\ ListOk(w) /\ worker[w] \in Closing
           /\ Len(worker[w].seen) = Len(Payouts) /\ Len(left) = Len(Payouts)
           /\ odd = {} => /\ MoneyOk /\ exists /\ Balanced(w)
                          /\ worker[w].problem <=> worker[w].short > 0
BY DEF DeletionInv, DeletionTyped, ListsOk, MoneyOk

LEMMA CancelKeeps ==
    ASSUME D!DeletionAssumption, DeletionInv, NEW w \in Workers, NEW t \in Subscriptions,
           D!Cancel(w, t)
    PROVE  DeletionInv'
<1> DEFINE worth == IF subs[t] = "live" THEN Worth[t] ELSE 0
           r == [worker[w] EXCEPT !.todo = @ \ {t}, !.unused = @ + worth]
<1>1. worker[w].pc = "cancel"
  BY DEF D!Cancel
<1>2. /\ DeletionTyped /\ ListsOk /\ ListOk(w) /\ worker[w] \in Closing
      /\ Len(worker[w].seen) = Len(Payouts) /\ Len(left) = Len(Payouts)
      /\ odd = {} => /\ MoneyOk /\ exists /\ Balanced(w)
                     /\ worker[w].problem <=> worker[w].short > 0
  BY <1>1, AtWork
<1>3. worth \in Nat
  BY DEF D!DeletionAssumption
<1>4. /\ worker' = [worker EXCEPT ![w] = r] /\ due' = due + worth
      /\ subs' = [subs EXCEPT ![t] = "ended"]
      /\ UNCHANGED <<exists, slipped, credit, left, back, listed, late, odd>>
  BY DEF D!Cancel, D!Set
<1>0. Owed' = Owed + worth
  BY <1>2, <1>3, <1>4 DEF DeletionTyped, Owed
<1> HIDE DEF worth
<1>5. /\ r \in Closing /\ r.pc = "cancel" /\ r.reason = worker[w].reason
      /\ r.todo = worker[w].todo \ {t} /\ r.unused = worker[w].unused + worth
      /\ r.seen = worker[w].seen /\ r.refunded = worker[w].refunded
      /\ r.short = worker[w].short /\ r.problem = worker[w].problem
      /\ r.failed = worker[w].failed
  <2>0. worker[w].todo \in SUBSET Subscriptions /\ worker[w].unused \in Nat
    BY <1>2 DEF Closing
  <2>1. /\ worker[w].todo \ {t} \in SUBSET Subscriptions
        /\ worker[w].unused + worth \in Nat
    BY <1>3, <2>0
  <2> QED BY <1>1, <1>2, <2>1 DEF Closing
<1> HIDE DEF r
<1>6. DeletionTyped'
  <2>1. /\ due' \in Int /\ slipped' \in Int /\ Owed' \in Int
        /\ subs' \in [Subscriptions -> {"none", "live", "ended"}]
    BY <1>0, <1>2, <1>3, <1>4 DEF DeletionTyped
  <2>2. /\ exists' \in BOOLEAN /\ credit' \in Int /\ back' \in Int /\ listed' \in Int
        /\ left' \in Seq(Nat) /\ Len(left') = Len(Payouts) /\ late' \subseteq Subscriptions
    BY <1>2, <1>4 DEF DeletionTyped
  <2>3. r.reason = "account_deleted" /\ r.refunded = 0
    BY <1>1, <1>2, <1>5 DEF DeletionTyped
  <2> QED BY <1>2, <1>4, <1>5, <2>1, <2>2, <2>3, MoveTyped
<1>7. ListsOk'
  <2>1. \A s \in Subscriptions : subs'[s] = "live" => Live(s) /\ s # t
    BY <1>2, <1>4 DEF DeletionTyped, Live
  <2> QED BY <1>2, <1>4, <1>5, <2>1, MoveLists DEF ListOk
<1>8. ASSUME odd' = {} PROVE MoneyOk'
  <2>1. /\ MoneyOk /\ exists /\ Balanced(w) /\ odd = {}
        /\ worker[w].problem <=> worker[w].short > 0
    BY <1>2, <1>4, <1>8
  <2>2. /\ Owed = back + credit + worker[w].unused
        /\ worker[w].refunded = 0 /\ worker[w].short = 0
        /\ worker[w].reason = "credit_after_end" => worker[w].unused = 0
        /\ worker[w].reason # "credit_after_end"
    BY <1>1, <1>2, <2>1 DEF Balanced, DeletionTyped
  <2>3. worker'[w] = r
    BY <1>2, <1>4, <1>5, OneMoves
  <2>4. Owed' = back' + credit' + worker'[w].unused
    <3>1. /\ Owed \in Int /\ back \in Int /\ credit \in Int /\ worker[w].unused \in Nat
          /\ Owed' = Owed + worth /\ back' = back /\ credit' = credit
          /\ worker'[w].unused = worker[w].unused + worth
      BY <1>0, <1>2, <1>4, <1>5, <2>3 DEF DeletionTyped, Closing
    <3> HIDE DEF r
    <3> QED BY <1>3, <2>2, <3>1
  <2>5. Balanced(w)'
    BY <1>5, <2>2, <2>3, <2>4 DEF Balanced
  <2>6. credit' >= 0 /\ back' >= 0 /\ back' <= Owed'
    BY <1>0, <1>2, <1>3, <1>4, <2>1 DEF MoneyOk, DeletionTyped
  <2> QED BY <1>1, <1>2, <1>4, <1>5, <2>1, <2>5, <2>6, MoveMoney
<1> QED BY <1>6, <1>7, <1>8 DEF DeletionInv

LEMMA CancelFailsKeeps ==
    ASSUME D!DeletionAssumption, DeletionInv, NEW w \in Workers, NEW t \in Subscriptions,
           D!CancelFails(w, t)
    PROVE  DeletionInv'
<1> DEFINE r == [worker[w] EXCEPT !.pc = "balance", !.failed = TRUE]
<1>1. worker[w].pc = "cancel"
  BY DEF D!CancelFails
<1>2. /\ DeletionTyped /\ ListsOk /\ ListOk(w) /\ worker[w] \in Closing
      /\ Len(worker[w].seen) = Len(Payouts) /\ Len(left) = Len(Payouts)
      /\ odd = {} => /\ MoneyOk /\ exists /\ Balanced(w)
                     /\ worker[w].problem <=> worker[w].short > 0
  BY <1>1, AtWork
<1>3. /\ worker' = [worker EXCEPT ![w] = r]
      /\ UNCHANGED <<exists, subs, credit, left, due, slipped, Owed, back, listed, late, odd>>
  BY DEF D!CancelFails, D!Set, D!Stripe, D!History, Owed
<1>4. /\ r \in Closing /\ r.pc = "balance" /\ r.reason = worker[w].reason
      /\ r.unused = worker[w].unused /\ r.seen = worker[w].seen
      /\ r.refunded = worker[w].refunded /\ r.short = worker[w].short
      /\ r.problem = worker[w].problem /\ r.failed
  BY <1>2 DEF Closing
<1> HIDE DEF r
<1>5. DeletionTyped'
  <2>1. r.refunded = 0
    BY <1>1, <1>2, <1>4 DEF DeletionTyped
  <2> QED BY <1>2, <1>3, <1>4, <2>1, MoveTyped DEF DeletionTyped
<1>6. ListsOk'
  BY <1>2, <1>3, <1>4, MoveLists DEF Live
<1>7. ASSUME odd' = {} PROVE MoneyOk'
  BY <1>1, <1>2, <1>3, <1>4, <1>7, SameMoney
<1> QED BY <1>5, <1>6, <1>7 DEF DeletionInv

\* A cancellation Stripe made, its answer lost: what is due grows, and what
\* slipped by as much.
LEMMA CancelLostKeeps ==
    ASSUME D!DeletionAssumption, DeletionInv, NEW w \in Workers, NEW t \in Subscriptions,
           NEW again \in BOOLEAN, D!CancelLost(w, t, again)
    PROVE  DeletionInv'
<1> DEFINE p == [worker[w] EXCEPT !.todo = @ \ {t}]
           q == [worker[w] EXCEPT !.pc = "balance", !.failed = TRUE]
<1>1. worker[w].pc = "cancel" /\ Worth[t] \in Nat
  BY DEF D!CancelLost, D!DeletionAssumption
<1>2. /\ DeletionTyped /\ ListsOk /\ ListOk(w) /\ worker[w] \in Closing
      /\ Len(worker[w].seen) = Len(Payouts) /\ Len(left) = Len(Payouts)
      /\ odd = {} => /\ MoneyOk /\ exists /\ Balanced(w)
                     /\ worker[w].problem <=> worker[w].short > 0
  BY <1>1, AtWork
<1>3. /\ worker' = [worker EXCEPT ![w] = p] \/ worker' = [worker EXCEPT ![w] = q]
      /\ due' = due + Worth[t] /\ slipped' = slipped + Worth[t]
      /\ subs' = [subs EXCEPT ![t] = "ended"]
      /\ UNCHANGED <<exists, credit, left, back, listed, late, odd>>
  BY DEF D!CancelLost, D!Set
<1>4. /\ due' \in Int /\ slipped' \in Int /\ Owed' = Owed
      /\ subs' \in [Subscriptions -> {"none", "live", "ended"}]
  BY <1>1, <1>2, <1>3 DEF DeletionTyped, Owed
<1>5. /\ p \in Closing /\ p.pc = "cancel" /\ p.todo = worker[w].todo \ {t}
      /\ p.failed = worker[w].failed
      /\ q \in Closing /\ q.pc = "balance" /\ q.failed
      /\ \A r \in {p, q} :
            /\ r.reason = worker[w].reason /\ r.seen = worker[w].seen
            /\ r.unused = worker[w].unused /\ r.refunded = worker[w].refunded
            /\ r.short = worker[w].short /\ r.problem = worker[w].problem
  <2>1. worker[w].todo \ {t} \in SUBSET Subscriptions
    BY <1>2 DEF Closing
  <2> QED BY <1>1, <1>2, <2>1 DEF Closing
<1> HIDE DEF p, q
<1>6. worker[w].refunded = 0 /\ worker[w].reason = "account_deleted"
  BY <1>1, <1>2 DEF DeletionTyped
<1>7. ASSUME NEW r \in {p, q}, worker' = [worker EXCEPT ![w] = r]
      PROVE  DeletionInv'
  <2>1. DeletionTyped'
    BY <1>2, <1>3, <1>4, <1>5, <1>6, <1>7, MoveTyped DEF DeletionTyped
  <2>2. \A s \in Subscriptions : subs'[s] = "live" => Live(s) /\ s # t
    BY <1>2, <1>3 DEF DeletionTyped, Live
  <2>3. ListsOk'
    BY <1>1, <1>2, <1>3, <1>5, <1>7, <2>2, MoveLists DEF ListOk
  <2>4. ASSUME odd' = {} PROVE MoneyOk'
    <3>1. /\ MoneyOk /\ exists /\ Balanced(w)
          /\ worker[w].problem <=> worker[w].short > 0
      BY <1>2, <1>3, <2>4
    <3>2. worker'[w] = r
      BY <1>2, <1>5, <1>7, OneMoves
    <3>3. Balanced(w)'
      BY <1>1, <1>3, <1>4, <1>5, <3>1, <3>2 DEF Balanced
    <3>4. credit' >= 0 /\ back' >= 0 /\ back' <= Owed'
      BY <1>2, <1>3, <1>4, <3>1 DEF MoneyOk, DeletionTyped
    <3> QED BY <1>1, <1>2, <1>3, <1>5, <1>7, <3>1, <3>3, <3>4, MoveMoney
  <2> QED BY <2>1, <2>3, <2>4 DEF DeletionInv
<1> QED BY <1>3, <1>7

LEMMA CancelledKeeps ==
    ASSUME D!DeletionAssumption, DeletionInv, NEW w \in Workers, D!Cancelled(w)
    PROVE  DeletionInv'
<1> DEFINE r == [worker[w] EXCEPT !.pc = "balance"]
<1>1. worker[w].pc = "cancel" /\ worker[w].todo = {}
  BY DEF D!Cancelled
<1>2. /\ DeletionTyped /\ ListsOk /\ ListOk(w) /\ worker[w] \in Closing
      /\ Len(worker[w].seen) = Len(Payouts) /\ Len(left) = Len(Payouts)
      /\ odd = {} => /\ MoneyOk /\ exists /\ Balanced(w)
                     /\ worker[w].problem <=> worker[w].short > 0
  BY <1>1, AtWork
<1>3. /\ worker' = [worker EXCEPT ![w] = r]
      /\ UNCHANGED <<exists, subs, credit, left, due, slipped, Owed, back, listed, late, odd>>
  BY DEF D!Cancelled, D!Set, D!Stripe, D!History, Owed
<1>4. /\ r \in Closing /\ r.pc = "balance" /\ r.reason = worker[w].reason
      /\ r.unused = worker[w].unused /\ r.seen = worker[w].seen
      /\ r.refunded = worker[w].refunded /\ r.short = worker[w].short
      /\ r.problem = worker[w].problem /\ r.failed = worker[w].failed
  BY <1>2 DEF Closing
<1> HIDE DEF r
<1>5. DeletionTyped'
  <2>1. r.refunded = 0
    BY <1>1, <1>2, <1>4 DEF DeletionTyped
  <2> QED BY <1>2, <1>3, <1>4, <2>1, MoveTyped DEF DeletionTyped
<1>6. ListsOk'
  BY <1>1, <1>2, <1>3, <1>4, MoveLists DEF ListOk, Live
<1>7. ASSUME odd' = {} PROVE MoneyOk'
  BY <1>1, <1>2, <1>3, <1>4, <1>7, SameMoney
<1> QED BY <1>5, <1>6, <1>7 DEF DeletionInv

LEMMA BalanceKeeps ==
    ASSUME D!DeletionAssumption, DeletionInv, NEW w \in Workers, D!Balance(w)
    PROVE  DeletionInv'
<1> DEFINE sum == worker[w].unused + D!CreditNow
           r == IF sum = 0 THEN [worker[w] EXCEPT !.pc = "end"]
                ELSE [worker[w] EXCEPT !.pc = "refund", !.credit = D!CreditNow,
                                       !.due = sum, !.seen = left]
<1>1. worker[w].pc = "balance"
  BY DEF D!Balance
<1>2. /\ DeletionTyped /\ ListsOk /\ ListOk(w) /\ worker[w] \in Closing
      /\ Len(worker[w].seen) = Len(Payouts) /\ Len(left) = Len(Payouts)
      /\ odd = {} => /\ MoneyOk /\ exists /\ Balanced(w)
                     /\ worker[w].problem <=> worker[w].short > 0
  BY <1>1, AtWork
<1>3. /\ worker' = [worker EXCEPT ![w] = r]
      /\ UNCHANGED <<exists, subs, credit, left, due, slipped, Owed, back, listed, late, odd>>
  BY DEF D!Balance, D!Set, D!Stripe, D!History, Owed
<1>4. /\ D!CreditNow \in Nat
      /\ credit >= 0 => D!CreditNow = credit
      /\ worker[w].unused \in Nat /\ worker[w].refunded = 0 /\ credit \in Int
      /\ Owed \in Int /\ back \in Int /\ left \in Seq(Nat)
  <2>1. /\ credit \in Int /\ Owed \in Int /\ back \in Int /\ left \in Seq(Nat)
        /\ worker[w].unused \in Nat
    BY <1>2 DEF DeletionTyped, Closing
  <2>2. worker[w].refunded = 0
    BY <1>1, <1>2 DEF DeletionTyped
  <2> QED BY <2>1, <2>2 DEF D!CreditNow
<1>5. sum \in Nat
  BY <1>4
<1>6. /\ r \in Closing /\ r.reason = worker[w].reason /\ Len(r.seen) = Len(Payouts)
      /\ r.unused = worker[w].unused /\ r.refunded = worker[w].refunded
      /\ r.short = worker[w].short
      /\ r.problem = worker[w].problem /\ r.failed = worker[w].failed
  <2> HIDE DEF sum
  <2> QED BY <1>2, <1>4, <1>5 DEF Closing
<1>7. /\ sum = 0 => r.pc = "end"
      /\ sum # 0 => r.pc = "refund" /\ r.credit = D!CreditNow /\ r.due = sum
  <2> HIDE DEF sum
  <2> QED BY <1>2 DEF Closing
<1> HIDE DEF r
<1>8. DeletionTyped'
  <2>1. r.pc \in {"refund", "clear"} => r.refunded <= r.due
    BY <1>1, <1>2, <1>4, <1>5, <1>6, <1>7 DEF DeletionTyped
  <2>2. r.pc \in {"refund", "end"}
    BY <1>7
  <2> QED BY <1>2, <1>3, <1>6, <2>1, <2>2, MoveTyped DEF DeletionTyped
<1>9. ListsOk'
  BY <1>1, <1>2, <1>3, <1>6, MoveLists DEF ListOk, Live
<1>10. ASSUME odd' = {} PROVE MoneyOk'
  <2>1. /\ MoneyOk /\ exists /\ Balanced(w)
        /\ worker[w].problem <=> worker[w].short > 0
    BY <1>2, <1>3, <1>10
  <2>2. /\ Owed = back + credit + worker[w].unused
        /\ worker[w].refunded = 0 /\ worker[w].short = 0
        /\ worker[w].reason = "credit_after_end" => worker[w].unused = 0
    BY <1>1, <2>1 DEF Balanced
  <2>3. worker'[w] = r
    BY <1>2, <1>3, <1>6, OneMoves
  <2>4. credit >= 0 /\ 0 <= back /\ back <= Owed
    BY <2>1 DEF MoneyOk
  <2>5. sum = worker[w].unused + credit
    BY <1>4, <2>4
  <2> HIDE DEF sum
  <2>6. ASSUME sum = 0 PROVE Balanced(w)'
    <3>1. credit = 0 /\ Owed = back
      BY <1>4, <2>2, <2>4, <2>5, <2>6
    <3>2. Owed' = back' + worker'[w].short /\ credit' = worker'[w].short
      BY <1>3, <1>4, <1>6, <2>2, <2>3, <3>1
    <3>3. worker'[w].pc = "end"
      BY <1>7, <2>3, <2>6
    <3> QED BY <1>3, <3>1, <3>2, <3>3 DEF Balanced
  <2>7. ASSUME sum # 0 PROVE Balanced(w)'
    <3>1. worker'[w].due = credit + worker'[w].unused /\ worker'[w].credit = credit
      BY <1>4, <1>6, <1>7, <2>3, <2>4, <2>5, <2>7
    <3>2. Owed' = back' + worker'[w].due - worker'[w].refunded
      BY <1>3, <1>4, <1>6, <2>2, <2>3, <3>1
    <3>3. worker'[w].reason = "credit_after_end" => worker'[w].unused = 0
      BY <1>6, <2>2, <2>3
    <3>4. worker'[w].pc = "refund" /\ worker'[w].short = 0 /\ credit' = credit
      BY <1>3, <1>6, <1>7, <2>2, <2>3, <2>7
    <3> QED BY <3>1, <3>2, <3>3, <3>4 DEF Balanced
  <2>8. Balanced(w)'
    BY <2>6, <2>7
  <2>9. r.pc # "idle" /\ (r.problem <=> r.short > 0)
    BY <1>6, <1>7, <2>1
  <2> QED BY <1>1, <1>2, <1>3, <1>6, <2>1, <2>4, <2>8, <2>9, MoveMoney
<1> QED BY <1>8, <1>9, <1>10 DEF DeletionInv

LEMMA RefundKeeps ==
    ASSUME D!DeletionAssumption, DeletionInv, NEW w \in Workers, D!Refund(w)
    PROVE  DeletionInv'
<1> DEFINE me == worker[w]
           share == D!Part(me)
           key == <<me.reason, me.at, share>>
           p == [me EXCEPT !.at = @ + 1]
           q == [me EXCEPT !.at = @ + 1, !.refunded = @ + share]
<1>1. me.pc = "refund" /\ me.at <= Len(Payouts) /\ me.refunded < me.due
  BY DEF D!Refund
<1>2. /\ DeletionTyped /\ ListsOk /\ ListOk(w) /\ me \in Closing
      /\ Len(me.seen) = Len(Payouts) /\ Len(left) = Len(Payouts)
      /\ odd = {} => /\ MoneyOk /\ exists /\ Balanced(w)
                     /\ me.problem <=> me.short > 0
  BY <1>1, AtWork
<1>3. /\ me.seen \in Seq(Nat) /\ me.at \in Nat \ {0} /\ me.due \in Nat
      /\ me.refunded \in Nat
  BY <1>2 DEF Closing
<1>4. me.seen[me.at] \in Nat
  BY <1>1, <1>2, <1>3
<1>5. share \in Nat /\ share <= me.due - me.refunded
  BY <1>1, <1>3, <1>4 DEF D!Part, D!Lesser
<1>6. /\ UNCHANGED <<exists, subs, credit, due, slipped, Owed, listed, late>>
      /\ \/ worker' = [worker EXCEPT ![w] = p] /\ UNCHANGED <<left, back, odd>>
         \/ worker' = [worker EXCEPT ![w] = q] /\ UNCHANGED <<left, back>> /\ odd' # {}
         \/ /\ worker' = [worker EXCEPT ![w] = q] /\ UNCHANGED odd
            /\ left[me.at] >= share /\ left' = [left EXCEPT ![me.at] = @ - share]
            /\ back' = back + share
  BY DEF D!Refund, D!Set, Owed
<1> HIDE DEF share
<1>7. /\ p \in Closing /\ p.pc = "refund" /\ p.reason = me.reason /\ p.failed = me.failed
      /\ p.seen = me.seen /\ p.refunded = me.refunded /\ p.due = me.due
      /\ p.credit = me.credit /\ p.unused = me.unused /\ p.short = me.short
      /\ p.problem = me.problem
  <2>1. me.at + 1 \in Nat \ {0}
    BY <1>3
  <2> QED BY <1>1, <1>2, <2>1 DEF Closing
<1>8. /\ q \in Closing /\ q.pc = "refund" /\ q.reason = me.reason /\ q.failed = me.failed
      /\ q.seen = me.seen /\ q.refunded = me.refunded + share /\ q.due = me.due
      /\ q.credit = me.credit /\ q.unused = me.unused /\ q.short = me.short
      /\ q.problem = me.problem
  <2>1. me.at + 1 \in Nat \ {0} /\ me.refunded + share \in Nat
    BY <1>3, <1>5
  <2> QED BY <1>1, <1>2, <2>1 DEF Closing
<1> HIDE DEF p, q
<1>9. /\ exists' \in BOOLEAN /\ subs' \in [Subscriptions -> {"none", "live", "ended"}]
      /\ credit' \in Int /\ Owed' \in Int /\ listed' \in Int /\ late' \subseteq Subscriptions
      /\ back \in Int /\ left \in Seq(Nat) /\ credit \in Int /\ Owed \in Int
  BY <1>2, <1>6 DEF DeletionTyped
<1>0. due' \in Int /\ slipped' \in Int
  BY <1>2, <1>6 DEF DeletionTyped
<1>10. back' \in Int /\ left' \in Seq(Nat) /\ Len(left') = Len(Payouts)
  <2>1. CASE UNCHANGED <<left, back>>
    BY <1>2, <1>9, <2>1
  <2>2. CASE /\ left[me.at] >= share /\ left' = [left EXCEPT ![me.at] = @ - share]
             /\ back' = back + share
    <3>1. me.at \in 1..Len(left) /\ left[me.at] \in Nat
      <4>1. left \in Seq(Nat) /\ Len(left) = Len(Payouts)
        BY <1>2, <1>9
      <4>2. me.at \in Nat \ {0} /\ me.at <= Len(Payouts)
        BY <1>1, <1>3
      <4> HIDE DEF me
      <4> QED BY <4>1, <4>2
    <3>2. left[me.at] - share \in Nat
      BY <1>5, <2>2, <3>1
    <3>3. left' \in Seq(Nat) /\ Len(left') = Len(left)
      BY <1>9, <2>2, <3>1, <3>2
    <3> QED BY <1>2, <1>5, <1>9, <2>2, <3>3
  <2> QED BY <1>6, <2>1, <2>2
<1>11. p.refunded <= p.due /\ q.refunded <= q.due
  BY <1>1, <1>3, <1>5, <1>7, <1>8
<1>12. ASSUME NEW r \in {p, q}, worker' = [worker EXCEPT ![w] = r]
       PROVE  DeletionTyped' /\ ListsOk' /\ worker'[w] = r
  <2>1. /\ r \in Closing /\ r.pc = "refund" /\ r.reason = me.reason /\ r.failed = me.failed
        /\ r.seen = me.seen /\ r.refunded <= r.due
    BY <1>7, <1>8, <1>11
  <2>2. DeletionTyped'
    BY <1>0, <1>2, <1>9, <1>10, <1>12, <2>1, MoveTyped
  <2>3. ListsOk'
    BY <1>1, <1>2, <1>6, <1>12, <2>1, MoveLists DEF ListOk, Live
  <2> QED BY <1>2, <1>12, <2>1, <2>2, <2>3, OneMoves
\* What is still to go back, in money and in the worker's books.
<1>13. ASSUME odd = {}
       PROVE  /\ MoneyOk /\ exists
              /\ me.problem <=> me.short > 0
              /\ Owed = back + me.due - me.refunded
              /\ me.credit = credit /\ me.short = 0 /\ me.due = credit + me.unused
              /\ me.reason = "credit_after_end" => me.unused = 0
              /\ credit >= 0 /\ 0 <= back /\ back <= Owed
  BY <1>1, <1>2, <1>13 DEF Balanced, MoneyOk
<1>14. CASE worker' = [worker EXCEPT ![w] = p] /\ UNCHANGED <<left, back, odd>>
  <2>1. DeletionTyped' /\ ListsOk' /\ worker'[w] = p
    BY <1>12, <1>14
  <2>2. ASSUME odd' = {} PROVE MoneyOk'
    <3>1. Balanced(w)'
      BY <1>6, <1>7, <1>13, <1>14, <2>1, <2>2 DEF Balanced
    <3>2. credit' >= 0 /\ back' >= 0 /\ back' <= Owed' /\ exists' = exists
      BY <1>6, <1>13, <1>14, <2>2
    <3>3. p.problem <=> p.short > 0
      BY <1>7, <1>13, <1>14, <2>2
    <3> QED BY <1>1, <1>2, <1>7, <1>13, <1>14, <2>2, <3>1, <3>2, <3>3, MoveMoney
  <2> QED BY <2>1, <2>2 DEF DeletionInv
<1>15. CASE worker' = [worker EXCEPT ![w] = q] /\ odd' # {}
  <2>1. DeletionTyped' /\ ListsOk' /\ worker'[w] = q
    BY <1>12, <1>15
  <2> QED BY <1>15, <2>1 DEF DeletionInv
<1>16. CASE worker' = [worker EXCEPT ![w] = q] /\ UNCHANGED odd /\ back' = back + share
  <2>1. DeletionTyped' /\ ListsOk' /\ worker'[w] = q
    BY <1>12, <1>16
  <2>2. ASSUME odd' = {} PROVE MoneyOk'
    <3>1. Owed' = back' + worker'[w].due - worker'[w].refunded
      <4>1. /\ Owed = back + me.due - me.refunded /\ Owed' = Owed /\ back' = back + share
            /\ worker'[w].due = me.due /\ worker'[w].refunded = me.refunded + share
        BY <1>6, <1>8, <1>13, <1>16, <2>1, <2>2
      <4> QED BY <1>3, <1>5, <1>9, <4>1
    <3>2. /\ worker'[w].pc = "refund" /\ worker'[w].credit = credit' /\ worker'[w].short = 0
          /\ worker'[w].due = credit' + worker'[w].unused
          /\ worker'[w].reason = "credit_after_end" => worker'[w].unused = 0
      BY <1>6, <1>8, <1>13, <1>16, <2>1, <2>2
    <3>3. Balanced(w)'
      BY <3>1, <3>2 DEF Balanced
    <3>4. credit' >= 0 /\ back' >= 0 /\ exists' = exists /\ back' <= Owed'
      BY <1>3, <1>5, <1>6, <1>9, <1>13, <1>16, <2>2
    <3>5. q.problem <=> q.short > 0
      BY <1>8, <1>13, <1>16, <2>2
    <3> QED BY <1>1, <1>2, <1>8, <1>13, <1>16, <2>2, <3>3, <3>4, <3>5, MoveMoney
  <2> QED BY <2>1, <2>2 DEF DeletionInv
<1> QED BY <1>6, <1>14, <1>15, <1>16

LEMMA RefundedKeeps ==
    ASSUME D!DeletionAssumption, DeletionInv, NEW w \in Workers, D!Refunded(w)
    PROVE  DeletionInv'
<1> DEFINE r == [worker[w] EXCEPT !.pc = "clear"]
<1>1. worker[w].pc = "refund"
  BY DEF D!Refunded
<1>2. /\ DeletionTyped /\ ListsOk /\ ListOk(w) /\ worker[w] \in Closing
      /\ Len(worker[w].seen) = Len(Payouts) /\ Len(left) = Len(Payouts)
      /\ odd = {} => /\ MoneyOk /\ exists /\ Balanced(w)
                     /\ worker[w].problem <=> worker[w].short > 0
  BY <1>1, AtWork
<1>3. /\ worker' = [worker EXCEPT ![w] = r]
      /\ UNCHANGED <<exists, subs, credit, left, due, slipped, Owed, back, listed, late, odd>>
  BY DEF D!Refunded, D!Set, D!Stripe, D!History, Owed
<1>4. /\ r \in Closing /\ r.pc = "clear" /\ r.reason = worker[w].reason
      /\ r.unused = worker[w].unused /\ r.seen = worker[w].seen
      /\ r.refunded = worker[w].refunded /\ r.due = worker[w].due
      /\ r.credit = worker[w].credit /\ r.short = worker[w].short
      /\ r.problem = worker[w].problem /\ r.failed = worker[w].failed
  BY <1>2 DEF Closing
<1> HIDE DEF r
<1>5. DeletionTyped'
  <2>1. r.refunded <= r.due
    BY <1>1, <1>2, <1>4 DEF DeletionTyped
  <2> QED BY <1>2, <1>3, <1>4, <2>1, MoveTyped DEF DeletionTyped
<1>6. ListsOk'
  BY <1>1, <1>2, <1>3, <1>4, MoveLists DEF ListOk, Live
<1>7. ASSUME odd' = {} PROVE MoneyOk'
  <2>1. worker'[w] = r
    BY <1>2, <1>3, <1>4, OneMoves
  <2>2. Balanced(w)'
    BY <1>1, <1>2, <1>3, <1>4, <1>7, <2>1 DEF Balanced
  <2>3. MoneyOk /\ credit' >= 0 /\ back' >= 0 /\ back' <= Owed'
    BY <1>2, <1>3, <1>7 DEF MoneyOk, DeletionTyped
  <2>4. r.problem <=> r.short > 0
    BY <1>2, <1>3, <1>4, <1>7
  <2> QED BY <1>1, <1>2, <1>3, <1>4, <2>2, <2>3, <2>4, MoveMoney
<1> QED BY <1>5, <1>6, <1>7 DEF DeletionInv

LEMMA ClearKeeps ==
    ASSUME D!DeletionAssumption, DeletionInv, NEW w \in Workers, D!Clear(w)
    PROVE  DeletionInv'
<1> DEFINE me == worker[w]
           cleared == D!Lesser(me.credit, me.refunded)
           rest == me.due - me.refunded
           flag == me.problem \/ me.refunded < me.due
           r == [me EXCEPT !.pc = "end", !.short = rest, !.problem = flag]
<1>1. me.pc = "clear"
  BY DEF D!Clear
<1>2. /\ DeletionTyped /\ ListsOk /\ ListOk(w) /\ me \in Closing
      /\ Len(me.seen) = Len(Payouts) /\ Len(left) = Len(Payouts)
      /\ odd = {} => /\ MoneyOk /\ exists /\ Balanced(w)
                     /\ me.problem <=> me.short > 0
  BY <1>1, AtWork
<1>3. /\ worker' = [worker EXCEPT ![w] = r] /\ credit' = credit - cleared
      /\ UNCHANGED <<exists, subs, left, due, slipped, Owed, back, listed, late, odd>>
  BY DEF D!Clear, D!Set, Owed
<1>4. /\ me.due \in Nat /\ me.refunded \in Nat /\ me.refunded <= me.due
      /\ me.credit \in Nat /\ me.problem \in BOOLEAN
      /\ credit \in Int /\ Owed \in Int /\ back \in Int
  <2>1. /\ me.due \in Nat /\ me.refunded \in Nat /\ me.credit \in Nat
        /\ me.problem \in BOOLEAN
    BY <1>2 DEF Closing
  <2> QED BY <1>1, <1>2, <2>1 DEF DeletionTyped
<1>5. rest \in Nat /\ cleared \in Int /\ flag \in BOOLEAN
  BY <1>4 DEF D!Lesser
<1>6. /\ r \in Closing /\ r.pc = "end" /\ r.reason = me.reason /\ r.seen = me.seen
      /\ r.unused = me.unused /\ r.failed = me.failed /\ r.short = rest /\ r.problem = flag
  <2> HIDE DEF rest, flag
  <2> QED BY <1>2, <1>5 DEF Closing
<1> HIDE DEF r
<1>7. DeletionTyped'
  <2>1. credit' \in Int
    BY <1>3, <1>4, <1>5
  <2> HIDE DEF rest, flag, cleared
  <2> QED BY <1>2, <1>3, <1>6, <2>1, MoveTyped DEF DeletionTyped
<1>8. ListsOk'
  <2> HIDE DEF rest, flag, cleared
  <2> QED BY <1>1, <1>2, <1>3, <1>6, MoveLists DEF ListOk, Live
<1>9. ASSUME odd' = {} PROVE MoneyOk'
  <2>1. /\ MoneyOk /\ exists
        /\ ~me.problem
        /\ Owed = back + me.due - me.refunded
        /\ me.credit = credit /\ me.short = 0 /\ me.due = credit + me.unused
        /\ me.reason = "credit_after_end" => me.unused = 0
        /\ credit >= 0 /\ 0 <= back /\ back <= Owed
    <3>1. odd = {}
      BY <1>3, <1>9
    <3>2. /\ MoneyOk /\ exists /\ Balanced(w)
          /\ me.problem <=> me.short > 0
      BY <1>2, <3>1
    <3>3. /\ Owed = back + me.due - me.refunded
          /\ me.credit = credit /\ me.short = 0 /\ me.due = credit + me.unused
          /\ me.reason = "credit_after_end" => me.unused = 0
      BY <1>1, <3>2 DEF Balanced
    <3>4. credit >= 0 /\ 0 <= back /\ back <= Owed
      BY <3>2 DEF MoneyOk
    <3> QED BY <3>2, <3>3, <3>4
  <2>2. flag <=> rest > 0
    <3>1. flag <=> me.refunded < me.due
      BY <2>1
    <3>2. me.refunded < me.due <=> rest > 0
      BY <1>4
    <3> QED BY <3>1, <3>2
  <2>3. worker'[w] = r
    BY <1>2, <1>3, <1>6, OneMoves
  <2>4. /\ Owed' = back' + rest
        /\ me.reason = "credit_after_end" => credit' = rest
        /\ rest = 0 => credit' = 0
        /\ credit' >= 0
    <3>1. me.unused \in Nat
      BY <1>2 DEF Closing
    <3> QED BY <1>3, <1>4, <2>1, <3>1 DEF D!Lesser
  <2> HIDE DEF rest, flag, cleared
  <2>5. Balanced(w)'
    BY <1>6, <2>3, <2>4 DEF Balanced
  <2>6. r.problem <=> r.short > 0
    BY <1>6, <2>2
  <2>7. back' >= 0 /\ back' <= Owed'
    BY <1>3, <2>1
  <2> QED BY <1>1, <1>2, <1>3, <1>6, <2>1, <2>4, <2>5, <2>6, <2>7, MoveMoney
<1> QED BY <1>7, <1>8, <1>9 DEF DeletionInv

\* A refund that fails, and a worker that is killed: the money is excepted.
LEMMA ReturnFailsKeeps ==
    ASSUME D!DeletionAssumption, DeletionInv, NEW w \in Workers, D!ReturnFails(w)
    PROVE  DeletionInv'
<1> DEFINE r == [worker[w] EXCEPT !.pc = "end", !.problem = TRUE]
<1>1. worker[w].pc \in {"balance", "refund", "clear"}
  BY DEF D!ReturnFails
<1>2. /\ DeletionTyped /\ ListsOk /\ ListOk(w) /\ worker[w] \in Closing
      /\ Len(worker[w].seen) = Len(Payouts) /\ Len(left) = Len(Payouts)
  BY <1>1, AtWork
<1>3. /\ worker' = [worker EXCEPT ![w] = r] /\ odd' # {}
      /\ UNCHANGED <<exists, subs, credit, left, due, slipped, Owed, back, listed, late>>
  BY DEF D!ReturnFails, D!Set, D!Stripe, Owed
<1>4. /\ r \in Closing /\ r.pc = "end" /\ r.reason = worker[w].reason
      /\ r.seen = worker[w].seen /\ r.failed = worker[w].failed
  BY <1>2 DEF Closing
<1> HIDE DEF r
<1>5. DeletionTyped'
  BY <1>2, <1>3, <1>4, MoveTyped DEF DeletionTyped
<1>6. ListsOk'
  BY <1>1, <1>2, <1>3, <1>4, MoveLists DEF ListOk, Live
<1> QED BY <1>3, <1>5, <1>6 DEF DeletionInv

LEMMA CrashKeeps ==
    ASSUME D!DeletionAssumption, DeletionInv, NEW w \in Workers, D!Crash(w)
    PROVE  DeletionInv'
<1>1. /\ worker' = [worker EXCEPT ![w] = D!Idle] /\ odd' # {}
      /\ UNCHANGED <<exists, subs, credit, left, due, slipped, Owed, back, listed, late>>
  BY DEF D!Crash, D!Set, D!Stripe, Owed
<1>2. DeletionTyped /\ ListsOk
  BY DEF DeletionInv
<1>3. DeletionTyped'
  BY <1>1, <1>2, IdleClosing, MoveTyped DEF DeletionTyped
<1>4. ListsOk'
  BY <1>1, <1>2, IdleClosing, MoveLists DEF Live
<1> QED BY <1>1, <1>3, <1>4 DEF DeletionInv

\* The end: the webhook's, the account kept, the account erased.
LEMMA WebhookEndsKeeps ==
    ASSUME D!DeletionAssumption, DeletionInv, NEW w \in Workers, D!WebhookEnds(w)
    PROVE  DeletionInv'
<1>1. worker[w].pc = "end" /\ worker[w].reason = "credit_after_end"
  BY DEF D!WebhookEnds
<1>2. /\ DeletionTyped /\ ListsOk /\ worker[w] \in Closing
      /\ odd = {} => MoneyOk /\ exists /\ Balanced(w)
  BY <1>1, AtWork
<1>3. /\ worker' = [worker EXCEPT ![w] = D!Idle] /\ listed' = worker[w].short
      /\ UNCHANGED <<exists, subs, credit, left, due, slipped, Owed, back, late, odd>>
  BY DEF D!WebhookEnds, D!Report, D!Set, D!Stripe, Owed
<1>4. DeletionTyped'
  <2>0. worker[w].short \in Nat
    BY <1>2 DEF Closing
  <2>1. listed' \in Int
    BY <1>3, <2>0
  <2> QED BY <1>2, <1>3, <2>1, IdleClosing, MoveTyped DEF DeletionTyped
<1>5. ListsOk'
  BY <1>2, <1>3, IdleClosing, MoveLists DEF Live
<1>6. ASSUME odd' = {} PROVE MoneyOk'
  <2>1. MoneyOk /\ exists /\ Owed = back + credit
    BY <1>1, <1>2, <1>3, <1>6 DEF Balanced
  <2> QED BY <1>1, <1>2, <1>3, <2>1, IdleClosing, EndMoney
<1> QED BY <1>4, <1>5, <1>6 DEF DeletionInv

LEMMA KeepAccountKeeps ==
    ASSUME D!DeletionAssumption, DeletionInv, NEW w \in Workers, D!KeepAccount(w)
    PROVE  DeletionInv'
<1>1. worker[w].pc = "end"
  BY DEF D!KeepAccount
<1>2. /\ DeletionTyped /\ ListsOk /\ worker[w] \in Closing
      /\ odd = {} => /\ MoneyOk /\ exists /\ Balanced(w)
                     /\ worker[w].problem <=> worker[w].short > 0
  BY <1>1, AtWork
<1>3. /\ worker' = [worker EXCEPT ![w] = D!Idle]
      /\ odd' = IF worker[w].problem THEN odd \cup {"problem"} ELSE odd
      /\ UNCHANGED <<exists, subs, credit, left, due, slipped, Owed, back, listed, late>>
  BY DEF D!KeepAccount, D!Set, D!Stripe, Owed
<1>4. DeletionTyped'
  BY <1>2, <1>3, IdleClosing, MoveTyped DEF DeletionTyped
<1>5. ListsOk'
  BY <1>2, <1>3, IdleClosing, MoveLists DEF Live
<1>6. ASSUME odd' = {} PROVE MoneyOk'
  <2>1. odd = {} /\ ~worker[w].problem
    BY <1>3, <1>6
  <2>2. worker[w].short = 0
    <3>1. ~(worker[w].short > 0) /\ worker[w].short \in Nat
      BY <1>2, <2>1 DEF Closing
    <3> QED BY <3>1
  <2>3. MoneyOk /\ exists /\ Owed = back + credit
    BY <1>1, <1>2, <2>1, <2>2 DEF Balanced
  <2> QED BY <1>1, <1>2, <1>3, <2>3, IdleClosing, EndMoney
<1> QED BY <1>4, <1>5, <1>6 DEF DeletionInv

LEMMA EraseKeeps ==
    ASSUME D!DeletionAssumption, DeletionInv, NEW w \in Workers, D!Erase(w)
    PROVE  DeletionInv'
<1>1. worker[w].pc = "end" /\ worker[w].reason = "account_deleted" /\ ~worker[w].failed
  BY DEF D!Erase
<1>2. /\ DeletionTyped /\ ListsOk /\ ListOk(w) /\ worker[w] \in Closing
      /\ odd = {} => MoneyOk /\ exists /\ Balanced(w)
  BY <1>1, AtWork
<1>3. /\ worker' = [worker EXCEPT ![w] = D!Idle] /\ listed' = worker[w].short
      /\ exists' = FALSE
      /\ UNCHANGED <<subs, credit, left, due, slipped, Owed, back, late, odd>>
  BY DEF D!Erase, D!Report, D!Set, D!Stripe, Owed
<1>4. DeletionTyped'
  <2>0. worker[w].short \in Nat
    BY <1>2 DEF Closing
  <2>1. listed' \in Int
    BY <1>3, <2>0
  <2> QED BY <1>2, <1>3, <2>1, IdleClosing, MoveTyped DEF DeletionTyped
<1>5. ListsOk'
  <2>1. /\ worker'[w] = D!Idle /\ \A v \in Workers \ {w} : worker'[v] = worker[v]
    BY <1>2, <1>3, IdleClosing, OneMoves
  <2>2. \A s \in Subscriptions : Live(s) => s \in late
    BY <1>1, <1>2 DEF ListOk
  <2>3. \A v \in Workers : ListOk(v)'
    BY <1>3, <2>1, <2>2 DEF ListOk, Live
  <2> QED BY <1>3, <2>2, <2>3 DEF ListsOk, Live
<1>6. ASSUME odd' = {} PROVE MoneyOk'
  <2>1. MoneyOk /\ Owed = back + listed'
    BY <1>1, <1>2, <1>3, <1>6 DEF Balanced
  <2> QED BY <1>1, <1>2, <1>3, <2>1, IdleClosing, EndMoney
<1> QED BY <1>4, <1>5, <1>6 DEF DeletionInv

LEMMA DeletionStep ==
    ASSUME D!DeletionAssumption, DeletionInv, D!Next
    PROVE  DeletionInv'
<1>1. CASE \E s \in Subscriptions : D!Checkout(s) \/ D!PeriodEnds(s)
  BY <1>1, CheckoutKeeps, PeriodEndsKeeps
<1>2. ASSUME NEW w \in Workers,
             \/ D!Confirm(w) \/ D!Cancelled(w) \/ D!Balance(w) \/ D!Refund(w)
             \/ D!Refunded(w) \/ D!Clear(w) \/ D!ReturnFails(w) \/ D!WebhookEnds(w)
             \/ D!KeepAccount(w) \/ D!Erase(w) \/ D!Crash(w)
      PROVE  DeletionInv'
  BY <1>2, ConfirmKeeps, CancelledKeeps, BalanceKeeps, RefundKeeps, RefundedKeeps, ClearKeeps,
     ReturnFailsKeeps, WebhookEndsKeeps, KeepAccountKeeps, EraseKeeps, CrashKeeps
<1>3. ASSUME NEW w \in Workers, NEW s \in Subscriptions,
             \/ D!Cancel(w, s) \/ D!CancelFails(w, s) \/ D!CreditAfterEnd(w, s)
             \/ \E again \in BOOLEAN : D!CancelLost(w, s, again)
      PROVE  DeletionInv'
  BY <1>3, CancelKeeps, CancelFailsKeeps, CancelLostKeeps, CreditAfterEndKeeps
<1> QED BY <1>1, <1>2, <1>3 DEF D!Next

LEMMA DeletionStutter ==
    ASSUME DeletionInv, UNCHANGED deletionVars
    PROVE  DeletionInv'
BY DEF deletionVars, DeletionInv, DeletionTyped, ListsOk, ListOk, Live, MoneyOk, Balanced, D!Quiet,
       Owed

LEMMA DeletionInvariant == ASSUME D!DeletionAssumption PROVE PartSpec => []DeletionInv
<1>1. PartInit => DeletionInv
  BY DeletionInit DEF PartInit
<1>2. DeletionInv /\ [PartNext]_<<part, vars, syncVars, deletionVars>> => DeletionInv'
  <2> SUFFICES ASSUME DeletionInv, [PartNext]_<<part, vars, syncVars, deletionVars>>
               PROVE  DeletionInv'
    OBVIOUS
  <2> QED BY DeletionStep, DeletionStutter DEF PartNext
<1> QED BY <1>1, <1>2, PTL DEF PartSpec

(* "Nobody keeps paying for an account that no longer exists" (gateway.py: *)
(* 372-373), whatever fails, is retried or is killed, however many workers *)
(* and subscriptions there are: but for a subscription paid after the list *)
(* of subscriptions was read, through a checkout still open (late), which  *)
(* nothing cancels.                                                        *)
THEOREM NobodyChargedAfterDeletion ==
    ASSUME D!DeletionAssumption PROVE PartSpec => []DeletedNotCharged
<1>1. DeletionInv => DeletedNotCharged
  BY DEF DeletionInv, ListsOk, Live, DeletedNotCharged, D!DeletedNotCharged
<1> QED BY <1>1, DeletionInvariant, PTL

(* All the money due goes back or is named to the team, and none of it     *)
(* twice, whatever the subscriptions are worth and the payments were, also *)
(* when the deletion is tried again (gateway.py: close_customer,           *)
(* _return_money): but for the time left of the subscriptions whose        *)
(* cancellation was made and its answer lost (slipped), to the unit; and   *)
(* as long as nothing of `odd` happened - a refund that failed, a killed   *)
(* worker, two at work at once, a refund of the same amount again.         *)
THEOREM MoneyGoesBack ==
    ASSUME D!DeletionAssumption PROVE PartSpec => []MoneyIsReturned
<1>1. DeletionInv => MoneyIsReturned
  BY DEF DeletionInv, DeletionTyped, MoneyOk, Owed, MoneyIsReturned, D!MoneyIsReturned
<1> QED BY <1>1, DeletionInvariant, PTL

=============================================================================
