------------------------- MODULE MCRequests_proofs -------------------------
(***************************************************************************)
(* Proofs about the invitations, the questions and the public pages of     *)
(* requests, for any number of requests, workers, edits, killed workers,   *)
(* questions, processes, places, browsers, mailboxes and files.            *)
(*                                                                         *)
(* Invitations.  The invariant says of every worker what it knows of the   *)
(* requests it has (WorkerOk), that no two workers have the same request   *)
(* in hand or were given the same new id (Apart), and that an invitation   *)
(* still to leave has not left (MailsOk).                                  *)
(*                                                                         *)
(* Questions.  The places are counted with the processes that passed the   *)
(* check and have not committed (AskedOk); and unless two of them wrote at *)
(* once, the last message of a question is that of a process still to save *)
(* or, when there is none, the one the state stands for (ThreadOk).        *)
(*                                                                         *)
(* Public pages.  What a session holds is owed to a mailbox its person     *)
(* reads or to the password (SessionOk), and a page works with an address  *)
(* the request had (PageOk).                                               *)
(***************************************************************************)
EXTENDS MCRequests, Sequences, FiniteSetTheorems, TLAPS

-----------------------------------------------------------------------------
(* Invitations *)

\* A transaction that mails, and locks its row or is about to insert it.
Hand(x) == x.op \in {"send", "queue", "release", "confirm"} /\ x.pc \in {"mail", "commit"}

\* The new ids a worker will insert.
Given(x) == {r \in Requests : \/ x.op = "send" /\ r = x.at
                              \/ x.op = "store" /\ r \in x.todo}

\* Where each operation may be.
StepKnown(x) ==
    /\ x.op = "none" <=> x.pc = "idle"
    /\ x.op = "store" => /\ x.pc = "commit" /\ x.copy.row = "live"
                         /\ x.copy.queued \/ x.copy.awaiting # "no"
    /\ x.op = "send" => x.pc \in {"mail", "commit"} /\ x.copy = LiveRow
    /\ x.op = "queue" => x.pc \in {"loop", "mail", "commit"}
    /\ x.op = "release" => x.pc \in {"list", "loop", "mail", "commit"}
    /\ x.op = "confirm" => x.pc \in {"lock", "mail", "commit"}
    /\ x.op = "cleanup" => x.pc = "loop"
    /\ x.op = "edit" => x.pc = "save" /\ x.copy.row = "live"
    /\ x.op = "link" => x.pc = "mail"
    /\ x.op \in {"send", "confirm", "edit", "link"} \/ Hand(x) => x.at \in Requests

\* A request that waits is not queued, a new one has no row.
RowOk(q) ==
    /\ q.awaiting # "no" => ~q.queued
    /\ q.row = "new" => q.awaiting = "no" /\ ~q.closed /\ ~q.queued
    /\ q.queued => verified

RowsOk == \A r \in Requests : RowOk(req[r])

\* What the lock keeps true of the request in hand.
HandOk(x) ==
    /\ x.op = "queue" => Queued(x.at) /\ (x.pc = "mail" => ~req[x.at].closed)
    /\ x.op \in {"release", "confirm"} => Live(x.at) /\ req[x.at].awaiting # "no"
    /\ x.pc = "commit" /\ x.at \notin touched => mails[x.at] > 0 \/ x.at \in skipped

WorkerOk(x) ==
    /\ StepKnown(x)
    /\ RowOk(x.copy)
    /\ x.op \in {"send", "release"} => verified
    /\ \A r \in Given(x) : req[r].row = "new"
    /\ x.op \notin {"send", "store"} =>
         \A r \in Requests : r = x.at \/ r \in x.todo => req[r].row # "new"
    /\ Hand(x) => HandOk(x)

WorkersOk == \A w \in Workers : WorkerOk(wk[w])

Apart ==
    \A v, w \in Workers : v # w =>
        /\ \A r \in Requests : ~(r \in Given(wk[v]) /\ r \in Given(wk[w]))
        /\ ~(Hand(wk[v]) /\ Hand(wk[w]) /\ wk[v].at = wk[w].at)

\* The invitation is still to leave ...
Pending(r) ==
    \/ req[r].row = "new"
    \/ Queued(r)
    \/ Live(r) /\ req[r].awaiting # "no"

\* ... or has just left, and the row does not say so yet.
JustMailed(r) == \E w \in Workers : Hand(wk[w]) /\ wk[w].pc = "commit" /\ wk[w].at = r

MailsOk ==
    \A r \in Requests \ touched :
        /\ mails[r] <= 1
        /\ Pending(r) /\ ~JustMailed(r) => mails[r] = 0

IInv == TypeOK /\ RowsOk /\ WorkersOk /\ Apart /\ MailsOk /\ NoInvitationLost

-----------------------------------------------------------------------------
(* Types *)

LEMMA Rows == NewRow \in Row /\ LiveRow \in Row
<1>1. NewRow \in Row
    BY DEF NewRow, Row
<1>2. LiveRow \in Row
    BY <1>1 DEF LiveRow, Row
<1> QED BY <1>1, <1>2

LEMMA IdleType == Idle \in Worker
BY Rows DEF Idle, Worker

LEMMA BeginType ==
    ASSUME TypeOK, NEW w \in Workers,
           NEW op \in {"send", "store", "queue", "release", "confirm", "cleanup", "edit", "link"},
           NEW pc \in {"list", "loop", "lock", "mail", "commit", "save"},
           NEW todo \in SUBSET Requests, NEW r \in Requests \cup {NoRequest},
           NEW copy \in Row, Begin(w, op, pc, todo, r, copy)
    PROVE  TypeOK'
<1>1. wk' \in [Workers -> Worker]
    BY DEF Begin, TypeOK, Worker
<1> QED BY <1>1 DEF Begin, TypeOK, history

LEMMA WorkerEdits ==
    ASSUME NEW x \in Worker, NEW r \in Requests \cup {NoRequest}
    PROVE  /\ [x EXCEPT !.pc = "loop", !.at = NoRequest, !.todo = @ \ {r}] \in Worker
           /\ \A pc \in {"mail", "commit"} : [x EXCEPT !.pc = pc, !.at = r] \in Worker
BY DEF Worker

\* A worker goes on to the next request of its list.
LEMMA DropTake ==
    ASSUME TypeOK, NEW w \in Workers, NEW r \in Requests \cup {NoRequest}
    PROVE  /\ Drop(w, r) => wk' \in [Workers -> Worker]
           /\ Take(w, r, "mail") \/ Take(w, r, "commit") => wk' \in [Workers -> Worker]
<1>1. wk[w] \in Worker /\ wk \in [Workers -> Worker]
    BY DEF TypeOK
<1>2. [wk[w] EXCEPT !.pc = "loop", !.at = NoRequest, !.todo = @ \ {r}] \in Worker
    BY <1>1, WorkerEdits
<1>3. \A pc \in {"mail", "commit"} : [wk[w] EXCEPT !.pc = pc, !.at = r] \in Worker
    BY <1>1 DEF Worker
<1>4. Drop(w, r) => wk' \in [Workers -> Worker]
    BY <1>1, <1>2 DEF Drop
<1>5. \A pc \in {"mail", "commit"} : Take(w, r, pc) => wk' \in [Workers -> Worker]
    BY <1>1, <1>3 DEF Take
<1> QED BY <1>4, <1>5

\* The worker steps that change no row.
LEMMA LocalType ==
    ASSUME TypeOK, NEW w \in Workers,
           \/ QueueTake(w) \/ ReleaseList(w) \/ ReleaseTake(w) \/ LoopEnd(w)
           \/ ConfirmLock(w) \/ Refuse(w) \/ VerifyByLink(w)
    PROVE  TypeOK'
<1> USE IdleType
<1>1. wk' \in [Workers -> Worker]
    <2>1. CASE QueueTake(w)
        <3>1. PICK r \in wk[w].todo :
                 Drop(w, r) \/ Take(w, r, "commit") \/ Take(w, r, "mail")
            BY <2>1 DEF QueueTake
        <3>2. r \in Requests
            BY DEF TypeOK, Worker
        <3> QED BY <3>1, <3>2, DropTake
    <2>2. CASE ReleaseList(w)
        <3>1. [wk[w] EXCEPT !.pc = "loop", !.todo = {r \in Requests : Held(r)}] \in Worker
            BY DEF TypeOK, Worker
        <3> QED BY <2>2, <3>1 DEF ReleaseList, TypeOK
    <2>3. CASE ReleaseTake(w)
        <3>1. PICK r \in wk[w].todo : Drop(w, r) \/ Take(w, r, "mail") \/ End(w)
            BY <2>3 DEF ReleaseTake
        <3>2. r \in Requests
            BY DEF TypeOK, Worker
        <3> QED BY <3>1, <3>2, DropTake DEF End, TypeOK
    <2>4. CASE LoopEnd(w)
        BY <2>4 DEF LoopEnd, End, TypeOK
    <2>5. CASE ConfirmLock(w)
        BY <2>5 DEF ConfirmLock, End, TypeOK, Worker
    <2>6. CASE Refuse(w)
        <3>1. wk[w].at \in Requests \cup {NoRequest}
            BY DEF TypeOK, Worker
        <3> QED BY <2>6, <3>1, DropTake DEF Refuse, End, TypeOK
    <2>7. CASE VerifyByLink(w)
        BY <2>7 DEF VerifyByLink, Idle, TypeOK, Worker
    <2> QED BY <2>1, <2>2, <2>3, <2>4, <2>5, <2>6, <2>7
<1>2. UNCHANGED <<req, expired, mails, touched, edits, crashes>>
    BY DEF QueueTake, ReleaseList, ReleaseTake, LoopEnd, ConfirmLock, Refuse,
           VerifyByLink, history
<1>5. byHand' = byHand
    BY DEF QueueTake, ReleaseList, ReleaseTake, LoopEnd, ConfirmLock, Refuse,
           VerifyByLink, history
<1>3. skipped' \in SUBSET Requests
    BY DEF QueueTake, ReleaseList, ReleaseTake, LoopEnd, ConfirmLock, Refuse,
           VerifyByLink, history, TypeOK, Worker
<1>4. verified' \in BOOLEAN
    BY DEF QueueTake, ReleaseList, ReleaseTake, LoopEnd, ConfirmLock, Refuse,
           VerifyByLink, TypeOK
<1> QED BY <1>1, <1>2, <1>3, <1>4, <1>5 DEF TypeOK

(* Every step keeps the variables in their sets.                           *)
LEMMA TypeStep ==
    ASSUME TypeOK, WorkersOk, [Next]_vars
    PROVE  TypeOK'
<1> USE Rows, IdleType
<1>1. ASSUME NEW w \in Workers, NEW r \in Requests,
             \/ CreateBegin(w, r) \/ GuestSubmitBegin(w, r)
             \/ SendHeldBegin(w, r) \/ ConfirmBegin(w, r) \/ EditBegin(w, r)
             \/ SendLinkBegin(w, r)
      PROVE  TypeOK'
    <2>1. [LiveRow EXCEPT !.awaiting = "held"] \in Row
        BY DEF Row
    <2>2. [LiveRow EXCEPT !.awaiting = "guest"] \in Row
        BY DEF Row
    <2>3. req[r] \in Row
        BY DEF TypeOK
    <2> QED BY <1>1, <2>1, <2>2, <2>3, BeginType
            DEF CreateBegin, GuestSubmitBegin, SendHeldBegin, ConfirmBegin, EditBegin,
                SendLinkBegin
<1>2. ASSUME NEW w \in Workers, NEW S \in SUBSET Requests, CreateManyBegin(w, S)
      PROVE  TypeOK'
    <2>1. [LiveRow EXCEPT !.awaiting = "held"] \in Row
        BY DEF Row
    <2>2. [LiveRow EXCEPT !.queued = TRUE] \in Row
        BY DEF Row
    <2> QED BY <1>2, <2>1, <2>2, BeginType DEF CreateManyBegin
<1>3. ASSUME NEW w \in Workers, QueueBegin(w) \/ CleanupBegin(w)
      PROVE  TypeOK'
    BY <1>3, BeginType DEF QueueBegin, CleanupBegin
<1>4. ASSUME NEW w \in Workers,
             \/ QueueTake(w) \/ ReleaseList(w) \/ ReleaseTake(w) \/ LoopEnd(w)
             \/ ConfirmLock(w) \/ Refuse(w) \/ VerifyByLink(w)
      PROVE  TypeOK'
    BY <1>4, LocalType
<1>5. ASSUME NEW w \in Workers, StoreCommit(w)
      PROVE  TypeOK'
    BY <1>5 DEF StoreCommit, End, TypeOK, Worker, history
<1>6. ASSUME NEW w \in Workers, CleanupDelete(w)
      PROVE  TypeOK'
    <2>1. [NewRow EXCEPT !.row = "gone"] \in Row
        BY DEF Row
    <2>2. req' \in [Requests -> Row]
        BY <1>6, <2>1 DEF CleanupDelete, TypeOK
    <2>3. wk' \in [Workers -> Worker]
        <3>1. PICK r \in wk[w].todo : Drop(w, r) \/ End(w)
            BY <1>6 DEF CleanupDelete
        <3>2. r \in Requests
            BY DEF TypeOK, Worker
        <3> QED BY <3>1, <3>2, DropTake DEF End, TypeOK
    <2> QED BY <1>6, <2>2, <2>3 DEF CleanupDelete, TypeOK, history
<1>7. ASSUME NEW w \in Workers, Mail(w)
      PROVE  TypeOK'
    <2>1. wk' \in [Workers -> Worker]
        BY <1>7 DEF Mail, TypeOK, Worker
    <2>2. mails \in [Requests -> Nat]
        BY DEF TypeOK
    <2>3. mails' = [mails EXCEPT ![wk[w].at] = @ + 1]
        BY <1>7 DEF Mail
    <2>4. mails' \in [Requests -> Nat]
        <3>1. mails[wk[w].at] \in Nat => mails[wk[w].at] + 1 \in Nat
            OBVIOUS
        <3> QED BY <2>2, <2>3, <3>1
    <2> QED BY <1>7, <2>1, <2>4 DEF Mail, TypeOK, history
<1>8. ASSUME NEW w \in Workers, Commit(w)
      PROVE  TypeOK'
    <2>1. wk[w].copy \in Row
        BY DEF TypeOK, Worker
    <2>2. req' \in [Requests -> Row]
        <3>1. req \in [Requests -> Row]
            BY DEF TypeOK
        <3>2. CASE wk[w].op = "send"
            BY <1>8, <2>1, <3>1, <3>2 DEF Commit
        <3>3. CASE wk[w].op # "send"
            <4>1. \A q \in Row : /\ [q EXCEPT !.queued = FALSE] \in Row
                                /\ [q EXCEPT !.awaiting = "no"] \in Row
                BY DEF Row
            <4> QED BY <1>8, <3>1, <3>3, <4>1 DEF Commit
        <3> QED BY <3>2, <3>3
    <2>3. wk' \in [Workers -> Worker]
        <3>1. wk[w].at \in Requests \cup {NoRequest}
            BY DEF TypeOK, Worker
        <3> QED BY <1>8, <3>1, DropTake DEF Commit, End, TypeOK
    <2>4. verified' \in BOOLEAN
        BY <1>8 DEF Commit, TypeOK
    <2> QED BY <1>8, <2>2, <2>3, <2>4 DEF Commit, TypeOK, history
<1>9. ASSUME NEW w \in Workers, EditSave(w)
      PROVE  TypeOK'
    <2>1. wk[w].copy \in Row /\ wk[w].at \in Requests \cup {NoRequest}
        BY DEF TypeOK, Worker
    <2>2. req' \in [Requests -> Row] /\ wk' \in [Workers -> Worker]
        BY <1>9, <2>1 DEF EditSave, End, TypeOK
    <2>3. edits' \in 0..MaxEdits
        BY <1>9, InvitationsAssumption DEF EditSave, TypeOK
    <2>4. touched' \in SUBSET Requests
        <3>1. wk[w].at \in Requests
            BY <1>9 DEF EditSave, WorkersOk, WorkerOk, StepKnown
        <3> QED BY <1>9, <3>1 DEF EditSave, TypeOK
    <2> QED BY <1>9, <2>2, <2>3, <2>4 DEF EditSave, TypeOK
<1>10. ASSUME NEW w \in Workers, Crash(w)
       PROVE  TypeOK'
    <2>1. crashes' \in 0..MaxCrashes
        BY <1>10, InvitationsAssumption DEF Crash, TypeOK
    <2>2. touched' \in SUBSET Requests
        <3>1. wk[w] \in Worker /\ StepKnown(wk[w])
            BY DEF TypeOK, WorkersOk, WorkerOk
        <3>2. wk[w].pc = "commit" /\ wk[w].op # "store" => wk[w].at \in Requests
            BY <3>1 DEF StepKnown, Hand, Worker
        <3> QED BY <1>10, <3>2 DEF Crash, TypeOK
    <2> QED BY <1>10, <2>1, <2>2 DEF Crash, End, TypeOK
<1>11. ASSUME NEW r \in Requests, Close(r) \/ Reopen(r) \/ Delete(r) \/ Expire(r)
       PROVE  TypeOK'
    <2>1. PICK q \in Row : req' = [req EXCEPT ![r] = q]
        <3>1. req[r] \in Row /\ req \in [Requests -> Row]
            BY DEF TypeOK
        <3>2. /\ [req[r] EXCEPT !.closed = TRUE] \in Row
              /\ [req[r] EXCEPT !.closed = FALSE] \in Row
              /\ [NewRow EXCEPT !.row = "gone"] \in Row
            BY <3>1 DEF Row
        <3>3. CASE Expire(r)
            BY <3>1, <3>3 DEF Expire
        <3>4. CASE Close(r) \/ Reopen(r) \/ Delete(r)
            BY <3>2, <3>4 DEF Close, Reopen, Delete
        <3> QED BY <1>11, <3>3, <3>4
    <2>2. req' \in [Requests -> Row]
        BY <2>1 DEF TypeOK
    <2> QED BY <1>11, <2>2 DEF Close, Reopen, Delete, Expire, TypeOK, history
<1>14. ASSUME NEW w \in Workers, LinkMail(w)
       PROVE  TypeOK'
    <2>1. edits' \in 0..MaxEdits
        BY <1>14, InvitationsAssumption DEF LinkMail, TypeOK
    <2>2. wk[w].at \in Requests
        BY <1>14 DEF LinkMail, WorkersOk, WorkerOk, StepKnown
    <2> QED BY <1>14, <2>1, <2>2 DEF LinkMail, End, TypeOK
<1>12. CASE VerifyElsewhere
    BY <1>12 DEF VerifyElsewhere, TypeOK, history
<1>13. CASE UNCHANGED vars
    BY <1>13 DEF vars, TypeOK
<1> QED BY <1>1, <1>2, <1>3, <1>4, <1>5, <1>6, <1>7, <1>8, <1>9, <1>10, <1>11,
          <1>12, <1>13, <1>14 DEF Next, Statement

-----------------------------------------------------------------------------
(* What a step leaves alone *)

\* A request whose lock is free, and that was inserted, is in no hand.
LEMMA FreeRow ==
    ASSUME WorkersOk, NEW r \in Requests, ~Locked(r), req[r].row # "new"
    PROVE  \A v \in Workers : /\ ~(Hand(wk[v]) /\ wk[v].at = r)
                              /\ r \notin Given(wk[v])
<1> SUFFICES ASSUME NEW v \in Workers
             PROVE  ~(Hand(wk[v]) /\ wk[v].at = r) /\ r \notin Given(wk[v])
    OBVIOUS
<1>1. r \notin Given(wk[v])
    BY DEF WorkersOk, WorkerOk
<1>2. ~(Hand(wk[v]) /\ wk[v].at = r)
    BY <1>1 DEF Hand, Given, Locked
<1> QED BY <1>1, <1>2

\* A new id is in no hand but that of the worker it was given to.
LEMMA NewRowFree ==
    ASSUME WorkersOk, Apart, NEW w \in Workers, NEW r \in Given(wk[w]),
           NEW v \in Workers, v # w
    PROVE  ~(Hand(wk[v]) /\ wk[v].at = r) /\ r \notin Given(wk[v])
<1>1. r \in Requests /\ req[r].row = "new"
    BY DEF Given, WorkersOk, WorkerOk
<1>2. r \notin Given(wk[v])
    BY <1>1 DEF Apart
<1>3. ~(Hand(wk[v]) /\ wk[v].at = r)
    BY <1>1, <1>2 DEF Hand, Given, WorkersOk, WorkerOk
<1> QED BY <1>2, <1>3

\* A worker that does not move keeps what it knows, if nobody touches what it has.
LEMMA OtherWorker ==
    ASSUME NEW v \in Workers, WorkerOk(wk[v]), wk'[v] = wk[v],
           verified => verified', touched \subseteq touched', skipped \subseteq skipped',
           \A r \in Requests : mails[r] > 0 => mails'[r] > 0,
           \A r \in Requests :
               \/ req'[r] = req[r]
               \/ /\ req'[r].row # "new"
                  /\ ~(Hand(wk[v]) /\ wk[v].at = r)
                  /\ r \notin Given(wk[v])
    PROVE  WorkerOk(wk[v])'
<1>1. StepKnown(wk[v])'
    BY DEF WorkerOk, StepKnown, Hand
<1>2. RowOk(wk[v].copy)'
    BY DEF WorkerOk, RowOk
<1>3. (wk[v].op \in {"send", "release"} => verified)'
    BY DEF WorkerOk
<1>4. (\A r \in Given(wk[v]) : req[r].row = "new")'
    BY DEF WorkerOk, Given
<1>5. (wk[v].op \notin {"send", "store"} =>
          \A r \in Requests : r = wk[v].at \/ r \in wk[v].todo => req[r].row # "new")'
    BY DEF WorkerOk
<1>6. (Hand(wk[v]) => HandOk(wk[v]))'
    <2> SUFFICES ASSUME Hand(wk[v])
                 PROVE  HandOk(wk[v])'
        BY DEF Hand
    <2>1. wk[v].at \in Requests /\ HandOk(wk[v])
        BY DEF WorkerOk, StepKnown
    <2>2. req'[wk[v].at] = req[wk[v].at]
        BY <2>1
    <2> QED BY <2>1, <2>2 DEF HandOk, Queued, Live
<1> QED BY <1>1, <1>2, <1>3, <1>4, <1>5, <1>6 DEF WorkerOk

\* A step of one worker that changes no row and mails nothing.
LEMMA LocalStep ==
    ASSUME IInv, TypeOK', NEW w \in Workers, UNCHANGED <<req, mails>>,
           verified => verified', touched \subseteq touched', skipped \subseteq skipped',
           \A v \in Workers : v # w => wk'[v] = wk[v],
           WorkerOk(wk[w])',
           \A v \in Workers : v # w =>
               /\ \A r \in Requests : ~(r \in Given(wk'[w]) /\ r \in Given(wk[v]))
               /\ ~(Hand(wk'[w]) /\ Hand(wk[v]) /\ wk'[w].at = wk[v].at),
           Hand(wk[w]) /\ wk[w].pc = "commit" => wk[w].at \in touched'
    PROVE  IInv'
<1> USE DEF IInv
<1>1. RowsOk'
    BY DEF RowsOk, RowOk
<1>2. WorkersOk'
    <2> SUFFICES ASSUME NEW v \in Workers, v # w
                 PROVE  WorkerOk(wk[v])'
        BY DEF WorkersOk
    <2>1. WorkerOk(wk[v])
        BY DEF WorkersOk
    <2> QED BY <2>1, OtherWorker
<1>3. Apart'
    <2> SUFFICES ASSUME NEW u \in Workers, NEW v \in Workers, u # v
                 PROVE  /\ \A r \in Requests : ~(r \in Given(wk'[u]) /\ r \in Given(wk'[v]))
                        /\ ~(Hand(wk'[u]) /\ Hand(wk'[v]) /\ wk'[u].at = wk'[v].at)
        BY DEF Apart, Given, Hand
    <2> QED BY DEF Apart
<1>4. MailsOk'
    <2> SUFFICES ASSUME NEW r \in Requests, r \notin touched'
                 PROVE  mails'[r] <= 1 /\ ((Pending(r) /\ ~JustMailed(r))' => mails'[r] = 0)
        BY DEF MailsOk
    <2>1. Pending(r)' <=> Pending(r)
        BY DEF Pending, Queued, Live
    <2>2. JustMailed(r) => JustMailed(r)'
        BY DEF JustMailed, Hand
    <2>3. r \notin touched
        OBVIOUS
    <2> QED BY <2>1, <2>2, <2>3 DEF MailsOk
<1>5. NoInvitationLost'
    BY DEF NoInvitationLost, Live
<1> QED BY <1>1, <1>2, <1>3, <1>4, <1>5

\* A step that changes one row nobody has in hand.
LEMMA RowStep ==
    ASSUME IInv, TypeOK', NEW r \in Requests, NEW q \in Row,
           req' = [req EXCEPT ![r] = q], UNCHANGED <<mails, verified, skipped>>,
           touched \subseteq touched', ~Locked(r), req[r].row # "new",
           q.row # "new", RowOk(q),
           \A v \in Workers :
               \/ wk'[v] = wk[v]
               \/ wk'[v] = Idle /\ ~Hand(wk[v])
               \/ WorkerOk(wk[v])' /\ wk[v].op = "cleanup" /\ wk'[v].op = "cleanup",
           \/ r \in touched'
           \/ q.row = "gone"
           \/ /\ req[r].row = "live"
              /\ q.awaiting = req[r].awaiting /\ q.queued = req[r].queued
    PROVE  IInv'
<1> USE DEF IInv
<1>1. \A s \in Requests : req'[s] = IF s = r THEN q ELSE req[s]
    BY DEF TypeOK
<1>2. \A v \in Workers : ~(Hand(wk[v]) /\ wk[v].at = r) /\ r \notin Given(wk[v])
    BY FreeRow
<1>3. RowsOk'
    BY <1>1 DEF RowsOk, RowOk
<1>4. ASSUME NEW v \in Workers
      PROVE  /\ WorkerOk(wk[v])'
             /\ wk'[v] = wk[v] \/ (Given(wk'[v]) = {} /\ ~Hand(wk'[v]) /\ ~Hand(wk[v]))
    <2>1. CASE wk'[v] = wk[v]
        <3>1. WorkerOk(wk[v])
            BY DEF WorkersOk
        <3> QED BY <1>1, <1>2, <2>1, <3>1, OtherWorker
    <2>2. CASE wk'[v] = Idle /\ ~Hand(wk[v])
        BY <2>2, InvitationsAssumption
           DEF Idle, NewRow, WorkerOk, StepKnown, RowOk, Given, Hand
    <2>3. CASE WorkerOk(wk[v])' /\ wk[v].op = "cleanup" /\ wk'[v].op = "cleanup"
        BY <2>3 DEF Given, Hand
    <2> QED BY <2>1, <2>2, <2>3
<1>5. WorkersOk'
    BY <1>4 DEF WorkersOk
<1>6. Apart'
    <2> SUFFICES ASSUME NEW u \in Workers, NEW v \in Workers, u # v
                 PROVE  /\ \A s \in Requests : ~(s \in Given(wk'[u]) /\ s \in Given(wk'[v]))
                        /\ ~(Hand(wk'[u]) /\ Hand(wk'[v]) /\ wk'[u].at = wk'[v].at)
        BY DEF Apart, Given, Hand
    <2> QED BY <1>4 DEF Apart
<1>7. MailsOk'
    <2> SUFFICES ASSUME NEW s \in Requests, s \notin touched'
                 PROVE  mails'[s] <= 1 /\ ((Pending(s) /\ ~JustMailed(s))' => mails'[s] = 0)
        BY DEF MailsOk
    <2>1. Pending(s)' => Pending(s)
        BY <1>1 DEF Pending, Queued, Live
    <2>2. JustMailed(s) => JustMailed(s)'
        BY <1>4 DEF JustMailed, Hand
    <2>3. s \notin touched
        OBVIOUS
    <2> QED BY <2>1, <2>2, <2>3 DEF MailsOk
<1>8. NoInvitationLost'
    BY <1>1 DEF NoInvitationLost, Live
<1> QED BY <1>3, <1>5, <1>6, <1>7, <1>8
-----------------------------------------------------------------------------
(* The invariant *)

\* It holds at the start.
LEMMA InitInv == Init => IInv
<1> SUFFICES ASSUME Init
             PROVE  IInv
    OBVIOUS
<1>1. TypeOK
    BY Rows, IdleType, InvitationsAssumption DEF Init, TypeOK
<1>2. RowOk(NewRow) /\ NewRow.row = "new"
    BY DEF RowOk, NewRow
<1>3. RowsOk
    BY <1>2 DEF Init, RowsOk
<1>4. WorkersOk
    <2> SUFFICES ASSUME NEW w \in Workers
                 PROVE  WorkerOk(wk[w])
        BY DEF WorkersOk
    <2>1. wk[w] = Idle
        BY DEF Init
    <2> QED BY <1>2, <2>1, InvitationsAssumption
            DEF Idle, WorkerOk, StepKnown, Given, Hand
<1>5. Apart
    BY DEF Init, Apart, Idle, Given, Hand
<1>6. MailsOk
    BY DEF Init, MailsOk
<1>7. NoInvitationLost
    BY <1>2 DEF Init, NoInvitationLost, Live
<1> QED BY <1>1, <1>3, <1>4, <1>5, <1>6, <1>7 DEF IInv

\* A worker that was idle begins an operation.
LEMMA BeginStep ==
    ASSUME IInv, TypeOK', NEW w \in Workers,
           NEW op \in {"send", "store", "queue", "release", "confirm", "cleanup", "edit", "link"},
           NEW pc \in {"list", "loop", "lock", "mail", "commit", "save"},
           NEW todo \in SUBSET Requests, NEW r \in Requests \cup {NoRequest},
           NEW copy \in Row, Begin(w, op, pc, todo, r, copy),
           StepKnown([op |-> op, pc |-> pc, todo |-> todo, at |-> r, copy |-> copy]),
           RowOk(copy),
           op \in {"send", "release"} => verified,
           op \in {"send", "store"} =>
               /\ pc # "commit" \/ op = "store"
               /\ \A s \in todo \cup {r} : s \in Requests => Fresh(s),
           op \notin {"send", "store"} =>
               /\ pc \notin {"mail", "commit"} \/ op = "link"
               /\ \A s \in todo \cup {r} : s \in Requests => req[s].row # "new"
    PROVE  IInv'
<1> DEFINE x == [op |-> op, pc |-> pc, todo |-> todo, at |-> r, copy |-> copy]
<1>1. wk' = [wk EXCEPT ![w] = x] /\ wk[w].pc = "idle"
    BY DEF Begin
<1>2. wk'[w] = x /\ \A v \in Workers : v # w => wk'[v] = wk[v]
    BY <1>1 DEF IInv, TypeOK
<1>3. UNCHANGED <<req, verified, mails, touched, skipped>>
    BY DEF Begin, history
<1>4. /\ x.op = op /\ x.pc = pc /\ x.todo = todo /\ x.at = r /\ x.copy = copy
      /\ StepKnown(x)
    OBVIOUS
<1>5. Hand(x) => op = "send" /\ pc = "mail" /\ r \in Requests
    BY <1>4 DEF Hand, StepKnown
<1>6. \A s \in Given(x) : Fresh(s) /\ req[s].row = "new"
    BY <1>4 DEF Given, Fresh
<1> HIDE DEF x
<1>7. WorkerOk(x)
    <2>1. Hand(x) => HandOk(x)
        BY <1>4, <1>5 DEF HandOk
    <2>2. x.op \notin {"send", "store"} =>
             \A s \in Requests : s = x.at \/ s \in x.todo => req[s].row # "new"
        BY <1>4
    <2> QED BY <1>4, <1>6, <2>1, <2>2 DEF WorkerOk
<1>8. WorkerOk(wk[w])'
    BY <1>2, <1>3, <1>7 DEF WorkerOk, StepKnown, RowOk, Given, Hand, HandOk, Queued, Live
<1>9. ASSUME NEW v \in Workers, v # w
      PROVE  /\ \A s \in Requests : ~(s \in Given(wk'[w]) /\ s \in Given(wk[v]))
             /\ ~(Hand(wk'[w]) /\ Hand(wk[v]) /\ wk'[w].at = wk[v].at)
    <2>1. ASSUME NEW s \in Requests, Fresh(s)
          PROVE  s \notin Given(wk[v]) /\ ~(Hand(wk[v]) /\ wk[v].at = s)
        BY <2>1 DEF Fresh, Given
    <2>2. Hand(wk'[w]) => Fresh(wk'[w].at) /\ wk'[w].at \in Requests
        BY <1>2, <1>4, <1>5
    <2> QED BY <1>2, <1>6, <2>1, <2>2 DEF Given
<1>10. ~(Hand(wk[w]) /\ wk[w].pc = "commit")
    BY <1>1
<1> QED BY <1>2, <1>3, <1>8, <1>9, <1>10, LocalStep

\* The fetch each operation starts with.
LEMMA BeginSteps ==
    ASSUME IInv, TypeOK', NEW w \in Workers,
           \/ \E r \in Requests : \/ CreateBegin(w, r) \/ GuestSubmitBegin(w, r)
                                  \/ SendHeldBegin(w, r) \/ ConfirmBegin(w, r)
                                  \/ EditBegin(w, r) \/ SendLinkBegin(w, r)
           \/ \E S \in SUBSET Requests : CreateManyBegin(w, S)
           \/ QueueBegin(w) \/ CleanupBegin(w)
    PROVE  IInv'
<1>1. ASSUME NEW copy \in {NewRow, LiveRow, [LiveRow EXCEPT !.awaiting = "held"],
                           [LiveRow EXCEPT !.awaiting = "guest"]}
      PROVE  copy \in Row /\ RowOk(copy)
    <2>1. CASE copy = NewRow
        BY <2>1, Rows DEF NewRow, RowOk
    <2>2. CASE copy = LiveRow
        <3>1. RowOk(LiveRow)
            BY DEF LiveRow, NewRow, RowOk
        <3> QED BY <2>2, <3>1, Rows
    <2>3. CASE copy = [LiveRow EXCEPT !.awaiting = "held"]
        <3>1. copy.awaiting = "held" /\ copy.row = "live" /\ ~copy.queued /\ ~copy.closed
            BY <2>3 DEF LiveRow, NewRow
        <3>2. copy \in Row
            BY <2>3, Rows DEF Row
        <3> QED BY <3>1, <3>2 DEF RowOk
    <2>4. CASE copy = [LiveRow EXCEPT !.awaiting = "guest"]
        <3>1. copy.awaiting = "guest" /\ copy.row = "live" /\ ~copy.queued /\ ~copy.closed
            BY <2>4 DEF LiveRow, NewRow
        <3>2. copy \in Row
            BY <2>4, Rows DEF Row
        <3> QED BY <3>1, <3>2 DEF RowOk
    <2> QED BY <2>1, <2>2, <2>3, <2>4
<1>2. /\ LiveRow.row = "live"
      /\ [LiveRow EXCEPT !.awaiting = "held"].row = "live"
      /\ [LiveRow EXCEPT !.awaiting = "held"].awaiting = "held"
      /\ [LiveRow EXCEPT !.awaiting = "guest"].row = "live"
      /\ [LiveRow EXCEPT !.awaiting = "guest"].awaiting = "guest"
    BY DEF NewRow, LiveRow
<1>3. ASSUME NEW r \in Requests, CreateBegin(w, r)
      PROVE  IInv'
    <2>1. CASE verified
        BY <1>1, <1>3, <2>1, BeginStep, InvitationsAssumption DEF CreateBegin, StepKnown
    <2>2. CASE ~verified
        BY <1>1, <1>2, <1>3, <2>2, BeginStep, InvitationsAssumption
           DEF CreateBegin, StepKnown, Hand
    <2> QED BY <2>1, <2>2
<1>4. ASSUME NEW r \in Requests, GuestSubmitBegin(w, r)
      PROVE  IInv'
    BY <1>1, <1>2, <1>4, BeginStep, InvitationsAssumption
       DEF GuestSubmitBegin, StepKnown, Hand
<1>5. ASSUME NEW r \in Requests, SendHeldBegin(w, r)
      PROVE  IInv'
    <2>1. Begin(w, "release", "loop", {r}, NoRequest, NewRow)
        BY <1>5 DEF SendHeldBegin
    <2>2. verified /\ req[r].row # "new"
        BY <1>5 DEF SendHeldBegin, Held, Live
    <2>3. NewRow \in Row /\ RowOk(NewRow)
        BY <1>1
    <2> QED BY <2>1, <2>2, <2>3, BeginStep, InvitationsAssumption DEF StepKnown, Hand
<1>6. ASSUME NEW r \in Requests, ConfirmBegin(w, r)
      PROVE  IInv'
    BY <1>1, <1>6, BeginStep, InvitationsAssumption DEF ConfirmBegin, StepKnown, Hand, Live
<1>7. ASSUME NEW r \in Requests, EditBegin(w, r)
      PROVE  IInv'
    <2>1. req[r] \in Row /\ RowOk(req[r])
        BY DEF IInv, TypeOK, RowsOk
    <2> QED BY <1>7, <2>1, BeginStep, InvitationsAssumption
            DEF EditBegin, StepKnown, Hand, Live
<1>11. ASSUME NEW r \in Requests, SendLinkBegin(w, r)
       PROVE  IInv'
    BY <1>1, <1>11, BeginStep, InvitationsAssumption DEF SendLinkBegin, StepKnown, Hand, Live
<1>8. ASSUME NEW S \in SUBSET Requests, CreateManyBegin(w, S)
      PROVE  IInv'
    <2>1. CASE verified
        <3>1. /\ [LiveRow EXCEPT !.queued = TRUE] \in Row
              /\ RowOk([LiveRow EXCEPT !.queued = TRUE])
              /\ [LiveRow EXCEPT !.queued = TRUE].row = "live"
              /\ [LiveRow EXCEPT !.queued = TRUE].queued
            BY <2>1 DEF NewRow, LiveRow, Row, RowOk
        <3> QED BY <1>8, <2>1, <3>1, BeginStep, InvitationsAssumption
                DEF CreateManyBegin, StepKnown, Hand
    <2>2. CASE ~verified
        BY <1>1, <1>2, <1>8, <2>2, BeginStep, InvitationsAssumption
           DEF CreateManyBegin, StepKnown, Hand
    <2> QED BY <2>1, <2>2
<1>9. CASE QueueBegin(w)
    <2> DEFINE list == {r \in Requests : Queued(r)}
    <2>1. Begin(w, "queue", "loop", list, NoRequest, NewRow)
        BY <1>9 DEF QueueBegin
    <2>2. list \in SUBSET Requests /\ \A s \in list : req[s].row # "new"
        BY DEF Queued, Live
    <2> HIDE DEF list
    <2> QED BY <1>1, <2>1, <2>2, BeginStep, InvitationsAssumption DEF StepKnown, Hand
<1>10. CASE CleanupBegin(w)
    <2> DEFINE list == {r \in Requests : Stale(r)}
    <2>1. Begin(w, "cleanup", "loop", list, NoRequest, NewRow)
        BY <1>10 DEF CleanupBegin
    <2>2. list \in SUBSET Requests /\ \A s \in list : req[s].row # "new"
        BY DEF Stale, Live
    <2> HIDE DEF list
    <2> QED BY <1>1, <2>1, <2>2, BeginStep, InvitationsAssumption DEF StepKnown, Hand
<1> QED BY <1>3, <1>4, <1>5, <1>6, <1>7, <1>8, <1>9, <1>10, <1>11

\* A worker is done.
LEMMA IdleOk ==
    ASSUME NEW w \in Workers, wk'[w] = Idle
    PROVE  WorkerOk(wk[w])' /\ Given(wk'[w]) = {} /\ ~Hand(wk'[w])
BY InvitationsAssumption DEF Idle, NewRow, WorkerOk, StepKnown, RowOk, Given, Hand

LEMMA EndStep ==
    ASSUME IInv, TypeOK', NEW w \in Workers, End(w), UNCHANGED <<req, mails>>,
           verified => verified', touched \subseteq touched', skipped \subseteq skipped',
           Hand(wk[w]) /\ wk[w].pc = "commit" => wk[w].at \in touched'
    PROVE  IInv'
<1>1. wk'[w] = Idle /\ \A v \in Workers : v # w => wk'[v] = wk[v]
    BY DEF End, IInv, TypeOK
<1>2. WorkerOk(wk[w])' /\ Given(wk'[w]) = {} /\ ~Hand(wk'[w])
    BY <1>1, IdleOk
<1> QED BY <1>1, <1>2, LocalStep

\* A worker goes on with its list, or reads it.
LEMMA LoopStep ==
    ASSUME IInv, TypeOK', NEW w \in Workers, wk[w].op \in {"queue", "release"},
           ~(Hand(wk[w]) /\ wk[w].pc = "commit"),
           UNCHANGED <<req, verified, mails, touched, skipped>>,
           \A v \in Workers : v # w => wk'[v] = wk[v],
           wk'[w].op = wk[w].op, wk'[w].pc = "loop", wk'[w].copy = wk[w].copy,
           wk'[w].at \in {wk[w].at, NoRequest},
           \A r \in wk'[w].todo : r \in wk[w].todo \/ req[r].row # "new"
    PROVE  IInv'
<1>1. WorkerOk(wk[w])
    BY DEF IInv, WorkersOk
<1>2. ~Hand(wk'[w]) /\ Given(wk'[w]) = {}
    BY DEF Hand, Given
<1>3. StepKnown(wk[w])' /\ RowOk(wk[w].copy)'
    BY <1>1 DEF WorkerOk, StepKnown, Hand, RowOk
<1>4. (\A r \in Requests : r = wk[w].at \/ r \in wk[w].todo => req[r].row # "new")'
    BY <1>1, InvitationsAssumption DEF WorkerOk
<1>5. WorkerOk(wk[w])'
    BY <1>1, <1>2, <1>3, <1>4 DEF WorkerOk
<1> QED BY <1>2, <1>5, LocalStep

\* A worker takes the lock of a request that is there.
LEMMA LockStep ==
    ASSUME IInv, TypeOK', NEW w \in Workers, NEW r \in Requests,
           wk[w].op \in {"queue", "release", "confirm"}, ~Hand(wk[w]),
           ~Locked(r), Live(r), UNCHANGED <<req, verified, mails, touched>>,
           skipped \subseteq skipped',
           \A v \in Workers : v # w => wk'[v] = wk[v],
           wk'[w].op = wk[w].op, wk'[w].pc \in {"mail", "commit"},
           wk'[w].copy = wk[w].copy, wk'[w].todo = wk[w].todo, wk'[w].at = r,
           wk[w].op = "queue" => req[r].queued /\ (wk'[w].pc = "mail" => ~req[r].closed),
           wk[w].op # "queue" => req[r].awaiting # "no",
           wk'[w].pc = "commit" => r \in skipped'
    PROVE  IInv'
<1>1. WorkerOk(wk[w])
    BY DEF IInv, WorkersOk
<1>2. HandOk(wk[w])'
    BY DEF HandOk, Queued, Live
<1>3. StepKnown(wk[w])' /\ RowOk(wk[w].copy)'
    BY <1>1 DEF WorkerOk, StepKnown, Hand, RowOk
<1>4. Given(wk'[w]) = {}
    BY DEF Given
<1>5. (\A s \in Requests : s = wk[w].at \/ s \in wk[w].todo => req[s].row # "new")'
    BY <1>1 DEF WorkerOk, Live
<1>6. WorkerOk(wk[w])'
    BY <1>1, <1>2, <1>3, <1>4, <1>5 DEF WorkerOk
<1>7. \A v \in Workers : ~(Hand(wk[v]) /\ wk[v].at = r)
    BY FreeRow DEF IInv, Live
<1> QED BY <1>4, <1>6, <1>7, LocalStep

\* Locks, lists, roll-backs and killed workers.
LEMMA LocalSteps ==
    ASSUME IInv, TypeOK', NEW w \in Workers,
           \/ QueueTake(w) \/ ReleaseList(w) \/ ReleaseTake(w) \/ LoopEnd(w)
           \/ ConfirmLock(w) \/ Refuse(w) \/ VerifyByLink(w) \/ Crash(w)
           \/ LinkMail(w)
    PROVE  IInv'
<1> USE DEF IInv, history
<1>1. wk \in [Workers -> Worker] /\ wk[w] \in Worker /\ WorkerOk(wk[w])
    BY DEF TypeOK, WorkersOk
<1>2. CASE QueueTake(w)
    <2>1. PICK r \in wk[w].todo :
              \/ (Locked(r) \/ ~Queued(r)) /\ Drop(w, r) /\ UNCHANGED skipped
              \/ /\ Queued(r) /\ ~Locked(r)
                 /\ Take(w, r, IF req[r].closed THEN "commit" ELSE "mail")
                 /\ skipped' = IF req[r].closed THEN skipped \cup {r} ELSE skipped
        BY <1>2 DEF QueueTake
    <2>2. /\ wk[w].op = "queue" /\ wk[w].pc = "loop"
          /\ UNCHANGED <<req, verified, mails, touched>>
        BY <1>2 DEF QueueTake
    <2>3. CASE Drop(w, r) /\ UNCHANGED skipped
        BY <1>1, <2>2, <2>3, LoopStep DEF Drop, Worker
    <2>4. CASE /\ Queued(r) /\ ~Locked(r)
               /\ Take(w, r, IF req[r].closed THEN "commit" ELSE "mail")
               /\ skipped' = IF req[r].closed THEN skipped \cup {r} ELSE skipped
        <3>1. r \in Requests
            BY <1>1 DEF Worker
        <3>2. /\ wk'[w].pc = IF req[r].closed THEN "commit" ELSE "mail"
              /\ wk'[w].op = wk[w].op /\ wk'[w].copy = wk[w].copy
              /\ wk'[w].todo = wk[w].todo /\ wk'[w].at = r
              /\ \A v \in Workers : v # w => wk'[v] = wk[v]
            BY <1>1, <2>4 DEF Take, Worker
        <3>3. Live(r) /\ req[r].queued /\ skipped \subseteq skipped'
            BY <2>4 DEF Queued
        <3>4. req[r].closed => r \in skipped'
            BY <2>4
        <3>5. wk'[w].pc \in {"mail", "commit"} /\ (wk'[w].pc = "mail" <=> ~req[r].closed)
            BY <3>2
        <3>6. ~Hand(wk[w])
            BY <2>2 DEF Hand
        <3> QED BY <2>2, <2>4, <3>1, <3>2, <3>3, <3>4, <3>5, <3>6, LockStep
    <2> QED BY <2>1, <2>3, <2>4
<1>3. CASE ReleaseList(w)
    <2>1. \A r \in Requests : Held(r) => req[r].row # "new"
        BY DEF Held, Live
    <2> QED BY <1>1, <1>3, <2>1, LoopStep DEF ReleaseList, Worker
<1>4. CASE ReleaseTake(w)
    <2>1. PICK r \in wk[w].todo :
              /\ ~Locked(r)
              /\ \/ ~Live(r) /\ End(w)
                 \/ Live(r) /\ req[r].awaiting = "no" /\ Drop(w, r)
                 \/ Live(r) /\ req[r].awaiting # "no" /\ Take(w, r, "mail")
        BY <1>4 DEF ReleaseTake
    <2>2. /\ wk[w].op = "release" /\ wk[w].pc = "loop"
          /\ UNCHANGED <<req, verified, mails, touched, skipped>>
        BY <1>4 DEF ReleaseTake
    <2>3. CASE End(w)
        BY <2>2, <2>3, EndStep
    <2>4. CASE Drop(w, r)
        BY <1>1, <2>2, <2>4, LoopStep DEF Drop, Worker
    <2>5. CASE Live(r) /\ req[r].awaiting # "no" /\ Take(w, r, "mail")
        <3>1. r \in Requests
            BY <1>1 DEF Worker
        <3>2. ~Hand(wk[w])
            BY <2>2 DEF Hand
        <3> QED BY <1>1, <2>1, <2>2, <2>5, <3>1, <3>2, LockStep DEF Take, Worker
    <2> QED BY <2>1, <2>3, <2>4, <2>5
<1>5. CASE LoopEnd(w)
    BY <1>5, EndStep DEF LoopEnd
<1>6. CASE ConfirmLock(w)
    <2>1. CASE End(w)
        BY <1>6, <2>1, EndStep DEF ConfirmLock
    <2>2. CASE ~End(w)
        <3>1. /\ wk' = [wk EXCEPT ![w].pc = "mail"]
              /\ Live(wk[w].at) /\ req[wk[w].at].awaiting # "no"
            BY <1>6, <2>2 DEF ConfirmLock
        <3>2. /\ wk[w].op = "confirm" /\ ~Hand(wk[w]) /\ ~Locked(wk[w].at)
              /\ wk[w].at \in Requests
              /\ UNCHANGED <<req, verified, mails, touched, skipped>>
            BY <1>1, <1>6 DEF ConfirmLock, Hand, WorkerOk, StepKnown
        <3> QED BY <1>1, <3>1, <3>2, LockStep DEF Worker
    <2> QED BY <2>1, <2>2
<1>7. CASE Refuse(w)
    <2>1. CASE wk[w].op = "release"
        <3>1. wk[w].at \in Requests \cup {NoRequest}
            BY <1>1 DEF Worker
        <3>2. /\ wk' = [wk EXCEPT ![w] = [wk[w] EXCEPT !.pc = "loop", !.at = NoRequest,
                                                      !.todo = @ \ {wk[w].at}]]
              /\ UNCHANGED <<req, verified, mails, touched, skipped>>
            BY <1>7, <2>1 DEF Refuse, Drop, history
        <3>3. /\ wk'[w].op = wk[w].op /\ wk'[w].pc = "loop" /\ wk'[w].at = NoRequest
              /\ wk'[w].copy = wk[w].copy /\ wk'[w].todo = wk[w].todo \ {wk[w].at}
              /\ \A v \in Workers : v # w => wk'[v] = wk[v]
            BY <1>1, <3>2 DEF IInv, TypeOK, Worker
        <3>4. ~(Hand(wk[w]) /\ wk[w].pc = "commit")
            BY <1>7 DEF Refuse
        <3> QED BY <1>1, <2>1, <3>2, <3>3, <3>4, LoopStep
    <2>2. CASE wk[w].op # "release"
        BY <1>7, <2>2, EndStep DEF Refuse
    <2> QED BY <2>1, <2>2
<1>8. CASE VerifyByLink(w)
    <2>1. /\ wk'[w] = [Idle EXCEPT !.op = "release", !.pc = "list"]
          /\ \A v \in Workers : v # w => wk'[v] = wk[v]
        BY <1>1, <1>8 DEF VerifyByLink
    <2>2. verified' /\ UNCHANGED <<req, mails, touched, skipped>> /\ wk[w].pc = "idle"
        BY <1>8 DEF VerifyByLink
    <2>3. WorkerOk(wk[w])' /\ Given(wk'[w]) = {} /\ ~Hand(wk'[w])
        BY <2>1, <2>2, InvitationsAssumption
           DEF Idle, NewRow, WorkerOk, StepKnown, RowOk, Given, Hand
    <2> QED BY <2>1, <2>2, <2>3, LocalStep
<1>9. CASE Crash(w)
    <2>1. Hand(wk[w]) /\ wk[w].pc = "commit" => wk[w].at \in touched'
        BY <1>9 DEF Crash, Hand
    <2>2. touched \subseteq touched'
        BY <1>9 DEF Crash
    <2> QED BY <1>9, <2>1, <2>2, EndStep DEF Crash
<1>10. CASE LinkMail(w)
    BY <1>10, EndStep DEF LinkMail, Hand
<1> QED BY <1>2, <1>3, <1>4, <1>5, <1>6, <1>7, <1>8, <1>9, <1>10

\* The owner's operations, the hourly deletion, a stale save.
LEMMA RowSteps ==
    ASSUME IInv, TypeOK',
           \/ \E r \in Requests : Close(r) \/ Reopen(r) \/ Delete(r)
           \/ \E w \in Workers : CleanupDelete(w) \/ EditSave(w)
    PROVE  IInv'
<1> USE DEF IInv, history
<1>1. [NewRow EXCEPT !.row = "gone"] \in Row /\ RowOk([NewRow EXCEPT !.row = "gone"])
      /\ [NewRow EXCEPT !.row = "gone"].row = "gone"
    <2>1. [NewRow EXCEPT !.row = "gone"] \in Row
        BY Rows DEF Row
    <2> QED BY <2>1 DEF NewRow, RowOk
<1>2. ASSUME NEW r \in Requests
      PROVE  req[r] \in Row /\ RowOk(req[r])
    BY DEF TypeOK, RowsOk
<1>3. ASSUME NEW r \in Requests, Close(r) \/ Reopen(r)
      PROVE  IInv'
    <2>1. PICK q \in Row :
              /\ req' = [req EXCEPT ![r] = q]
              /\ q.row = "live" /\ q.awaiting = req[r].awaiting /\ q.queued = req[r].queued
              /\ RowOk(q)
        <3>1. CASE Close(r)
            <4> DEFINE q == [req[r] EXCEPT !.closed = TRUE]
            <4>1. q \in Row /\ q.row = "live" /\ q.awaiting = req[r].awaiting
                  /\ q.queued = req[r].queued
                BY <1>2, <3>1 DEF Close, Live, Row
            <4>2. RowOk(q)
                BY <1>2, <3>1, <4>1 DEF Close, RowOk
            <4>3. req' = [req EXCEPT ![r] = q]
                BY <3>1 DEF Close
            <4> QED BY <4>1, <4>2, <4>3
        <3>2. CASE Reopen(r)
            <4> DEFINE q == [req[r] EXCEPT !.closed = FALSE]
            <4>1. q \in Row /\ q.row = "live" /\ q.awaiting = req[r].awaiting
                  /\ q.queued = req[r].queued
                BY <1>2, <3>2 DEF Reopen, Live, Row
            <4>2. RowOk(q)
                BY <1>2, <3>2, <4>1 DEF Reopen, Live, RowOk
            <4>3. req' = [req EXCEPT ![r] = q]
                BY <3>2 DEF Reopen
            <4> QED BY <4>1, <4>2, <4>3
        <3> QED BY <1>3, <3>1, <3>2
    <2>2. /\ UNCHANGED <<mails, verified, skipped, wk, touched>>
          /\ ~Locked(r) /\ req[r].row = "live"
        BY <1>3 DEF Close, Reopen, Live
    <2> QED BY <2>1, <2>2, RowStep
<1>4. ASSUME NEW r \in Requests, Delete(r)
      PROVE  IInv'
    BY <1>1, <1>4, RowStep DEF Delete, Live
<1>5. ASSUME NEW w \in Workers, CleanupDelete(w)
      PROVE  IInv'
    <2>1. PICK r \in wk[w].todo :
              /\ ~Locked(r)
              /\ req' = [req EXCEPT ![r] = [NewRow EXCEPT !.row = "gone"]]
              /\ IF wk[w].todo = {r} THEN End(w) ELSE Drop(w, r)
        BY <1>5 DEF CleanupDelete
    <2>2. wk[w] \in Worker /\ WorkerOk(wk[w]) /\ wk[w].op = "cleanup" /\ ~Hand(wk[w])
        BY <1>5 DEF CleanupDelete, TypeOK, WorkersOk, Hand
    <2>3. r \in Requests /\ req[r].row # "new"
        BY <2>2 DEF Worker, WorkerOk
    <2>4. UNCHANGED <<mails, verified, skipped, touched>>
        BY <1>5 DEF CleanupDelete
    <2>5. ASSUME NEW v \in Workers
          PROVE  \/ wk'[v] = wk[v]
                 \/ wk'[v] = Idle /\ ~Hand(wk[v])
                 \/ WorkerOk(wk[v])' /\ wk[v].op = "cleanup" /\ wk'[v].op = "cleanup"
        <3>1. CASE v # w
            BY <2>1, <3>1 DEF End, Drop, TypeOK
        <3>2. CASE v = w /\ wk[w].todo = {r}
            BY <2>1, <2>2, <3>2 DEF End, TypeOK
        <3>3. CASE v = w /\ wk[w].todo # {r}
            <4>1. /\ wk'[w].op = "cleanup" /\ wk'[w].pc = "loop"
                  /\ wk'[w].at = NoRequest /\ wk'[w].todo = wk[w].todo \ {r}
                  /\ wk'[w].copy = wk[w].copy
                <5>1. wk[w] \in Worker
                    BY <1>1 DEF TypeOK
                <5>2. wk'[w] = [wk[w] EXCEPT !.pc = "loop", !.at = NoRequest, !.todo = @ \ {r}]
                    BY <2>1, <3>3 DEF Drop, TypeOK
                <5> QED BY <2>2, <5>1, <5>2 DEF Worker
            <4>2. \A s \in Requests : req'[s] = req[s] \/ req'[s].row # "new"
                BY <1>1, <2>1 DEF TypeOK
            <4>3. (\A s \in Requests : s = wk[w].at \/ s \in wk[w].todo
                                          => req[s].row # "new")'
                BY <2>2, <4>1, <4>2, InvitationsAssumption DEF WorkerOk
            <4>4. WorkerOk(wk[w])'
                BY <2>2, <2>4, <4>1, <4>3 DEF WorkerOk, StepKnown, RowOk, Given, Hand
            <4> QED BY <2>2, <3>3, <4>1, <4>4
        <3> QED BY <3>1, <3>2, <3>3
    <2> QED BY <1>1, <2>1, <2>3, <2>4, <2>5, RowStep
<1>6. ASSUME NEW w \in Workers, EditSave(w)
      PROVE  IInv'
    <2> DEFINE r == wk[w].at
               q == wk[w].copy
    <2>1. wk[w] \in Worker /\ WorkerOk(wk[w]) /\ wk[w].op = "edit" /\ ~Hand(wk[w])
        BY <1>6 DEF EditSave, TypeOK, WorkersOk, Hand
    <2>2. r \in Requests /\ req[r].row # "new" /\ q \in Row /\ q.row = "live" /\ RowOk(q)
        BY <2>1 DEF Worker, WorkerOk, StepKnown
    <2>3. /\ req' = [req EXCEPT ![r] = q] /\ ~Locked(r)
          /\ UNCHANGED <<mails, verified, skipped>>
          /\ touched \subseteq touched' /\ (q # req[r] => r \in touched')
        BY <1>6 DEF EditSave
    <2>4. \A v \in Workers : wk'[v] = wk[v] \/ (wk'[v] = Idle /\ ~Hand(wk[v]))
        BY <1>6, <2>1 DEF EditSave, End, TypeOK
    <2> HIDE DEF r, q
    <2>5. \/ r \in touched'
          \/ req[r].row = "live" /\ q.awaiting = req[r].awaiting /\ q.queued = req[r].queued
        BY <2>2, <2>3
    <2> QED BY <2>2, <2>3, <2>4, <2>5, RowStep
<1> QED BY <1>3, <1>4, <1>5, <1>6

\* The requests somebody else has are not the ones that change hands.
LEMMA ApartStep ==
    ASSUME Apart, NEW w \in Workers,
           \A v \in Workers : v # w => wk'[v] = wk[v],
           Given(wk'[w]) = {},
           Hand(wk'[w]) => Hand(wk[w]) /\ wk'[w].at = wk[w].at
    PROVE  Apart'
<1> SUFFICES ASSUME NEW u \in Workers, NEW v \in Workers, u # v
             PROVE  /\ \A r \in Requests : ~(r \in Given(wk'[u]) /\ r \in Given(wk'[v]))
                    /\ ~(Hand(wk'[u]) /\ Hand(wk'[v]) /\ wk'[u].at = wk'[v].at)
    BY DEF Apart, Given, Hand
<1> QED BY DEF Apart

\* The new requests are inserted.
LEMMA StoreStep ==
    ASSUME IInv, TypeOK', NEW w \in Workers, StoreCommit(w)
    PROVE  IInv'
<1> USE DEF IInv, history
<1> DEFINE S == wk[w].todo
           q == wk[w].copy
<1>1. /\ wk[w] \in Worker /\ WorkerOk(wk[w]) /\ wk[w].op = "store" /\ ~Hand(wk[w])
      /\ UNCHANGED <<verified, mails, touched, skipped>>
    BY DEF StoreCommit, TypeOK, WorkersOk, Hand
<1>2. /\ S \subseteq Requests /\ S \subseteq Given(wk[w])
      /\ \A r \in S : req[r].row = "new"
      /\ q.row = "live" /\ RowOk(q) /\ (q.queued \/ q.awaiting # "no")
    BY <1>1 DEF Worker, WorkerOk, StepKnown, Given
<1>3. \A r \in Requests : req'[r] = IF r \in S THEN q ELSE req[r]
    BY DEF StoreCommit
<1>4. /\ wk'[w] = Idle
      /\ \A v \in Workers : v # w => wk'[v] = wk[v]
    BY DEF StoreCommit, End, TypeOK
<1>5. \A v \in Workers : v # w =>
          \A r \in S : ~(Hand(wk[v]) /\ wk[v].at = r) /\ r \notin Given(wk[v])
    BY <1>2, NewRowFree
<1> HIDE DEF S, q
<1>6. RowsOk'
    BY <1>1, <1>2, <1>3 DEF RowsOk, RowOk
<1>7. WorkersOk'
    <2> SUFFICES ASSUME NEW v \in Workers
                 PROVE  WorkerOk(wk[v])'
        BY DEF WorkersOk
    <2>1. CASE v = w
        BY <1>4, <2>1, IdleOk
    <2>2. CASE v # w
        <3>1. \A r \in Requests :
                  \/ req'[r] = req[r]
                  \/ /\ req'[r].row # "new"
                     /\ ~(Hand(wk[v]) /\ wk[v].at = r)
                     /\ r \notin Given(wk[v])
            BY <1>2, <1>3, <1>5, <2>2
        <3>2. WorkerOk(wk[v])
            BY DEF WorkersOk
        <3> QED BY <1>1, <1>4, <2>2, <3>1, <3>2, OtherWorker
    <2> QED BY <2>1, <2>2
<1>8. Given(wk'[w]) = {} /\ ~Hand(wk'[w])
    BY <1>4, IdleOk
<1>9. Apart'
    BY <1>4, <1>8, ApartStep
<1>10. MailsOk'
    <2> SUFFICES ASSUME NEW r \in Requests, r \notin touched'
                 PROVE  mails'[r] <= 1 /\ ((Pending(r) /\ ~JustMailed(r))' => mails'[r] = 0)
        BY DEF MailsOk
    <2>1. JustMailed(r)' <=> JustMailed(r)
        BY <1>1, <1>4, <1>8 DEF JustMailed, Hand
    <2>2. CASE r \in S
        <3>1. Pending(r) /\ ~JustMailed(r)
            BY <1>1, <1>2, <1>5, <2>2 DEF Pending, JustMailed
        <3> QED BY <1>1, <3>1 DEF MailsOk
    <2>3. CASE r \notin S
        <3>1. Pending(r)' <=> Pending(r)
            BY <1>3, <2>3 DEF Pending, Queued, Live
        <3> QED BY <1>1, <2>1, <3>1 DEF MailsOk
    <2> QED BY <2>2, <2>3
<1>11. NoInvitationLost'
    BY <1>1, <1>2, <1>3 DEF NoInvitationLost, Live
<1> QED BY <1>6, <1>7, <1>9, <1>10, <1>11

\* What a worker that is about to mail, or has mailed, has in its hand.
LEMMA InHand ==
    ASSUME IInv, NEW w \in Workers, Hand(wk[w])
    PROVE  /\ wk[w] \in Worker /\ WorkerOk(wk[w]) /\ HandOk(wk[w])
           /\ wk[w].at \in Requests
           /\ Pending(wk[w].at)
           /\ \A v \in Workers : v # w => /\ ~(Hand(wk[v]) /\ wk[v].at = wk[w].at)
                                          /\ wk[w].at \notin Given(wk[v])
<1> USE DEF IInv
<1>1. wk[w] \in Worker /\ WorkerOk(wk[w])
    BY DEF TypeOK, WorkersOk
<1>2. HandOk(wk[w]) /\ wk[w].at \in Requests
    BY <1>1 DEF WorkerOk, StepKnown
<1>3. wk[w].op = "send" => wk[w].at \in Given(wk[w])
    BY <1>2 DEF Given
<1>4. CASE wk[w].op = "send"
    <2>1. req[wk[w].at].row = "new"
        BY <1>1, <1>3, <1>4 DEF WorkerOk
    <2>2. \A v \in Workers : v # w => /\ ~(Hand(wk[v]) /\ wk[v].at = wk[w].at)
                                      /\ wk[w].at \notin Given(wk[v])
        BY <1>3, <1>4, NewRowFree
    <2> QED BY <1>1, <1>2, <2>1, <2>2 DEF Pending
<1>5. CASE wk[w].op # "send"
    <2>1. Live(wk[w].at) /\ Pending(wk[w].at)
        BY <1>2, <1>5 DEF Hand, HandOk, Pending, Queued
    <2>2. \A v \in Workers : wk[w].at \notin Given(wk[v])
        BY <2>1 DEF Live, WorkersOk, WorkerOk
    <2> QED BY <1>1, <1>2, <2>1, <2>2 DEF Apart
<1> QED BY <1>4, <1>5

\* The mail leaves.
LEMMA MailStep ==
    ASSUME IInv, TypeOK', NEW w \in Workers, Mail(w)
    PROVE  IInv'
<1> USE DEF IInv, history
<1> DEFINE r == wk[w].at
<1>1. /\ wk[w].pc = "mail" /\ wk[w].op # "link"
      /\ UNCHANGED <<req, verified, touched, skipped>>
      /\ mails' = [mails EXCEPT ![r] = @ + 1]
      /\ wk' = [wk EXCEPT ![w].pc = "commit"]
    BY DEF Mail
<1>2. Hand(wk[w])
    BY <1>1 DEF TypeOK, WorkersOk, WorkerOk, StepKnown, Worker, Hand
<1>3. /\ wk[w] \in Worker /\ WorkerOk(wk[w]) /\ HandOk(wk[w])
      /\ r \in Requests /\ Pending(r)
      /\ \A v \in Workers : v # w => ~(Hand(wk[v]) /\ wk[v].at = r)
    BY <1>2, InHand
<1>4. /\ wk'[w].pc = "commit" /\ wk'[w].op = wk[w].op /\ wk'[w].at = r
      /\ wk'[w].copy = wk[w].copy /\ wk'[w].todo = wk[w].todo
      /\ \A v \in Workers : v # w => wk'[v] = wk[v]
    BY <1>1, <1>3 DEF TypeOK, Worker
<1>5. /\ \A s \in Requests : mails[s] \in Nat
      /\ \A s \in Requests : mails'[s] = IF s = r THEN mails[s] + 1 ELSE mails[s]
    BY <1>1 DEF TypeOK
<1>6. mails'[r] > 0 /\ \A s \in Requests : mails[s] > 0 => mails'[s] > 0
    BY <1>3, <1>5
<1>7. Hand(wk'[w]) /\ Given(wk'[w]) = Given(wk[w])
    BY <1>2, <1>4 DEF Hand, Given
<1> HIDE DEF r
<1>8. RowsOk'
    BY <1>1 DEF RowsOk, RowOk
<1>9. WorkerOk(wk[w])'
    <2>1. StepKnown(wk[w])' /\ RowOk(wk[w].copy)'
        BY <1>1, <1>2, <1>3, <1>4 DEF WorkerOk, StepKnown, Hand, RowOk
    <2>2. HandOk(wk[w])'
        BY <1>1, <1>3, <1>4, <1>6 DEF HandOk, Queued, Live, r
    <2>3. (wk[w].op \notin {"send", "store"} =>
             \A s \in Requests : s = wk[w].at \/ s \in wk[w].todo => req[s].row # "new")'
        BY <1>1, <1>3, <1>4 DEF WorkerOk, r
    <2> QED BY <1>1, <1>3, <1>4, <1>7, <2>1, <2>2, <2>3 DEF WorkerOk
<1>10. WorkersOk'
    <2> SUFFICES ASSUME NEW v \in Workers, v # w
                 PROVE  WorkerOk(wk[v])'
        BY <1>9 DEF WorkersOk
    <2>1. WorkerOk(wk[v])
        BY DEF WorkersOk
    <2> QED BY <1>1, <1>4, <1>6, <2>1, OtherWorker
<1>11. Apart'
    <2> SUFFICES ASSUME NEW u \in Workers, NEW v \in Workers, u # v
                 PROVE  /\ \A s \in Requests : ~(s \in Given(wk'[u]) /\ s \in Given(wk'[v]))
                        /\ ~(Hand(wk'[u]) /\ Hand(wk'[v]) /\ wk'[u].at = wk'[v].at)
        BY DEF Apart, Given, Hand
    <2> QED BY <1>2, <1>4, <1>7 DEF Apart, r
<1>12. MailsOk'
    <2> SUFFICES ASSUME NEW s \in Requests, s \notin touched'
                 PROVE  mails'[s] <= 1 /\ ((Pending(s) /\ ~JustMailed(s))' => mails'[s] = 0)
        BY DEF MailsOk
    <2>1. CASE s = r
        <3>1. ~JustMailed(s)
            BY <1>1, <1>3, <2>1 DEF JustMailed
        <3>2. mails[s] = 0
            BY <1>1, <1>3, <2>1, <3>1 DEF MailsOk
        <3>3. JustMailed(s)'
            BY <1>4, <1>7, <2>1 DEF JustMailed, Hand
        <3> QED BY <1>5, <2>1, <3>2, <3>3
    <2>2. CASE s # r
        <3>1. JustMailed(s) => JustMailed(s)'
            BY <1>1, <1>4 DEF JustMailed, Hand
        <3>2. Pending(s)' <=> Pending(s)
            BY <1>1 DEF Pending, Queued, Live
        <3>3. mails'[s] = mails[s] /\ s \notin touched
            BY <1>1, <1>5, <2>2
        <3> QED BY <3>1, <3>2, <3>3 DEF MailsOk
    <2> QED BY <2>1, <2>2
<1>13. NoInvitationLost'
    BY <1>1, <1>6 DEF NoInvitationLost, Live
<1> QED BY <1>8, <1>10, <1>11, <1>12, <1>13

\* The row says so.
LEMMA CommitStep ==
    ASSUME IInv, TypeOK', NEW w \in Workers, Commit(w)
    PROVE  IInv'
<1> USE DEF IInv, history
<1> DEFINE r == wk[w].at
           q == req'[r]
<1>1. /\ wk[w].pc = "commit" /\ wk[w].op # "store"
      /\ UNCHANGED <<mails, touched, skipped>>
      /\ verified' = (verified \/ wk[w].op = "confirm")
      /\ IF wk[w].op \in {"queue", "release"} THEN Drop(w, r) ELSE End(w)
    BY DEF Commit
<1>2. Hand(wk[w])
    BY <1>1 DEF TypeOK, WorkersOk, WorkerOk, StepKnown, Worker, Hand
<1>3. /\ wk[w] \in Worker /\ WorkerOk(wk[w]) /\ HandOk(wk[w]) /\ r \in Requests
      /\ \A v \in Workers : v # w => ~(Hand(wk[v]) /\ wk[v].at = r) /\ r \notin Given(wk[v])
    BY <1>2, InHand
<1>4. \A s \in Requests : s # r => req'[s] = req[s]
    BY DEF Commit, TypeOK
<1>5. req[r] \in Row /\ RowOk(req[r])
    BY <1>3 DEF TypeOK, RowsOk
<1>6. q.row = "live" /\ q.awaiting = "no" /\ ~q.queued
    <2>1. CASE wk[w].op = "send"
        <3>1. q = LiveRow
            BY <1>3, <2>1 DEF Commit, TypeOK, WorkerOk, StepKnown
        <3> QED BY <3>1 DEF LiveRow, NewRow
    <2>2. CASE wk[w].op = "queue"
        <3>1. q = [req[r] EXCEPT !.queued = FALSE]
            BY <1>3, <2>2 DEF Commit, TypeOK
        <3>2. req[r].row = "live" /\ req[r].awaiting = "no"
            BY <1>3, <1>5, <2>2 DEF HandOk, Queued, Live, RowOk
        <3> QED BY <1>5, <3>1, <3>2 DEF Row
    <2>3. CASE wk[w].op \in {"release", "confirm"}
        <3>1. q = [req[r] EXCEPT !.awaiting = "no"]
            BY <1>3, <2>3 DEF Commit, TypeOK
        <3>2. req[r].row = "live" /\ ~req[r].queued
            BY <1>3, <1>5, <2>3 DEF HandOk, Live, RowOk
        <3> QED BY <1>5, <3>1, <3>2 DEF Row
    <2> QED BY <1>2, <2>1, <2>2, <2>3 DEF Hand
<1>7. RowsOk'
    <2> SUFFICES ASSUME NEW s \in Requests
                 PROVE  RowOk(req[s])'
        BY DEF RowsOk
    <2>1. CASE s = r
        BY <1>6, <2>1 DEF RowOk
    <2>2. CASE s # r
        BY <1>1, <1>4, <2>2 DEF RowsOk, RowOk
    <2> QED BY <2>1, <2>2
<1>8. \A v \in Workers : v # w => wk'[v] = wk[v]
    BY <1>1 DEF Drop, End, TypeOK
<1> HIDE DEF r, q
<1>9. WorkerOk(wk[w])' /\ Given(wk'[w]) = {} /\ ~Hand(wk'[w])
    <2>1. CASE wk[w].op \in {"queue", "release"}
        <3>1. /\ wk'[w].op = wk[w].op /\ wk'[w].pc = "loop" /\ wk'[w].at = NoRequest
              /\ wk'[w].todo = wk[w].todo \ {r} /\ wk'[w].copy = wk[w].copy
            <4>1. wk[w] \in Worker
                BY <1>1 DEF TypeOK
            <4>2. wk'[w] = [wk[w] EXCEPT !.pc = "loop", !.at = NoRequest, !.todo = @ \ {r}]
                BY <1>1, <2>1 DEF Drop, TypeOK, r
            <4> QED BY <4>1, <4>2 DEF Worker
        <3>2. Given(wk'[w]) = {} /\ ~Hand(wk'[w])
            BY <2>1, <3>1 DEF Given, Hand
        <3>3. (\A s \in Requests : s = wk[w].at \/ s \in wk[w].todo => req[s].row # "new")'
            BY <1>3, <1>4, <2>1, <3>1, InvitationsAssumption DEF WorkerOk
        <3>4. StepKnown(wk[w])' /\ RowOk(wk[w].copy)'
            BY <1>1, <1>3, <2>1, <3>1, <3>2 DEF WorkerOk, StepKnown, RowOk
        <3> QED BY <1>1, <1>3, <2>1, <3>1, <3>2, <3>3, <3>4 DEF WorkerOk
    <2>2. CASE wk[w].op \notin {"queue", "release"}
        <3>1. wk'[w] = Idle
            BY <1>1, <2>2 DEF End, TypeOK
        <3> QED BY <3>1, IdleOk
    <2> QED BY <2>1, <2>2
<1>10. WorkersOk'
    <2> SUFFICES ASSUME NEW v \in Workers, v # w
                 PROVE  WorkerOk(wk[v])'
        BY <1>9 DEF WorkersOk
    <2>1. \A s \in Requests :
              \/ req'[s] = req[s]
              \/ /\ req'[s].row # "new"
                 /\ ~(Hand(wk[v]) /\ wk[v].at = s)
                 /\ s \notin Given(wk[v])
        BY <1>3, <1>4, <1>6 DEF q
    <2>2. WorkerOk(wk[v])
        BY DEF WorkersOk
    <2> QED BY <1>1, <1>8, <2>1, <2>2, OtherWorker
<1>11. Apart'
    BY <1>8, <1>9, ApartStep
<1>12. MailsOk'
    <2> SUFFICES ASSUME NEW s \in Requests, s \notin touched'
                 PROVE  mails'[s] <= 1 /\ ((Pending(s) /\ ~JustMailed(s))' => mails'[s] = 0)
        BY DEF MailsOk
    <2>1. mails'[s] <= 1 /\ mails'[s] = mails[s] /\ s \notin touched
        BY <1>1 DEF MailsOk
    <2>2. CASE s = r
        <3>1. ~Pending(s)'
            BY <1>6, <2>2 DEF Pending, Queued, Live, q
        <3> QED BY <2>1, <3>1
    <2>3. CASE s # r
        <3>1. Pending(s)' <=> Pending(s)
            BY <1>4, <2>3 DEF Pending, Queued, Live
        <3>2. JustMailed(s) => JustMailed(s)'
            BY <1>8, <2>3 DEF JustMailed, Hand, r
        <3> QED BY <2>1, <3>1, <3>2 DEF MailsOk
    <2> QED BY <2>2, <2>3
<1>13. NoInvitationLost'
    <2> SUFFICES ASSUME NEW s \in Requests, s \notin touched'
                 PROVE  (Live(s) /\ req[s].awaiting = "no" /\ ~req[s].queued
                            => mails[s] > 0 \/ s \in skipped)'
        BY DEF NoInvitationLost
    <2>1. CASE s = r
        BY <1>1, <1>3, <2>1 DEF HandOk, r
    <2>2. CASE s # r
        BY <1>1, <1>4, <2>2 DEF NoInvitationLost, Live
    <2> QED BY <2>1, <2>2
<1> QED BY <1>7, <1>10, <1>11, <1>12, <1>13

\* Time passes, or the address is confirmed elsewhere, or nothing happens.
LEMMA OtherStep ==
    ASSUME IInv, TypeOK', UNCHANGED <<req, wk, mails, touched, skipped>>,
           verified => verified'
    PROVE  IInv'
<1> USE DEF IInv
<1>1. RowsOk'
    BY DEF RowsOk, RowOk
<1>2. WorkersOk'
    <2> SUFFICES ASSUME NEW v \in Workers
                 PROVE  WorkerOk(wk[v])'
        BY DEF WorkersOk
    <2>1. WorkerOk(wk[v])
        BY DEF WorkersOk
    <2> QED BY <2>1, OtherWorker
<1>3. Apart'
    BY DEF Apart, Given, Hand
<1>4. MailsOk'
    BY DEF MailsOk, Pending, JustMailed, Queued, Live, Hand
<1>5. NoInvitationLost'
    BY DEF NoInvitationLost, Live
<1> QED BY <1>1, <1>2, <1>3, <1>4, <1>5

\* Every step keeps the invariant.
LEMMA InvStep == IInv /\ [Next]_vars => IInv'
<1> SUFFICES ASSUME IInv, [Next]_vars
             PROVE  IInv'
    OBVIOUS
<1>1. TypeOK'
    BY TypeStep DEF IInv
<1>2. ASSUME NEW w \in Workers,
             \/ \E r \in Requests : \/ CreateBegin(w, r) \/ GuestSubmitBegin(w, r)
                                    \/ SendHeldBegin(w, r) \/ ConfirmBegin(w, r)
                                    \/ EditBegin(w, r) \/ SendLinkBegin(w, r)
             \/ \E S \in SUBSET Requests : CreateManyBegin(w, S)
             \/ QueueBegin(w) \/ CleanupBegin(w)
      PROVE  IInv'
    BY <1>1, <1>2, BeginSteps
<1>3. ASSUME NEW w \in Workers,
             \/ QueueTake(w) \/ ReleaseList(w) \/ ReleaseTake(w) \/ LoopEnd(w)
             \/ ConfirmLock(w) \/ Refuse(w) \/ VerifyByLink(w) \/ Crash(w)
             \/ LinkMail(w)
      PROVE  IInv'
    BY <1>1, <1>3, LocalSteps
<1>4. ASSUME NEW w \in Workers, CleanupDelete(w) \/ EditSave(w)
      PROVE  IInv'
    BY <1>1, <1>4, RowSteps
<1>5. ASSUME NEW w \in Workers, StoreCommit(w) \/ Mail(w) \/ Commit(w)
      PROVE  IInv'
    BY <1>1, <1>5, StoreStep, MailStep, CommitStep
<1>6. ASSUME NEW r \in Requests, Close(r) \/ Reopen(r) \/ Delete(r)
      PROVE  IInv'
    BY <1>1, <1>6, RowSteps
<1>7. ASSUME NEW r \in Requests, Expire(r)
      PROVE  IInv'
    BY <1>1, <1>7, OtherStep DEF Expire, history
<1>8. CASE VerifyElsewhere
    BY <1>1, <1>8, OtherStep DEF VerifyElsewhere, history
<1>9. CASE UNCHANGED vars
    BY <1>1, <1>9, OtherStep DEF vars
<1> QED BY <1>2, <1>3, <1>4, <1>5, <1>6, <1>7, <1>8, <1>9 DEF Next, Statement

\* So it holds always.
LEMMA Invariant == Spec => []IInv
BY InitInv, InvStep, PTL DEF Spec

-----------------------------------------------------------------------------
(* The results *)

(* The variables stay in their sets: the states of the model are states    *)
(* of the rows and of the processes.                                       *)
THEOREM TypeCorrect == Spec => []TypeOK
<1>1. IInv => TypeOK
    BY DEF IInv
<1> QED BY <1>1, Invariant, PTL

(* However many queue workers, releases and confirmations run at once,     *)
(* each request not saved from a stale copy nor left by a killed worker    *)
(* gets one invitation at most.                                            *)
THEOREM NobodyInvitedTwice == Spec => []InvitedOnce
<1>1. IInv => InvitedOnce
    BY DEF IInv, MailsOk, InvitedOnce
<1> QED BY <1>1, Invariant, PTL

(* A sent request that is not queued had its invitation mailed, unless     *)
(* the queue found it closed.                                              *)
THEOREM NobodyForgotten == Spec => []NoInvitationLost
<1>1. IInv => NoInvitationLost
    BY DEF IInv
<1> QED BY <1>1, Invariant, PTL

\* The only step that mails.
LEMMA OnlyMail ==
    ASSUME IInv, Next, NEW r \in Requests, mails'[r] # mails[r]
    PROVE  \E w \in Workers : Mail(w) /\ Hand(wk[w]) /\ wk[w].pc = "mail" /\ wk[w].at = r
<1>1. PICK w \in Workers : Mail(w)
    BY DEF Next, Statement, history, Begin, CreateBegin, GuestSubmitBegin,
           SendHeldBegin, ConfirmBegin, EditBegin, CreateManyBegin, QueueBegin,
           CleanupBegin, VerifyByLink, StoreCommit, QueueTake, ReleaseList,
           ReleaseTake, LoopEnd, ConfirmLock, CleanupDelete, Commit, EditSave,
           Refuse, Crash, Close, Reopen, Delete, Expire, VerifyElsewhere,
           SendLinkBegin, LinkMail
<1>2. wk[w].pc = "mail" /\ wk[w].op # "link" /\ wk[w].at = r
    BY <1>1 DEF Mail, IInv, TypeOK
<1>3. Hand(wk[w])
    BY <1>2 DEF IInv, TypeOK, WorkersOk, WorkerOk, StepKnown, Worker, Hand
<1> QED BY <1>1, <1>2, <1>3

\* The only step that sends a link by hand.
LEMMA OnlyLinkMail ==
    ASSUME Next, byHand' # byHand
    PROVE  verified
<1>1. PICK w \in Workers : LinkMail(w)
    BY DEF Next, Statement, history, Begin, CreateBegin, GuestSubmitBegin,
           SendHeldBegin, ConfirmBegin, EditBegin, CreateManyBegin, QueueBegin,
           CleanupBegin, VerifyByLink, StoreCommit, QueueTake, ReleaseList,
           ReleaseTake, LoopEnd, ConfirmLock, CleanupDelete, Mail, Commit, EditSave,
           Refuse, Crash, Close, Reopen, Delete, Expire, VerifyElsewhere,
           SendLinkBegin
<1> QED BY <1>1 DEF LinkMail

(* Every invitation leaves from an address that is proved, or that the     *)
(* guest's link is proving, and every link sent by hand from one proved.   *)
THEOREM NothingFromUnproved == Spec => ProvedBeforeInvited
<1> DEFINE P(r) == mails'[r] # mails[r] =>
                       \/ verified
                       \/ \E w \in Workers : /\ wk[w].op = "confirm" /\ wk[w].pc = "mail"
                                             /\ wk[w].at = r
<1>1. ASSUME IInv, [Next]_vars
      PROVE  [(\A r \in Requests : P(r)) /\ (byHand' # byHand => verified)]_vars
    <2>1. ASSUME Next, NEW r \in Requests, mails'[r] # mails[r]
          PROVE  \/ verified
                 \/ \E w \in Workers : /\ wk[w].op = "confirm" /\ wk[w].pc = "mail"
                                       /\ wk[w].at = r
        <3>1. PICK w \in Workers : Hand(wk[w]) /\ wk[w].pc = "mail" /\ wk[w].at = r
            BY <1>1, <2>1, OnlyMail
        <3>2. WorkerOk(wk[w]) /\ HandOk(wk[w])
            BY <1>1, <3>1, InHand
        <3>3. CASE wk[w].op \in {"send", "release"}
            BY <3>2, <3>3 DEF WorkerOk
        <3>4. CASE wk[w].op = "queue"
            BY <1>1, <3>1, <3>2, <3>4 DEF HandOk, Queued, IInv, RowsOk, RowOk
        <3>5. CASE wk[w].op = "confirm"
            BY <3>1, <3>5
        <3> QED BY <3>1, <3>3, <3>4, <3>5 DEF Hand
    <2> QED BY <1>1, <2>1, OnlyLinkMail
<1> QED BY <1>1, Invariant, PTL DEF Spec, ProvedBeforeInvited

(* Neither the queue nor a release mails an invitation of a request that   *)
(* is deleted, or that is closed and was not closed while it was held.     *)
THEOREM WithdrawnStays == Spec => WithdrawnNotInvited
<1> DEFINE P(r) == mails'[r] # mails[r] =>
                       /\ req[r].row # "gone"
                       /\ req[r].closed => req[r].awaiting # "no"
<1>1. ASSUME IInv, [Next]_vars
      PROVE  [\A r \in Requests : P(r)]_vars
    <2>1. ASSUME Next, NEW r \in Requests, mails'[r] # mails[r]
          PROVE  req[r].row # "gone" /\ (req[r].closed => req[r].awaiting # "no")
        <3>1. PICK w \in Workers : Hand(wk[w]) /\ wk[w].pc = "mail" /\ wk[w].at = r
            BY <1>1, <2>1, OnlyMail
        <3>2. HandOk(wk[w]) /\ WorkerOk(wk[w]) /\ RowOk(req[r])
            BY <1>1, <3>1, InHand DEF IInv, RowsOk
        <3>3. CASE wk[w].op = "send"
            <4>1. req[r].row = "new"
                BY <3>1, <3>2, <3>3 DEF WorkerOk, Given
            <4> QED BY <3>2, <4>1 DEF RowOk
        <3>4. CASE wk[w].op # "send"
            BY <3>1, <3>2, <3>4 DEF Hand, HandOk, Queued, Live
        <3> QED BY <3>3, <3>4
    <2> QED BY <1>1, <2>1
<1> QED BY <1>1, Invariant, PTL DEF Spec, WithdrawnNotInvited

-----------------------------------------------------------------------------
(* Questions: the invariant *)

Asking == {p \in Workers : hand[p].doing = "ask"}

AskedOk ==
    OpenPlaces > 0 =>
        Cardinality(Q!Open \ unasked) + Cardinality(Asking)
            <= OpenPlaces + Cardinality(Workers) - 1

Last(s) == s[Len(s)]

\* Who speaks in the message of a process.
Voice(p) == IF hand[p].doing = "answer" THEN "client" ELSE "sender"

\* The processes whose message is in, and whose save is not.
ToSave(q) == {p \in Workers : hand[p].of = q /\ hand[p].said}

Follows(q) ==
    /\ item[q] \in Q!Waiting => Last(thread[q]) = "sender"
    /\ item[q] = "dostarczony" => Last(thread[q]) = "client"

ThreadOk(q) ==
    q \notin raced =>
        \/ ToSave(q) = {} /\ Follows(q)
        \/ \E p \in ToSave(q) : Last(thread[q]) = Voice(p)

\* What a process does, and of a question that has no row yet.
AskingOk(p) ==
    /\ hand[p].said => hand[p].doing \in {"answer", "follow_up"}
    /\ hand[p].doing # "idle" => hand[p].of \in Questions
    /\ hand[p].doing \notin {"ask", "ask_held"} /\ hand[p].of \in Questions => item[hand[p].of] # "none"

QuestionInv ==
    /\ Q!TypeOK
    /\ AskedOk
    /\ \A p \in Workers : AskingOk(p)
    /\ \A q \in Questions : ThreadOk(q)

-----------------------------------------------------------------------------
(* The public pages: the invariant *)

Session == [granted : BOOLEAN, verified : SUBSET Addresses, user : Addresses \cup {NoAddress}]

Page == [doing : {"none", "detail", "send", "link", "confirm"}, address : Addresses \cup {NoAddress}]

\* The person at b reads a mailbox the request was addressed to.
Addressee(b) == Reads[b] \cap sentTo # {}

SessionOk(b) ==
    /\ session[b].user \in Reads[b] \cup {NoAddress}
    /\ session[b].verified \subseteq Reads[b]
    /\ locked /\ session[b].granted => b \in knew \/ Addressee(b)

PageOk(b) == page[b].doing # "none" => page[b].address \in sentTo

PagesInv ==
    /\ session \in [Readers -> Session]
    /\ page \in [Readers -> Page]
    /\ file \in [Files -> Readers \cup {NoFile, Nobody}]
    /\ shown \in [Readers -> SUBSET Files]
    /\ address \in sentTo /\ sentTo \subseteq Addresses
    /\ \A b \in Readers : SessionOk(b) /\ PageOk(b)

-----------------------------------------------------------------------------
(* Questions: helpers *)

\* The notions of finite sets are those of Questions.
LEMMA SameSets ==
    ASSUME NEW X
    PROVE  (Q!IsFiniteSet(X) <=> IsFiniteSet(X)) /\ Q!Cardinality(X) = Cardinality(X)
<1>1. Q!IsFiniteSet(X) <=> IsFiniteSet(X)
  BY DEF Q!IsFiniteSet, IsFiniteSet
<1>2. Q!Cardinality(X) = Cardinality(X)
  BY DEF Q!Cardinality, Cardinality
<1> QED BY <1>1, <1>2

LEMMA Finite ==
    ASSUME Q!QuestionAssumption
    PROVE  IsFiniteSet(Questions) /\ IsFiniteSet(Workers)
BY SameSets DEF Q!QuestionAssumption

\* What is appended is last.
LEMMA AppendLast ==
    ASSUME NEW U, NEW s \in Seq(U), NEW e \in U
    PROVE  /\ Append(s, e) \in Seq(U)
           /\ Last(Append(s, e)) = e
BY DEF Last

\* Fewer are asked, or fewer are asking, and none more of the other.
LEMMA AskedShrinks ==
    ASSUME Q!QuestionAssumption, NEW X, NEW Y, NEW U, NEW V,
           U \subseteq Questions, V \subseteq Workers, X \subseteq U, Y \subseteq V
    PROVE  /\ Cardinality(X) \in Nat /\ Cardinality(U) \in Nat /\ Cardinality(X) <= Cardinality(U)
           /\ Cardinality(Y) \in Nat /\ Cardinality(V) \in Nat /\ Cardinality(Y) <= Cardinality(V)
<1>1. IsFiniteSet(U) /\ IsFiniteSet(V)
  BY Finite, FS_Subset
<1>2. IsFiniteSet(X) /\ IsFiniteSet(Y)
  BY <1>1, FS_Subset
<1> QED BY <1>1, <1>2, FS_Subset, FS_CardinalityType

\* A step after which no more are asked and no more asking.
LEMMA AskedLess ==
    ASSUME Q!QuestionAssumption, AskedOk, OpenPlaces > 0,
           (Q!Open \ unasked)' \subseteq Q!Open \ unasked,
           Asking' \subseteq Asking
    PROVE  AskedOk'
<1> DEFINE X == (Q!Open \ unasked)'
           U == Q!Open \ unasked
           Y == Asking'
<1>1. U \subseteq Questions /\ Asking \subseteq Workers
  BY DEF Q!Open, Asking
<1>2. /\ Cardinality(X) \in Nat /\ Cardinality(U) \in Nat /\ Cardinality(X) <= Cardinality(U)
      /\ Cardinality(Y) \in Nat /\ Cardinality(Asking) \in Nat
      /\ Cardinality(Y) <= Cardinality(Asking)
  <2> HIDE DEF X, U, Y
  <2>1. X \subseteq U /\ Y \subseteq Asking BY DEF X, U, Y
  <2> QED BY <1>1, <2>1, AskedShrinks
<1>3. OpenPlaces \in Nat /\ Cardinality(Workers) \in Nat
  BY Finite, FS_CardinalityType DEF Q!QuestionAssumption
<1>4. AskedOk' <=> Cardinality(X) + Cardinality(Y) <= OpenPlaces + Cardinality(Workers) - 1
  BY DEF AskedOk
<1>5. Cardinality(U) + Cardinality(Asking) <= OpenPlaces + Cardinality(Workers) - 1
  BY DEF AskedOk
<1> HIDE DEF X, U, Y
<1> QED BY <1>2, <1>3, <1>4, <1>5

\* One more asks, who found a place free.
LEMMA AskKeepsAsked ==
    ASSUME Q!QuestionAssumption, Q!TypeOK, AskedOk, OpenPlaces > 0,
           NEW p \in Workers, NEW q \in Questions, Q!Ask(p, q)
    PROVE  AskedOk'
<1>1. (Q!Open \ unasked)' = Q!Open \ unasked
  BY DEF Q!Ask, Q!Open
<1>2. Q!Open \ unasked \subseteq Q!Open /\ Q!Open \subseteq Questions
  BY DEF Q!Open
<1>3. Asking' \subseteq Workers
  BY DEF Asking
<1>4. /\ Cardinality(Q!Open \ unasked) \in Nat /\ Cardinality(Q!Open) \in Nat
      /\ Cardinality(Q!Open \ unasked) <= Cardinality(Q!Open)
      /\ Cardinality(Asking') \in Nat /\ Cardinality(Workers) \in Nat
      /\ Cardinality(Asking') <= Cardinality(Workers)
  BY <1>2, <1>3, AskedShrinks
<1>5. Cardinality(Q!Open) < OpenPlaces
  BY SameSets DEF Q!Ask, Q!PlaceFree
<1>6. OpenPlaces \in Nat
  BY DEF Q!QuestionAssumption
<1>7. Cardinality(Q!Open \ unasked) + Cardinality(Asking') <= OpenPlaces + Cardinality(Workers) - 1
  BY <1>4, <1>5, <1>6
<1> QED BY <1>1, <1>7 DEF AskedOk

-----------------------------------------------------------------------------
(* Questions: types *)

HandsOk == \A p \in Workers : AskingOk(p)

\* Which question a process has, and what it is doing with it.
LEMMA AtWork ==
    ASSUME Q!TypeOK, HandsOk, NEW p \in Workers, hand[p].doing # "idle"
    PROVE  hand[p].of \in Questions /\ hand[p] \in Q!Process
BY DEF Q!TypeOK, HandsOk, AskingOk

LEMMA QuestionTypeStep ==
    ASSUME Q!QuestionAssumption, Q!TypeOK, HandsOk, Q!Next
    PROVE  Q!TypeOK'
<1> USE DEF Q!TypeOK
<1>1. ASSUME NEW p \in Workers, NEW q \in Questions, Q!Ask(p, q)
      PROVE  Q!TypeOK'
  <2>1. hand[p] \in Q!Process /\ hand' = [hand EXCEPT ![p] =
                                  [@ EXCEPT !.of = q, !.doing = IF proved THEN "ask" ELSE "ask_held"]]
    BY <1>1 DEF Q!Ask
  <2>2. [hand[p] EXCEPT !.of = q, !.doing = IF proved THEN "ask" ELSE "ask_held"] \in Q!Process
    BY <2>1 DEF Q!Process
  <2>3. hand' \in [Workers -> Q!Process]
    BY <2>1, <2>2
  <2> QED BY <1>1, <2>3 DEF Q!Ask
<1>2. ASSUME NEW p \in Workers, Q!AskCommit(p)
      PROVE  Q!TypeOK'
  <2>1. hand[p].of \in Questions
    BY <1>2, AtWork DEF Q!AskCommit
  <2>2. Q!Idle \in Q!Process
    BY DEF Q!Idle, Q!Process
  <2>3. <<"sender">> \in Seq({"client", "sender"})
    OBVIOUS
  <2> QED BY <1>2, <2>1, <2>2, <2>3 DEF Q!AskCommit, Q!Statuses
<1>3. ASSUME NEW p \in Workers, NEW q \in Questions, NEW d \in {"answer", "follow_up", "resolve"},
             Q!Read(p, q, d)
      PROVE  Q!TypeOK'
  <2>1. [doing |-> d, of |-> q, copy |-> item[q], said |-> FALSE] \in Q!Process
    BY <1>3 DEF Q!Read, Q!Process
  <2> QED BY <1>3, <2>1 DEF Q!Read
<1>4. ASSUME NEW p \in Workers, NEW v \in {"client", "sender"},
             Q!Say(p, v), hand[p].doing # "idle"
      PROVE  Q!TypeOK'
  <2>1. hand[p].of \in Questions /\ hand[p] \in Q!Process
    BY <1>4, AtWork
  <2>2. hand' = [hand EXCEPT ![p] = [@ EXCEPT !.said = TRUE]]
    BY <1>4 DEF Q!Say
  <2>3. [hand[p] EXCEPT !.said = TRUE] \in Q!Process
    BY <2>1 DEF Q!Process
  <2>4. hand' \in [Workers -> Q!Process]
    BY <2>2, <2>3
  <2>5. Append(thread[hand[p].of], v) \in Seq({"client", "sender"})
    BY <2>1, AppendLast
  <2>6. thread' \in [Questions -> Seq({"client", "sender"})]
    BY <1>4, <2>1, <2>5 DEF Q!Say
  <2> QED BY <1>4, <2>4, <2>6 DEF Q!Say
<1>5. ASSUME NEW p \in Workers, NEW s \in Q!Statuses, Q!Save(p, s), hand[p].doing # "idle"
      PROVE  Q!TypeOK'
  <2>1. hand[p].of \in Questions
    BY <1>5, AtWork
  <2>2. Q!Idle \in Q!Process
    BY DEF Q!Idle, Q!Process
  <2> QED BY <1>5, <2>1, <2>2 DEF Q!Save
<1>6. ASSUME NEW q \in Questions, Q!Close(q) \/ Q!Reopen(q) \/ Q!Release(q)
      PROVE  Q!TypeOK'
  BY <1>6 DEF Q!Close, Q!Reopen, Q!Release
<1>10. CASE Q!Prove
  BY <1>10 DEF Q!Prove
<1> HIDE DEF Q!TypeOK
<1>7. ASSUME NEW p \in Workers, NEW q \in Questions,
             Q!AnswerRead(p, q) \/ Q!FollowUpRead(p, q) \/ Q!ResolveRead(p, q)
      PROVE  Q!TypeOK'
  BY <1>7, <1>3 DEF Q!AnswerRead, Q!FollowUpRead, Q!ResolveRead
<1>8. ASSUME NEW p \in Workers, Q!AnswerSay(p) \/ Q!FollowUpSay(p)
      PROVE  Q!TypeOK'
  BY <1>8, <1>4 DEF Q!AnswerSay, Q!FollowUpSay
<1>9. ASSUME NEW p \in Workers, Q!AnswerSave(p) \/ Q!FollowUpSave(p) \/ Q!ResolveSave(p)
      PROVE  Q!TypeOK'
  BY <1>9, <1>5 DEF Q!AnswerSave, Q!FollowUpSave, Q!ResolveSave, Q!Statuses
<1> QED BY <1>1, <1>2, <1>6, <1>7, <1>8, <1>9, <1>10 DEF Q!Next

-----------------------------------------------------------------------------
(* Questions: the actions by what they do to a process *)

LEMMA HandsStep ==
    ASSUME Q!QuestionAssumption, Q!TypeOK, HandsOk, Q!Next
    PROVE  HandsOk'
<1> USE DEF AskingOk
<1>1. ASSUME NEW p \in Workers, NEW q \in Questions, Q!Ask(p, q)
      PROVE  HandsOk'
  BY <1>1 DEF HandsOk, Q!Ask, Q!TypeOK, Q!Process, Q!Idle
<1>2. ASSUME NEW p \in Workers, Q!AskCommit(p)
      PROVE  HandsOk'
  BY <1>2 DEF HandsOk, Q!AskCommit, Q!TypeOK, Q!Process, Q!Idle, Q!QuestionAssumption
<1>3. ASSUME NEW p \in Workers, NEW q \in Questions, NEW d \in {"answer", "follow_up", "resolve"},
             Q!Read(p, q, d)
      PROVE  HandsOk'
  BY <1>3 DEF HandsOk, Q!Read, Q!TypeOK, Q!Process, Q!Statuses
<1>4. ASSUME NEW p \in Workers, NEW v, Q!Say(p, v), hand[p].doing \in {"answer", "follow_up"}
      PROVE  HandsOk'
  BY <1>4 DEF HandsOk, Q!Say, Q!TypeOK, Q!Process
<1>5. ASSUME NEW p \in Workers, NEW s \in Q!Statuses, Q!Save(p, s)
      PROVE  HandsOk'
  BY <1>5 DEF HandsOk, Q!Save, Q!TypeOK, Q!Process, Q!Idle, Q!Statuses, Q!QuestionAssumption
<1>6. ASSUME NEW q \in Questions, Q!Close(q) \/ Q!Reopen(q) \/ Q!Release(q)
      PROVE  HandsOk'
  BY <1>6 DEF HandsOk, Q!Close, Q!Reopen, Q!Release
<1>10. CASE Q!Prove
  BY <1>10 DEF HandsOk, Q!Prove
<1>7. ASSUME NEW p \in Workers, NEW q \in Questions,
             Q!AnswerRead(p, q) \/ Q!FollowUpRead(p, q) \/ Q!ResolveRead(p, q)
      PROVE  HandsOk'
  BY <1>7, <1>3 DEF Q!AnswerRead, Q!FollowUpRead, Q!ResolveRead
<1>8. ASSUME NEW p \in Workers, Q!AnswerSay(p) \/ Q!FollowUpSay(p)
      PROVE  HandsOk'
  BY <1>8, <1>4 DEF Q!AnswerSay, Q!FollowUpSay
<1>9. ASSUME NEW p \in Workers, Q!AnswerSave(p) \/ Q!FollowUpSave(p) \/ Q!ResolveSave(p)
      PROVE  HandsOk'
  BY <1>9, <1>5 DEF Q!AnswerSave, Q!FollowUpSave, Q!ResolveSave, Q!Statuses
<1> HIDE DEF AskingOk
<1> QED BY <1>1, <1>2, <1>6, <1>7, <1>8, <1>9, <1>10 DEF Q!Next

-----------------------------------------------------------------------------
(* Questions: asked within the plan's places *)

LEMMA AskedStep ==
    ASSUME Q!QuestionAssumption, Q!TypeOK, HandsOk, AskedOk, Q!Next
    PROVE  AskedOk'
<1> SUFFICES ASSUME OpenPlaces > 0 PROVE AskedOk'
  BY DEF AskedOk
<1>1. ASSUME NEW p \in Workers, NEW q \in Questions, Q!Ask(p, q)
      PROVE  AskedOk'
  BY <1>1, AskKeepsAsked
\* A question that is held is not open ...
<1>11. ASSUME NEW p \in Workers, Q!AskCommit(p), hand[p].doing = "ask_held"
       PROVE  AskedOk'
  <2>1. hand[p].of \in Questions
    BY <1>11, AtWork
  <2>2. (Q!Open \ unasked)' \subseteq Q!Open \ unasked
    BY <1>11, <2>1 DEF Q!AskCommit, Q!Open, Q!TypeOK
  <2>3. Asking' \subseteq Asking
    BY <1>11 DEF Q!AskCommit, Asking, Q!TypeOK, Q!Idle
  <2> QED BY <2>2, <2>3, AskedLess
\* ... and any other takes the place of the process that asks it.
<1>12. ASSUME NEW p \in Workers, Q!AskCommit(p), hand[p].doing = "ask"
       PROVE  AskedOk'
  <2> DEFINE q == hand[p].of
             U == Q!Open \ unasked
             V == Asking \ {p}
  <2>1. q \in Questions /\ p \in Asking
    BY <1>12, AtWork DEF Q!AskCommit, Asking
  <2>2. (Q!Open \ unasked)' \subseteq U \cup {q}
    BY <1>12 DEF Q!AskCommit, Q!Open, Q!TypeOK
  <2>3. Asking' \subseteq V
    BY <1>12 DEF Q!AskCommit, Asking, Q!TypeOK, Q!Idle
  <2>4. U \subseteq Questions /\ Asking \subseteq Workers
    BY DEF Q!Open, Asking
  <2>5. IsFiniteSet(U) /\ IsFiniteSet(Asking)
    BY <2>4, Finite, FS_Subset
  <2>6. /\ Cardinality(U \cup {q}) \in Nat /\ Cardinality(U) \in Nat
        /\ Cardinality(U \cup {q}) <= Cardinality(U) + 1
    <3> HIDE DEF U, q
    <3>1. Cardinality(U) \in Nat
      BY <2>5, FS_CardinalityType
    <3>2. Cardinality(U \cup {q}) = IF q \in U THEN Cardinality(U) ELSE Cardinality(U) + 1
      BY <2>5, FS_AddElement
    <3> QED BY <3>1, <3>2
  <2>7. Cardinality(Asking) \in Nat /\ Cardinality(V) = Cardinality(Asking) - 1
    BY <2>1, <2>5, FS_RemoveElement, FS_CardinalityType
  <2>8. /\ Cardinality((Q!Open \ unasked)') \in Nat /\ Cardinality(Asking') \in Nat
        /\ Cardinality((Q!Open \ unasked)') <= Cardinality(U \cup {q})
        /\ Cardinality(Asking') <= Cardinality(V)
    <3>1. U \cup {q} \subseteq Questions /\ V \subseteq Workers
      BY <2>1, <2>4
    <3> HIDE DEF U, V, q
    <3> QED BY <2>2, <2>3, <3>1, AskedShrinks
  <2>9. Cardinality(U) + Cardinality(Asking) <= OpenPlaces + Cardinality(Workers) - 1
    BY DEF AskedOk
  <2>10. OpenPlaces \in Nat /\ Cardinality(Workers) \in Nat
    BY Finite, FS_CardinalityType DEF Q!QuestionAssumption
  <2>11. Cardinality((Q!Open \ unasked)') + Cardinality(Asking')
           <= OpenPlaces + Cardinality(Workers) - 1
    <3> HIDE DEF U, V, q
    <3> QED BY <2>6, <2>7, <2>8, <2>9, <2>10
  <2> QED BY <2>11 DEF AskedOk
<1>2. ASSUME NEW p \in Workers, Q!AskCommit(p)
      PROVE  AskedOk'
  BY <1>2, <1>11, <1>12 DEF Q!AskCommit
<1>3. ASSUME NEW p \in Workers, NEW q \in Questions, NEW d \in {"answer", "follow_up", "resolve"},
             Q!Read(p, q, d)
      PROVE  AskedOk'
  <2>1. (Q!Open \ unasked)' \subseteq Q!Open \ unasked
    BY <1>3 DEF Q!Read, Q!Open
  <2>2. Asking' \subseteq Asking
    BY <1>3 DEF Q!Read, Asking, Q!TypeOK
  <2> QED BY <2>1, <2>2, AskedLess
<1>4. ASSUME NEW p \in Workers, NEW v, Q!Say(p, v)
      PROVE  AskedOk'
  <2>1. (Q!Open \ unasked)' \subseteq Q!Open \ unasked
    BY <1>4 DEF Q!Say, Q!Open
  <2>2. Asking' \subseteq Asking
    BY <1>4 DEF Q!Say, Asking, Q!TypeOK, Q!Process
  <2> QED BY <2>1, <2>2, AskedLess
<1>5. ASSUME NEW p \in Workers, NEW s \in Q!Statuses, Q!Save(p, s)
      PROVE  AskedOk'
  <2>1. (Q!Open \ unasked)' \subseteq Q!Open \ unasked
    BY <1>5 DEF Q!Save, Q!Open, Q!TypeOK
  <2>2. Asking' \subseteq Asking
    BY <1>5 DEF Q!Save, Asking, Q!TypeOK, Q!Idle
  <2> QED BY <2>1, <2>2, AskedLess
<1>6. ASSUME NEW q \in Questions, Q!Close(q) \/ Q!Reopen(q) \/ Q!Release(q)
      PROVE  AskedOk'
  <2>1. (Q!Open \ unasked)' \subseteq Q!Open \ unasked
    BY <1>6 DEF Q!Close, Q!Reopen, Q!Release, Q!Open, Q!TypeOK
  <2>2. Asking' \subseteq Asking
    BY <1>6 DEF Q!Close, Q!Reopen, Q!Release, Asking
  <2> QED BY <2>1, <2>2, AskedLess
<1>10. CASE Q!Prove
  <2>1. (Q!Open \ unasked)' \subseteq Q!Open \ unasked /\ Asking' \subseteq Asking
    BY <1>10 DEF Q!Prove, Q!Open, Asking
  <2> QED BY <2>1, AskedLess
<1>7. ASSUME NEW p \in Workers, NEW q \in Questions,
             Q!AnswerRead(p, q) \/ Q!FollowUpRead(p, q) \/ Q!ResolveRead(p, q)
      PROVE  AskedOk'
  BY <1>7, <1>3 DEF Q!AnswerRead, Q!FollowUpRead, Q!ResolveRead
<1>8. ASSUME NEW p \in Workers, Q!AnswerSay(p) \/ Q!FollowUpSay(p)
      PROVE  AskedOk'
  BY <1>8, <1>4 DEF Q!AnswerSay, Q!FollowUpSay
<1>9. ASSUME NEW p \in Workers, Q!AnswerSave(p) \/ Q!FollowUpSave(p) \/ Q!ResolveSave(p)
      PROVE  AskedOk'
  BY <1>9, <1>5 DEF Q!AnswerSave, Q!FollowUpSave, Q!ResolveSave, Q!Statuses
<1> QED BY <1>1, <1>2, <1>6, <1>7, <1>8, <1>9, <1>10 DEF Q!Next

-----------------------------------------------------------------------------
(* Questions: the state follows the conversation *)

ThreadsOk == \A q \in Questions : ThreadOk(q)

\* Nothing of question q moved: neither its row nor a message to be saved.
LEMMA ThreadRests ==
    ASSUME NEW q \in Questions, ThreadOk(q),
           item'[q] = item[q], thread'[q] = thread[q], raced' = raced,
           \A p \in Workers : \/ hand'[p] = hand[p]
                              \/ p \notin ToSave(q) /\ p \notin ToSave(q)'
    PROVE  ThreadOk(q)'
<1>1. ToSave(q)' = ToSave(q)
  BY DEF ToSave
<1>2. \A p \in ToSave(q) : hand'[p] = hand[p]
  BY DEF ToSave
<1>3. \A p \in ToSave(q) : Voice(p)' = Voice(p)
  BY <1>2 DEF Voice
<1>4. Follows(q) => Follows(q)'
  BY DEF Follows
<1>5. Last(thread[q])' = Last(thread[q])
  OBVIOUS
<1> QED BY <1>1, <1>3, <1>4, <1>5 DEF ThreadOk

\* A message goes in: it is its process's to save.
LEMMA ThreadSay ==
    ASSUME Q!TypeOK, HandsOk, ThreadsOk, NEW p \in Workers, NEW v, Q!Say(p, v),
           \/ hand[p].doing = "answer" /\ v = "client"
           \/ hand[p].doing = "follow_up" /\ v = "sender"
    PROVE  ThreadsOk'
<1>1. hand[p].of \in Questions /\ hand[p] \in Q!Process /\ v \in {"client", "sender"}
  BY AtWork
<1> SUFFICES ASSUME NEW q \in Questions PROVE ThreadOk(q)'
  BY DEF ThreadsOk
<1>2. \A r \in Workers : r # p => hand'[r] = hand[r]
  BY DEF Q!Say, Q!TypeOK
<1>3. /\ hand'[p].of = hand[p].of /\ hand'[p].said = TRUE /\ hand'[p].doing = hand[p].doing
      /\ raced' = raced /\ item' = item
  BY <1>1 DEF Q!Say, Q!TypeOK, Q!Process
<1>4. CASE q = hand[p].of
  <2>1. p \in ToSave(q)'
    BY <1>3, <1>4 DEF ToSave
  <2>2. thread'[q] = Append(thread[q], v) /\ thread[q] \in Seq({"client", "sender"})
    BY <1>1, <1>4 DEF Q!Say, Q!TypeOK
  <2>3. Last(thread'[q]) = v
    BY <1>1, <2>2, AppendLast
  <2>4. Voice(p)' = v
    BY <1>3 DEF Voice
  <2> QED BY <2>1, <2>3, <2>4 DEF ThreadOk
<1>5. CASE q # hand[p].of
  <2>1. thread'[q] = thread[q]
    BY <1>5 DEF Q!Say, Q!TypeOK
  <2>2. p \notin ToSave(q) /\ p \notin ToSave(q)'
    BY <1>3, <1>5 DEF ToSave
  <2> QED BY <1>2, <1>3, <2>1, <2>2, ThreadRests DEF ThreadsOk
<1> QED BY <1>4, <1>5

\* A save, alone at it, over the state it read: what it wrote is last.
LEMMA ThreadSave ==
    ASSUME Q!QuestionAssumption, Q!TypeOK, HandsOk, ThreadsOk,
           NEW p \in Workers, NEW s \in Q!Statuses, Q!Save(p, s),
           \/ hand[p].doing = "answer" /\ hand[p].said /\ s = "dostarczony"
           \/ hand[p].doing = "follow_up" /\ hand[p].said /\ s = "odrzucony"
           \/ hand[p].doing = "resolve" /\ s = "zaakceptowany"
    PROVE  ThreadsOk'
<1>1. hand[p].of \in Questions /\ hand[p] \in Q!Process
  BY AtWork
<1> SUFFICES ASSUME NEW q \in Questions PROVE ThreadOk(q)'
  BY DEF ThreadsOk
<1>2. \A r \in Workers : r # p => hand'[r] = hand[r]
  BY DEF Q!Save, Q!TypeOK
<1>3. hand'[p] = Q!Idle /\ p \notin ToSave(q)' /\ thread' = thread
  <2>1. hand'[p] = Q!Idle /\ thread' = thread
    BY DEF Q!Save, Q!TypeOK
  <2> QED BY <2>1 DEF ToSave, Q!Idle, Q!QuestionAssumption
<1>4. CASE q # hand[p].of
  <2>1. item'[q] = item[q] /\ (q \in raced' <=> q \in raced)
    BY <1>4 DEF Q!Save, Q!TypeOK
  <2>2. p \notin ToSave(q)
    BY <1>4 DEF ToSave
  <2>3. ToSave(q)' = ToSave(q) /\ \A r \in ToSave(q) : Voice(r)' = Voice(r)
    BY <1>2, <1>3, <2>2 DEF ToSave, Voice
  <2> QED BY <1>3, <2>1, <2>3 DEF ThreadsOk, ThreadOk, Follows
<1>5. CASE q = hand[p].of /\ q \notin raced'
  <2>1. q \notin raced /\ Q!Others(p) = {}
    BY <1>5 DEF Q!Save
  <2>2. ToSave(q) \subseteq {p}
    BY <1>5, <2>1 DEF ToSave, Q!Others
  <2>3. ToSave(q)' = {}
    BY <1>2, <1>3, <2>2 DEF ToSave
  <2>4. item'[q] = s
    BY <1>1, <1>5 DEF Q!Save, Q!TypeOK
  <2>5. CASE hand[p].doing = "answer"
    <3>1. Last(thread[q]) = "client"
      BY <1>5, <2>1, <2>2, <2>5 DEF ThreadsOk, ThreadOk, ToSave, Voice
    <3> QED BY <1>3, <2>3, <2>4, <2>5, <3>1 DEF ThreadOk, Follows, Q!Waiting
  <2>6. CASE hand[p].doing = "follow_up"
    <3>1. Last(thread[q]) = "sender"
      BY <1>5, <2>1, <2>2, <2>6 DEF ThreadsOk, ThreadOk, ToSave, Voice
    <3> QED BY <1>3, <2>3, <2>4, <2>6, <3>1 DEF ThreadOk, Follows, Q!Waiting
  <2>7. CASE hand[p].doing = "resolve"
    BY <2>3, <2>4, <2>7 DEF ThreadOk, Follows, Q!Waiting
  <2> QED BY <2>5, <2>6, <2>7
<1>6. CASE q \in raced'
  BY <1>6 DEF ThreadOk
<1> QED BY <1>4, <1>5, <1>6

LEMMA ThreadStep ==
    ASSUME Q!QuestionAssumption, Q!TypeOK, HandsOk, ThreadsOk, Q!Next
    PROVE  ThreadsOk'
<1>1. ASSUME NEW p \in Workers, NEW q \in Questions, Q!Ask(p, q)
      PROVE  ThreadsOk'
  <2>1. /\ item' = item /\ thread' = thread /\ raced' = raced
        /\ \A r \in Workers : r # p => hand'[r] = hand[r]
    BY <1>1 DEF Q!Ask, Q!TypeOK
  <2>2. hand[p].said = FALSE /\ hand'[p].said = FALSE
    BY <1>1 DEF Q!Ask, Q!TypeOK, Q!Process, Q!Idle
  <2>3. \A x \in Questions : p \notin ToSave(x) /\ p \notin ToSave(x)'
    BY <2>2 DEF ToSave
  <2> QED BY <2>1, <2>3, ThreadRests DEF ThreadsOk
<1>2. ASSUME NEW p \in Workers, Q!AskCommit(p)
      PROVE  ThreadsOk'
  <2>0. PICK q \in Questions : q = hand[p].of
    BY <1>2, AtWork DEF Q!AskCommit
  <2>1. hand[p] \in Q!Process /\ item[q] = "none" /\ ~hand[p].said
    BY <1>2, <2>0, AtWork DEF Q!AskCommit, HandsOk, AskingOk
  <2>2. /\ raced' = raced /\ hand'[p] = Q!Idle
        /\ \A r \in Workers : r # p => hand'[r] = hand[r]
        /\ \A x \in Questions : x # q => item'[x] = item[x] /\ thread'[x] = thread[x]
        /\ item'[q] = "brak" /\ thread'[q] = <<"sender">>
    BY <1>2, <2>0, <2>1 DEF Q!AskCommit, Q!TypeOK
  <2>3. \A x \in Questions : p \notin ToSave(x) /\ p \notin ToSave(x)'
    BY <2>1, <2>2 DEF ToSave, Q!Idle
  <2>4. ToSave(q) = {}
    BY <2>1 DEF HandsOk, AskingOk, ToSave
  <2>5. ToSave(q)' = {}
    BY <2>2, <2>3, <2>4 DEF ToSave
  <2>6. Last(thread'[q]) = "sender"
    BY <2>2 DEF Last
  <2>7. ThreadOk(q)'
    BY <2>2, <2>5, <2>6 DEF ThreadOk, Follows
  <2>8. ASSUME NEW x \in Questions, x # q
        PROVE  ThreadOk(x)'
    BY <2>2, <2>3, <2>8, ThreadRests DEF ThreadsOk
  <2> QED BY <2>7, <2>8 DEF ThreadsOk
<1>3. ASSUME NEW p \in Workers, NEW q \in Questions, NEW d \in {"answer", "follow_up", "resolve"},
             Q!Read(p, q, d)
      PROVE  ThreadsOk'
  <2>1. /\ item' = item /\ thread' = thread /\ raced' = raced
        /\ \A r \in Workers : r # p => hand'[r] = hand[r]
    BY <1>3 DEF Q!Read, Q!TypeOK
  <2>2. hand[p].said = FALSE /\ hand'[p].said = FALSE
    BY <1>3 DEF Q!Read, Q!TypeOK, Q!Process, Q!Idle
  <2>3. \A x \in Questions : p \notin ToSave(x) /\ p \notin ToSave(x)'
    BY <2>2 DEF ToSave
  <2> QED BY <2>1, <2>3, ThreadRests DEF ThreadsOk
<1>4. ASSUME NEW q \in Questions, Q!Close(q) \/ Q!Reopen(q) \/ Q!Release(q)
      PROVE  ThreadsOk'
  BY <1>4, ThreadRests DEF Q!Close, Q!Reopen, Q!Release, ThreadsOk
<1>8. CASE Q!Prove
  BY <1>8, ThreadRests DEF Q!Prove, ThreadsOk
<1>5. ASSUME NEW p \in Workers, NEW q \in Questions,
             Q!AnswerRead(p, q) \/ Q!FollowUpRead(p, q) \/ Q!ResolveRead(p, q)
      PROVE  ThreadsOk'
  BY <1>5, <1>3 DEF Q!AnswerRead, Q!FollowUpRead, Q!ResolveRead
<1>6. ASSUME NEW p \in Workers, Q!AnswerSay(p) \/ Q!FollowUpSay(p)
      PROVE  ThreadsOk'
  BY <1>6, ThreadSay DEF Q!AnswerSay, Q!FollowUpSay
<1>7. ASSUME NEW p \in Workers, Q!AnswerSave(p) \/ Q!FollowUpSave(p) \/ Q!ResolveSave(p)
      PROVE  ThreadsOk'
  BY <1>7, ThreadSave DEF Q!AnswerSave, Q!FollowUpSave, Q!ResolveSave, Q!Statuses
<1> QED BY <1>1, <1>2, <1>4, <1>5, <1>6, <1>7, <1>8 DEF Q!Next

LEMMA QuestionInit ==
    ASSUME Q!QuestionAssumption, Q!Init
    PROVE  QuestionInv
<1>1. Q!TypeOK
  BY DEF Q!Init, Q!TypeOK, Q!Process, Q!Idle, Q!Statuses
<1>2. HandsOk
  BY DEF Q!Init, HandsOk, AskingOk, Q!Idle, Q!QuestionAssumption
<1>3. ThreadsOk
  BY DEF Q!Init, ThreadsOk, ThreadOk, ToSave, Follows, Q!Idle, Q!Waiting
<1>4. AskedOk
  <2>1. Q!Open \ unasked = {} /\ Asking = {}
    BY DEF Q!Init, Q!Open, Q!Waiting, Asking, Q!Idle
  <2>2. Cardinality({}) = 0
    BY FS_EmptySet
  <2>3. OpenPlaces \in Nat /\ Cardinality(Workers) \in Nat
    BY Finite, FS_CardinalityType DEF Q!QuestionAssumption
  <2>4. OpenPlaces > 0 => 0 + 0 <= OpenPlaces + Cardinality(Workers) - 1
    BY <2>3
  <2> QED BY <2>1, <2>2, <2>4 DEF AskedOk
<1> QED BY <1>1, <1>2, <1>3, <1>4 DEF QuestionInv, HandsOk, ThreadsOk

LEMMA QuestionStep ==
    ASSUME Q!QuestionAssumption, QuestionInv, [Q!Next]_questionVars
    PROVE  QuestionInv'
<1>1. Q!TypeOK /\ HandsOk /\ AskedOk /\ ThreadsOk
  BY DEF QuestionInv, HandsOk, ThreadsOk
<1>2. CASE Q!Next
  <2>1. Q!TypeOK' /\ HandsOk' /\ AskedOk' /\ ThreadsOk'
    BY <1>1, <1>2, QuestionTypeStep, HandsStep, AskedStep, ThreadStep
  <2> QED BY <2>1 DEF QuestionInv, HandsOk, ThreadsOk
<1>3. CASE UNCHANGED questionVars
  BY <1>3 DEF questionVars, QuestionInv, Q!TypeOK, AskedOk, Asking, Q!Open, AskingOk, ThreadOk,
              ToSave, Follows, Voice
<1> QED BY <1>2, <1>3

LEMMA QuestionsMean ==
    ASSUME Q!QuestionAssumption, QuestionInv
    PROVE  AskedWithinPlaces /\ StateFollowsThread
<1>1. AskedWithinPlaces
  <2> SUFFICES ASSUME OpenPlaces > 0
               PROVE  Cardinality(Q!Open \ unasked) <= OpenPlaces + Cardinality(Workers) - 1
    BY SameSets DEF AskedWithinPlaces, Q!AskedWithinPlaces
  <2>1. Q!Open \ unasked \subseteq Questions /\ Asking \subseteq Workers
    BY DEF Q!Open, Asking
  <2>2. /\ Cardinality(Q!Open \ unasked) \in Nat /\ Cardinality(Asking) \in Nat
        /\ Cardinality(Workers) \in Nat
    BY <2>1, Finite, FS_Subset, FS_CardinalityType
  <2>3. Cardinality(Q!Open \ unasked) + Cardinality(Asking)
            <= OpenPlaces + Cardinality(Workers) - 1
    BY DEF QuestionInv, AskedOk
  <2> QED BY <2>2, <2>3 DEF Q!QuestionAssumption
<1>2. StateFollowsThread
  <2> SUFFICES ASSUME NEW q \in Questions, q \notin raced, \A p \in Workers : hand[p].of # q
               PROVE  Follows(q)
    BY DEF StateFollowsThread, Q!StateFollowsThread, Follows, Last
  <2> QED BY DEF QuestionInv, ThreadOk, ToSave
<1> QED BY <1>1, <1>2

(* The questions opened by asking are at most one too many for each other  *)
(* process that counted at the same time, however many questions, places   *)
(* and processes there are (billing/services.py: check_question_allowed).  *)
(* Those held and released, reopened or followed up come on top: nobody    *)
(* counts them.                                                            *)
THEOREM PlacesForQuestions ==
    ASSUME Q!QuestionAssumption PROVE PartSpec => []AskedWithinPlaces
<1>1. PartInit => QuestionInv
  BY QuestionInit DEF PartInit
<1>2. QuestionInv /\ [PartNext]_<<part, vars, questionVars, pageVars>> => QuestionInv'
  BY QuestionStep DEF PartNext
<1>3. QuestionInv => AskedWithinPlaces
  BY QuestionsMean
<1> QED BY <1>1, <1>2, <1>3, PTL DEF PartSpec

(* A question is in the state its conversation ended with, unless two      *)
(* wrote at once (apps/requests/questions.py: answer, follow_up, resolve). *)
THEOREM QuestionState ==
    ASSUME Q!QuestionAssumption PROVE PartSpec => []StateFollowsThread
<1>1. PartInit => QuestionInv
  BY QuestionInit DEF PartInit
<1>2. QuestionInv /\ [PartNext]_<<part, vars, questionVars, pageVars>> => QuestionInv'
  BY QuestionStep DEF PartNext
<1>3. QuestionInv => StateFollowsThread
  BY QuestionsMean
<1> QED BY <1>1, <1>2, <1>3, PTL DEF PartSpec

-----------------------------------------------------------------------------
(* The public pages *)

LEMMA PagesInit ==
    ASSUME G!RecipientAssumption, G!Init
    PROVE  PagesInv
BY DEF G!Init, PagesInv, Session, Page, G!Fresh, G!NoPage, SessionOk, PageOk,
       G!RecipientAssumption

\* What is known of a browser whose page is being answered.
LEMMA Answering ==
    ASSUME PagesInv, NEW b \in Readers, page[b].doing # "none"
    PROVE  /\ page[b].address \in sentTo /\ page[b].address \in Addresses
           /\ page[b] # G!NoPage /\ session[b] \in Session /\ SessionOk(b)
BY DEF PagesInv, PageOk, G!NoPage

\* Who is_verified_recipient accepts for an address reads its mailbox.
LEMMA VerifiedReads ==
    ASSUME G!RecipientAssumption, NEW b \in Readers, SessionOk(b), NEW a \in Addresses,
           G!IsVerified(b, a)
    PROVE  a \in Reads[b]
BY DEF SessionOk, G!IsVerified, G!RecipientAssumption

\* A step that changes one browser's session and page, and the request not.
LEMMA OneBrowser ==
    ASSUME PagesInv, NEW b \in Readers,
           UNCHANGED <<locked, address, sentTo>>, knew \subseteq knew',
           file' \in [Files -> Readers \cup {NoFile, Nobody}],
           shown' \in [Readers -> SUBSET Files],
           NEW s \in Session, session' = [session EXCEPT ![b] = s],
           NEW g \in Page, page' = [page EXCEPT ![b] = g],
           SessionOk(b)', PageOk(b)'
    PROVE  PagesInv'
<1>1. session' \in [Readers -> Session] /\ page' \in [Readers -> Page]
  BY DEF PagesInv
<1>2. ASSUME NEW c \in Readers, c # b
      PROVE  SessionOk(c)' /\ PageOk(c)'
  <2>1. session'[c] = session[c] /\ page'[c] = page[c] /\ SessionOk(c) /\ PageOk(c)
    BY <1>2 DEF PagesInv
  <2> QED BY <2>1 DEF SessionOk, PageOk, Addressee
<1>3. address' \in sentTo' /\ sentTo' \subseteq Addresses
  BY DEF PagesInv
<1> QED BY <1>1, <1>2, <1>3 DEF PagesInv

LEMMA PagesStep ==
    ASSUME G!RecipientAssumption, PagesInv, G!Next
    PROVE  PagesInv'
<1> USE DEF G!requestVars, G!history
<1>0. G!NoPage \in Page /\ G!Fresh \in Session
  BY DEF G!NoPage, G!Fresh, Page, Session
<1>1. CASE G!Confirmed \/ \E a \in Addresses : G!EditClient(a) \/ G!Expire(a)
  BY <1>1 DEF G!Confirmed, G!EditClient, G!Expire, PagesInv, SessionOk, PageOk, Addressee
<1>2. ASSUME NEW b \in Readers, NEW a \in Addresses, G!SignIn(b, a)
      PROVE  PagesInv'
  <2> DEFINE s == IF session[b].user = NoAddress THEN session[b] ELSE G!Fresh
             t == [s EXCEPT !.user = a]
  <2>1. session[b] \in Session /\ SessionOk(b) /\ session \in [Readers -> Session]
    BY DEF PagesInv
  <2>2. t \in Session /\ t.user = a /\ t.granted = s.granted /\ t.verified = s.verified
    BY <1>0, <2>1 DEF Session
  <2>3. session' = [session EXCEPT ![b] = t] /\ page' = page
    BY <1>2 DEF G!SignIn
  <2>4. SessionOk(b)'
    <3>1. session'[b] = t /\ UNCHANGED <<locked, sentTo, knew>>
      BY <1>2, <2>1, <2>3 DEF G!SignIn
    <3>2. a \in Reads[b]
      BY <1>2 DEF G!SignIn
    <3> QED BY <2>1, <2>2, <3>1, <3>2 DEF SessionOk, Addressee, G!Fresh
  <2>5. page' = [page EXCEPT ![b] = page[b]] /\ page[b] \in Page
    BY <2>3 DEF PagesInv
  <2>6. PageOk(b)'
    BY <1>2 DEF G!SignIn, PagesInv, PageOk
  <2>7. file' \in [Files -> Readers \cup {NoFile, Nobody}]
    BY <1>2 DEF G!SignIn, G!NewKey, PagesInv
  <2>8. shown' \in [Readers -> SUBSET Files] /\ UNCHANGED <<locked, address, sentTo, knew>>
    BY <1>2 DEF G!SignIn, PagesInv
  <2> HIDE DEF s, t
  <2> QED BY <2>2, <2>3, <2>4, <2>5, <2>6, <2>7, <2>8, OneBrowser
<1>3. ASSUME NEW b \in Readers, G!SignOut(b)
      PROVE  PagesInv'
  <2>1. session' = [session EXCEPT ![b] = G!Fresh] /\ page' = [page EXCEPT ![b] = page[b]]
    BY <1>3 DEF G!SignOut, PagesInv
  <2>2. page[b] \in Page /\ session \in [Readers -> Session] /\ PageOk(b)
    BY DEF PagesInv
  <2>3. SessionOk(b)'
    BY <2>1, <2>2 DEF SessionOk, G!Fresh
  <2>4. PageOk(b)'
    BY <1>3, <2>2 DEF G!SignOut, PageOk
  <2>5. file' \in [Files -> Readers \cup {NoFile, Nobody}]
    BY <1>3 DEF G!SignOut, G!NewKey, PagesInv
  <2>6. shown' \in [Readers -> SUBSET Files] /\ UNCHANGED <<locked, address, sentTo, knew>>
    BY <1>3 DEF G!SignOut, PagesInv
  <2> QED BY <1>0, <2>1, <2>2, <2>3, <2>4, <2>5, <2>6, OneBrowser
<1>4. ASSUME NEW b \in Readers, NEW d \in {"detail", "send", "link", "confirm"},
             G!GetByToken(b, d)
      PROVE  PagesInv'
  <2> DEFINE g == [doing |-> d, address |-> address]
  <2>1. session' = [session EXCEPT ![b] = session[b]] /\ page' = [page EXCEPT ![b] = g]
    BY <1>4 DEF G!GetByToken, PagesInv
  <2>2. session[b] \in Session /\ SessionOk(b) /\ page \in [Readers -> Page] /\ g \in Page
    BY DEF PagesInv, Page
  <2>3. SessionOk(b)'
    BY <1>4, <2>2 DEF G!GetByToken, SessionOk, Addressee
  <2>4. PageOk(b)'
    BY <1>4, <2>1, <2>2 DEF G!GetByToken, PageOk, PagesInv
  <2>5. file' \in [Files -> Readers \cup {NoFile, Nobody}] /\ shown' \in [Readers -> SUBSET Files]
    BY <1>4 DEF G!GetByToken, PagesInv
  <2>6. UNCHANGED <<locked, address, sentTo, knew>>
    BY <1>4 DEF G!GetByToken
  <2> HIDE DEF g
  <2> QED BY <2>1, <2>2, <2>3, <2>4, <2>5, <2>6, OneBrowser
\* A page is answered, and the session may have been granted or verified.
<1>5. ASSUME NEW b \in Readers, G!Done(b), page[b].doing # "none",
             UNCHANGED <<locked, address, sentTo>>, knew \subseteq knew',
             file' \in [Files -> Readers \cup {NoFile, Nobody}],
             shown' \in [Readers -> SUBSET Files],
             NEW s \in Session, session' = [session EXCEPT ![b] = s],
             s.user = session[b].user, s.verified \subseteq Reads[b],
             s.granted /\ locked => session[b].granted \/ b \in knew' \/ Addressee(b)
      PROVE  PagesInv'
  <2>1. SessionOk(b) /\ session \in [Readers -> Session] /\ page \in [Readers -> Page]
    BY DEF PagesInv
  <2>2. SessionOk(b)'
    BY <1>5, <2>1 DEF SessionOk, Addressee
  <2>3. page' = [page EXCEPT ![b] = G!NoPage] /\ PageOk(b)'
    BY <1>5, <2>1 DEF G!Done, PageOk, G!NoPage
  <2> QED BY <1>0, <1>5, <2>2, <2>3, OneBrowser
<1>6. ASSUME NEW b \in Readers PROVE [session[b] EXCEPT !.granted = TRUE] \in Session
  BY DEF PagesInv, Session
<1>7. ASSUME NEW b \in Readers, G!ShowRequest(b)
      PROVE  PagesInv'
  <2>1. page[b].doing # "none" /\ session[b] \in Session /\ SessionOk(b)
    BY <1>7 DEF G!ShowRequest, PagesInv
  <2>2. locked => session[b].granted \/ Addressee(b)
    BY <1>7, <2>1, Answering, VerifiedReads DEF G!ShowRequest, G!HasAccess, Addressee
  <2>3. session' = [session EXCEPT ![b] = [session[b] EXCEPT !.granted = TRUE]]
    BY <1>7 DEF G!ShowRequest, G!Granted
  <2>4. shown' \in [Readers -> SUBSET Files]
    BY <1>7 DEF G!ShowRequest, G!Given, G!Stored, G!Mine, PagesInv
  <2>5. /\ UNCHANGED <<locked, address, sentTo, knew>> /\ G!Done(b)
        /\ file' \in [Files -> Readers \cup {NoFile, Nobody}]
    BY <1>7 DEF G!ShowRequest, PagesInv
  <2>6. /\ [session[b] EXCEPT !.granted = TRUE].user = session[b].user
        /\ [session[b] EXCEPT !.granted = TRUE].verified \subseteq Reads[b]
    BY <2>1 DEF Session, SessionOk
  <2> QED BY <1>5, <1>6, <2>1, <2>2, <2>3, <2>4, <2>5, <2>6
<1>8. ASSUME NEW b \in Readers, G!PasswordGate(b)
      PROVE  PagesInv'
  <2>1. page[b].doing # "none" /\ session[b] \in Session /\ SessionOk(b)
    BY <1>8 DEF G!PasswordGate, PagesInv
  <2>2. /\ UNCHANGED <<locked, address, sentTo>> /\ G!Done(b) /\ knew \subseteq knew'
        /\ file' \in [Files -> Readers \cup {NoFile, Nobody}]
        /\ shown' \in [Readers -> SUBSET Files]
    BY <1>8 DEF G!PasswordGate, PagesInv
  <2>3. CASE G!Granted(b) /\ knew' = knew \cup {b}
    <3>1. session' = [session EXCEPT ![b] = [session[b] EXCEPT !.granted = TRUE]]
      BY <2>3 DEF G!Granted
    <3>2. /\ [session[b] EXCEPT !.granted = TRUE].user = session[b].user
          /\ [session[b] EXCEPT !.granted = TRUE].verified \subseteq Reads[b]
      BY <2>1 DEF Session, SessionOk
    <3> QED BY <1>5, <1>6, <2>1, <2>2, <2>3, <3>1, <3>2
  <2>4. CASE UNCHANGED <<session, knew>>
    <3>1. session' = [session EXCEPT ![b] = session[b]] /\ session[b].verified \subseteq Reads[b]
      BY <2>1, <2>4 DEF PagesInv, SessionOk
    <3> QED BY <1>5, <2>1, <2>2, <3>1
  <2> QED BY <1>8, <2>3, <2>4 DEF G!PasswordGate
<1>9. ASSUME NEW b \in Readers,
             \/ G!SendNothing(b)
             \/ G!SendLink(b)
             \/ G!SendLinkRefused(b)
             \/ G!ConfirmRefused(b)
             \/ \E f \in Files : G!Upload(b, f)
      PROVE  PagesInv'
  <2>1. page[b].doing # "none" /\ session[b] \in Session /\ SessionOk(b)
    BY <1>9 DEF G!SendNothing, G!SendLink, G!SendLinkRefused, G!ConfirmRefused, G!Upload, PagesInv
  <2>2. /\ UNCHANGED <<locked, address, sentTo, knew, session>> /\ G!Done(b)
        /\ file' \in [Files -> Readers \cup {NoFile, Nobody}]
        /\ shown' \in [Readers -> SUBSET Files]
    BY <1>9 DEF G!SendNothing, G!SendLink, G!SendLinkRefused, G!ConfirmRefused, G!Upload, PagesInv,
                G!Given
  <2>3. session' = [session EXCEPT ![b] = session[b]] /\ session[b].verified \subseteq Reads[b]
    BY <2>1, <2>2 DEF PagesInv, SessionOk
  <2> QED BY <1>5, <2>1, <2>2, <2>3
<1>10. ASSUME NEW b \in Readers, G!ConfirmLink(b)
       PROVE  PagesInv'
  <2> DEFINE s == [session[b] EXCEPT !.granted = TRUE, !.verified = @ \cup {page[b].address}]
  <2>1. page[b].doing # "none" /\ session[b] \in Session /\ SessionOk(b)
    BY <1>10 DEF G!ConfirmLink, PagesInv
  <2>2. page[b].address \in Reads[b] /\ page[b].address \in Addresses /\ Addressee(b)
    BY <1>10, <2>1, Answering DEF G!ConfirmLink, G!LinkWorks, Addressee
  <2>3. /\ UNCHANGED <<locked, address, sentTo, knew>> /\ G!Done(b)
        /\ file' \in [Files -> Readers \cup {NoFile, Nobody}]
        /\ shown' \in [Readers -> SUBSET Files]
        /\ session' = [session EXCEPT ![b] = s]
    BY <1>10 DEF G!ConfirmLink, PagesInv
  <2>4. /\ s \in Session /\ s.user = session[b].user
        /\ s.verified = session[b].verified \cup {page[b].address}
    BY <2>1, <2>2 DEF Session
  <2>5. s.verified \subseteq Reads[b]
    BY <2>1, <2>2, <2>4 DEF SessionOk
  <2> HIDE DEF s
  <2> QED BY <1>5, <2>1, <2>2, <2>3, <2>4, <2>5
<1>11. ASSUME NEW b \in Readers, NEW f \in Files, G!Delete(b, f) \/ G!Download(b, f)
       PROVE  PagesInv'
  <2>1. /\ file' \in [Files -> Readers \cup {NoFile, Nobody}]
        /\ shown' \in [Readers -> SUBSET Files]
        /\ UNCHANGED <<locked, address, sentTo, session, page, knew>>
    BY <1>11 DEF G!Delete, G!Download, G!Given, PagesInv
  <2> QED BY <2>1 DEF PagesInv, SessionOk, PageOk, Addressee
<1> QED BY <1>1, <1>2, <1>3, <1>4, <1>7, <1>8, <1>9, <1>10, <1>11 DEF G!Next

\* Only three actions show a file.
LEMMA WhoShows ==
    ASSUME PagesInv, G!Next, NEW b \in Readers, NEW f \in shown'[b] \ shown[b]
    PROVE  \/ G!ShowRequest(b)
           \/ f \in Files /\ (G!Upload(b, f) \/ G!Download(b, f))
<1> USE DEF G!history, PagesInv
<1>1. CASE G!Confirmed \/ \E a \in Addresses : G!EditClient(a) \/ G!Expire(a)
  BY <1>1 DEF G!Confirmed, G!EditClient, G!Expire
<1>2. ASSUME NEW c \in Readers,
             \/ \E a \in Addresses : G!SignIn(c, a)
             \/ G!SignOut(c)
             \/ \E d \in {"detail", "send", "link", "confirm"} : G!GetByToken(c, d)
             \/ G!PasswordGate(c) \/ G!SendNothing(c) \/ G!SendLink(c)
             \/ G!SendLinkRefused(c) \/ G!ConfirmLink(c) \/ G!ConfirmRefused(c)
      PROVE  FALSE
  BY <1>2 DEF G!SignIn, G!SignOut, G!GetByToken, G!PasswordGate, G!SendNothing, G!SendLink,
              G!SendLinkRefused, G!ConfirmLink, G!ConfirmRefused
<1>3. ASSUME NEW c \in Readers, NEW e \in Files, G!Delete(c, e)
      PROVE  FALSE
  BY <1>3 DEF G!Delete
<1>4. ASSUME NEW c \in Readers, G!ShowRequest(c)
      PROVE  G!ShowRequest(b)
  BY <1>4 DEF G!ShowRequest, G!Given
<1>5. ASSUME NEW c \in Readers, NEW e \in Files, G!Upload(c, e) \/ G!Download(c, e)
      PROVE  c = b /\ e = f
  BY <1>5 DEF G!Upload, G!Download, G!Given
<1> QED BY <1>1, <1>2, <1>3, <1>4, <1>5 DEF G!Next

(* A file of another session is given only to somebody who reads the       *)
(* mailbox the request is addressed to, and with a password nothing is     *)
(* given to who neither typed it nor reads a mailbox the request had,      *)
(* however many browsers, mailboxes, links and files there are             *)
(* (public_views.py, recipient_files.py, documents/api.py).                *)
THEOREM FilesOfTheReader ==
    ASSUME G!RecipientAssumption PROVE PartSpec => FilesForTheirReader
<1> DEFINE P == \A b \in Readers : \A f \in shown'[b] \ shown[b] :
                    /\ file'[f] = b \/ G!Asked(b) \in Reads[b]
                    /\ locked => b \in knew \/ Reads[b] \cap sentTo # {}
<1>1. ASSUME PagesInv, G!Next, NEW b \in Readers, NEW f \in shown'[b] \ shown[b]
      PROVE  /\ file'[f] = b \/ G!Asked(b) \in Reads[b]
             /\ locked => b \in knew \/ Addressee(b)
  <2>1. CASE G!ShowRequest(b)
    <3>1. /\ page[b].address \in sentTo /\ page[b].address \in Addresses
          /\ G!Asked(b) = page[b].address /\ SessionOk(b)
      BY <1>1, <2>1, Answering DEF G!ShowRequest, G!Asked
    <3>2. CASE G!IsVerified(b, page[b].address)
      BY <3>1, <3>2, VerifiedReads DEF Addressee
    <3>3. CASE ~G!IsVerified(b, page[b].address)
      <4>1. locked => session[b].granted
        BY <2>1, <3>3 DEF G!ShowRequest, G!HasAccess
      <4>2. f \in G!Mine(b) /\ file' = file
        BY <1>1, <2>1, <3>3 DEF G!ShowRequest, G!Given, PagesInv
      <4> QED BY <3>1, <4>1, <4>2 DEF G!Mine, SessionOk
    <3> QED BY <3>2, <3>3
  <2>2. CASE f \in Files /\ G!Upload(b, f)
    <3>1. file'[f] = b /\ session[b].granted
      BY <1>1, <2>2 DEF G!Upload, G!HasAccess, PagesInv
    <3> QED BY <1>1, <3>1 DEF PagesInv, SessionOk
  <2>3. CASE f \in Files /\ G!Download(b, f)
    <3>1. G!Asked(b) = address /\ address \in sentTo /\ address \in Addresses /\ SessionOk(b)
      BY <1>1, <2>3 DEF G!Download, G!Asked, PagesInv
    <3>2. CASE G!IsVerified(b, address)
      BY <3>1, <3>2, VerifiedReads DEF Addressee
    <3>3. CASE session[b].granted /\ f \in G!Mine(b)
      BY <2>3, <3>1, <3>3 DEF G!Download, G!Mine, SessionOk
    <3> QED BY <2>3, <3>2, <3>3 DEF G!Download, G!HasAccess
  <2> QED BY <1>1, <2>1, <2>2, <2>3, WhoShows
<1>2. PartInit => PagesInv
  BY PagesInit DEF PartInit
<1>3. PagesInv /\ [PartNext]_<<part, vars, questionVars, pageVars>> => PagesInv'
  <2>1. PagesInv /\ UNCHANGED pageVars => PagesInv'
    BY DEF pageVars, PagesInv, SessionOk, PageOk, Addressee
  <2> QED BY <2>1, PagesStep DEF PartNext
<1>4. PagesInv /\ [PartNext]_<<part, vars, questionVars, pageVars>> => [P]_pageVars
  <2>1. PagesInv /\ G!Next => P
    BY <1>1 DEF Addressee
  <2> HIDE DEF P
  <2> QED BY <2>1 DEF PartNext
<1>5. PagesInv /\ [PartNext]_<<part, vars, questionVars, pageVars>> => [P]_G!vars
  <2> HIDE DEF P
  <2> QED BY <1>4 DEF pageVars, G!vars
<1> QED BY <1>2, <1>3, <1>5, PTL DEF PartSpec, FilesForTheirReader, G!FilesForTheirReader
=============================================================================
