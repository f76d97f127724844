----------------------------- MODULE PlanSlots -----------------------------
(***************************************************************************)
(* The places of one account's plan: how many document requests may be in  *)
(* progress at once (apps/billing/services.py: check_request_allowed) and  *)
(* every operation that puts a request in progress or takes it out         *)
(* (apps/requests/services.py, guest.py, deletion.py).                     *)
(*                                                                         *)
(* check_request_allowed locks the account's billing row and counts; the   *)
(* lock is held until the caller's transaction ends.  Whatever else        *)
(* changes a request - an item comes back, the owner edits, closes or      *)
(* deletes it, held requests are released - takes no such lock and happens *)
(* in between.  A worker is a web process or a Celery process; its steps   *)
(* are the fetch, the check under the lock and the commit.                 *)
(***************************************************************************)
EXTENDS Naturals, FiniteSets

CONSTANTS
    Requests,   \* the requests the account may come to have
    Workers,    \* web and Celery workers
    Limits,     \* the plans' limits (Plan.active_requests)
    NoWorker    \* nobody holds the billing row

ASSUME PlanAssumption ==
    /\ IsFiniteSet(Requests)
    /\ Limits \subseteq Nat
    /\ Limits # {}
    /\ NoWorker \notin Workers

VARIABLES
    req,        \* the Request rows
    verified,   \* the owner's address is confirmed (email_verified_at)
    limit,      \* the limit of the plan in force (plan_for)
    lock,       \* who holds the lock on the billing row
    wk,         \* what each worker is doing
    over        \* history: requests in progress that were not counted against
                \* the plan in force when they became so

vars == <<req, verified, limit, lock, wk, over>>

\* "held": awaiting_confirmation without a token; "guest": with one.
Row == [row : {"new", "live", "gone"}, awaiting : {"no", "held", "guest"},
        closed : BOOLEAN, done : BOOLEAN]

\* The operations that go through check_request_allowed.
Checked == {"send", "hold", "guest", "reopen", "confirm"}

NewRow == [row |-> "new", awaiting |-> "no", closed |-> FALSE, done |-> FALSE]

Worker == [pc : {"idle", "check", "commit", "edit"}, op : Checked \cup {"none"},
           S : SUBSET Requests, lim : Limits \cup {0}, copy : Row]

Idle == [pc |-> "idle", op |-> "none", S |-> {}, lim |-> 0, copy |-> NewRow]

Init ==
    /\ req = [r \in Requests |-> NewRow]
    /\ verified \in BOOLEAN
    /\ limit \in Limits
    /\ lock = NoWorker
    /\ wk = [w \in Workers |-> Idle]
    /\ over = {}

-----------------------------------------------------------------------------
Live(r) == req[r].row = "live"

\* in_progress: sent, not closed and still waiting for a document.
InProgressRow(q) ==
    q.row = "live" /\ q.awaiting = "no" /\ ~q.closed /\ ~q.done

InProgress == {r \in Requests : InProgressRow(req[r])}

Working(r) == \E w \in Workers : r \in wk[w].S

Start(w, op, S, copy) ==
    /\ wk[w].pc = "idle"
    /\ wk' = [wk EXCEPT ![w] =
                [pc |-> IF op = "none" THEN "edit" ELSE "check",
                 op |-> op, S |-> S, lim |-> 0, copy |-> copy]]
    /\ UNCHANGED <<req, verified, limit, lock, over>>

\* RequestService.create for one client, create_many for several.  An owner
\* who has not confirmed their address gets the requests held; whether they
\* have is read when the request starts (awaits_verification).
CreateBegin(w, S) ==
    /\ S # {}
    /\ \A r \in S : req[r].row = "new" /\ ~Working(r)
    /\ Start(w, IF verified THEN "send" ELSE "hold", S, NewRow)

\* GuestRequestService.submit: stored, waits for the link in the mail.
GuestSubmitBegin(w, r) ==
    /\ req[r].row = "new"
    /\ ~Working(r)
    /\ Start(w, "guest", {r}, NewRow)

\* GuestRequestService.confirm: the row is locked from here on.
ConfirmBegin(w, r) ==
    /\ Live(r)
    /\ req[r].awaiting = "guest"
    /\ \A u \in Workers : wk[u].op = "confirm" => r \notin wk[u].S
    /\ Start(w, "confirm", {r}, NewRow)

\* RequestService.reopen of a request fetched as closed.
ReopenBegin(w, r) ==
    /\ Live(r)
    /\ req[r].closed
    /\ Start(w, "reopen", {r}, NewRow)

\* What the transaction leaves in a row.
Stored(op, q) ==
    CASE op = "send"    -> [q EXCEPT !.row = "live"]
      [] op = "hold"    -> [q EXCEPT !.row = "live", !.awaiting = "held"]
      [] op = "guest"   -> [q EXCEPT !.row = "live", !.awaiting = "guest"]
      [] op = "confirm" -> [q EXCEPT !.awaiting = "no"]
      [] op = "reopen"  -> IF q.row = "live" THEN [q EXCEPT !.closed = FALSE]
                                             ELSE q

\* check_request_allowed(owner, count): under the lock, in the transaction
\* that goes on to commit.  confirm counts after it cleared the request's
\* awaiting_confirmation, so the request itself is among the used ones.
Counted(w) ==
    {r \in Requests :
        InProgressRow(IF wk[w].op = "confirm" /\ r \in wk[w].S
                      THEN Stored("confirm", req[r]) ELSE req[r])}

\* Mutant of CheckPlan: the billing row is read without a lock.
CheckPlanUnlocked(w) ==
    /\ wk[w].pc = "check"
    /\ IF Cardinality(Counted(w)) + Cardinality(wk[w].S) <= limit
       THEN /\ lock' = w
            /\ wk' = [wk EXCEPT ![w] = [@ EXCEPT !.pc = "commit", !.lim = limit]]
       ELSE /\ wk' = [wk EXCEPT ![w] = Idle]
            /\ UNCHANGED lock
    /\ UNCHANGED <<req, verified, limit, over>>

CheckPlan(w) ==
    /\ wk[w].pc = "check"
    /\ lock = NoWorker
    /\ IF Cardinality(Counted(w)) + Cardinality(wk[w].S) <= limit
       THEN /\ lock' = w
            /\ wk' = [wk EXCEPT ![w] = [@ EXCEPT !.pc = "commit", !.lim = limit]]
       ELSE /\ wk' = [wk EXCEPT ![w] = Idle]
            /\ UNCHANGED lock
    /\ UNCHANGED <<req, verified, limit, over>>

Commit(w) ==
    /\ wk[w].pc = "commit"
    /\ req' = [r \in Requests |-> IF r \in wk[w].S THEN Stored(wk[w].op, req[r])
                                                   ELSE req[r]]
    /\ verified' = (verified \/ wk[w].op = "confirm")
    /\ over' = IF wk[w].lim = limit THEN over \ wk[w].S ELSE over \cup wk[w].S
    /\ lock' = NoWorker
    /\ wk' = [wk EXCEPT ![w] = Idle]
    /\ UNCHANGED <<limit>>

\* Another limit refuses (the day's emails, the new account's recipients),
\* or the worker dies: the transaction is rolled back.
Rollback(w) ==
    /\ wk[w].pc = "commit"
    /\ lock' = NoWorker
    /\ wk' = [wk EXCEPT ![w] = Idle]
    /\ UNCHANGED <<req, verified, limit, over>>

-----------------------------------------------------------------------------
(* Steps that take no place under the lock *)

Locked(r) == \E w \in Workers : wk[w].op = "confirm" /\ r \in wk[w].S

Write(r, q) == req' = [req EXCEPT ![r] = q]

\* r may have become in progress without a check.
Uncounted(r, q) ==
    over' = IF InProgressRow(q) /\ ~InProgressRow(req[r]) THEN over \cup {r}
                                                          ELSE over

ConfirmAddress ==
    /\ ~verified
    /\ verified' = TRUE
    /\ UNCHANGED <<req, limit, lock, wk, over>>

\* release_held: one request, under its row lock.
Release(r) ==
    LET q == [req[r] EXCEPT !.awaiting = "no"] IN
    /\ verified
    /\ Live(r)
    /\ req[r].awaiting = "held"
    /\ Write(r, q)
    /\ Uncounted(r, q)
    /\ UNCHANGED <<verified, limit, lock, wk>>

CloseRequest(r) ==
    /\ Live(r)
    /\ req[r].awaiting = "no"
    /\ ~req[r].closed
    /\ Write(r, [req[r] EXCEPT !.closed = TRUE])
    /\ UNCHANGED <<verified, limit, lock, wk, over>>

\* The recipient's last document arrives ...
Complete(r) ==
    /\ r \in InProgress
    /\ Write(r, [req[r] EXCEPT !.done = TRUE])
    /\ UNCHANGED <<verified, limit, lock, wk, over>>

\* ... and the sender rejects one, or the recipient takes one back.
Return(r) ==
    LET q == [req[r] EXCEPT !.done = FALSE] IN
    /\ Live(r)
    /\ req[r].done
    /\ Write(r, q)
    /\ Uncounted(r, q)
    /\ UNCHANGED <<verified, limit, lock, wk>>

Delete(r) ==
    /\ Live(r)
    /\ ~Locked(r)
    /\ Write(r, [NewRow EXCEPT !.row = "gone"])
    /\ UNCHANGED <<verified, limit, lock, wk, over>>

EditBegin(w, r) ==
    /\ Live(r)
    /\ Start(w, "none", {r}, req[r])

\* RequestService.update saves every column of the fetched object, and
\* inserts the row again when it is gone - by then without items.
EditSave(w) ==
    /\ wk[w].pc = "edit"
    /\ \E r \in wk[w].S :
        LET q == [wk[w].copy EXCEPT !.done = Live(r) /\ req[r].done] IN
        /\ ~Locked(r)
        /\ Write(r, q)
        /\ Uncounted(r, q)
    /\ wk' = [wk EXCEPT ![w] = Idle]
    /\ UNCHANGED <<verified, limit, lock>>

-----------------------------------------------------------------------------
(* The plan: Stripe's word is applied under the billing row's lock         *)
(* (gateway.refresh); a trial ends by the clock, under nobody's.            *)

SetLimit(l) ==
    /\ limit' = l
    /\ over' = IF l < limit THEN over \cup InProgress ELSE over
    /\ UNCHANGED <<req, verified, lock, wk>>

ChangePlan(l) ==
    /\ l # limit
    /\ lock = NoWorker
    /\ SetLimit(l)

EndTrial(l) ==
    /\ l < limit
    /\ SetLimit(l)

-----------------------------------------------------------------------------
Next ==
    \/ \E w \in Workers :
        \/ \E S \in SUBSET Requests : CreateBegin(w, S)
        \/ \E r \in Requests : \/ GuestSubmitBegin(w, r) \/ ConfirmBegin(w, r)
                               \/ ReopenBegin(w, r) \/ EditBegin(w, r)
        \/ CheckPlan(w) \/ Commit(w) \/ Rollback(w) \/ EditSave(w)
    \/ \E r \in Requests : \/ Release(r) \/ CloseRequest(r) \/ Complete(r)
                           \/ Return(r) \/ Delete(r)
    \/ ConfirmAddress
    \/ \E l \in Limits : ChangePlan(l) \/ EndTrial(l)

Spec == Init /\ [][Next]_vars

-----------------------------------------------------------------------------
TypeOK ==
    /\ req \in [Requests -> Row]
    /\ verified \in BOOLEAN
    /\ limit \in Limits
    /\ lock \in Workers \cup {NoWorker}
    /\ wk \in [Workers -> Worker]
    /\ over \in SUBSET Requests

(* The plan is not oversold: the requests that took their place under the  *)
(* plan in force never exceed its limit, however many workers send, reopen *)
(* and confirm at once (billing/services.py: account_for(lock=True)).      *)
(* over holds the requests that came back without a check.                 *)
PlanNotOversold == Cardinality(InProgress \ over) <= limit

(* The one who holds the billing row is the one who passed the check; its  *)
(* count stays good until it commits, because nobody else commits a place  *)
(* meanwhile and a plan that changes by the clock only gets smaller.       *)
CheckStaysGood ==
    \A w \in Workers :
        /\ wk[w].pc = "commit" <=> lock = w
        /\ wk[w].pc = "commit" =>
            /\ limit <= wk[w].lim
            /\ wk[w].lim = limit =>
                 Cardinality((InProgress \ over) \cup wk[w].S) <= limit

(***************************************************************************)
(* What the repository says and the code does not do                       *)
(***************************************************************************)

(* "test_free_plan_refuses_the_fourth_request_in_progress"                 *)
(* (tests/test_billing.py:285, README.md:37: "Free 3") and "... w toku -   *)
(* tyle juz masz" (billing/services.py:157): the plan refuses only what    *)
(* would not fit.  confirm counts the request it is about to send twice.   *)
FreePlaceIsGranted ==
    [][\A w \in Workers :
          wk[w].pc = "check" /\ wk[w].op = "confirm" /\ wk'[w].pc = "idle"
              => Cardinality(InProgress) + 1 > limit]_vars

=============================================================================
