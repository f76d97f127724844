------------------------------ MODULE Deletion ------------------------------
(***************************************************************************)
(* Deleting an account that pays (apps/accounts/services.py, erasure.py;   *)
(* apps/billing/gateway.py): every live subscription is cancelled at       *)
(* Stripe, the time left and the credit go back to the card, and only then *)
(* are the account's rows deleted.  Every call to Stripe may fail; a       *)
(* cancellation that fails keeps the account and its link, to be tried     *)
(* again, and a refund that fails is put on a list for the team.  When the *)
(* last subscription ends by itself, a webhook returns the credit.         *)
(* Amounts are in units; one Stripe customer stands for each of            *)
(* find_customers, for which the same loop runs again.                     *)
(***************************************************************************)
EXTENDS Integers, Sequences

CONSTANTS
    Subs,
    Workers,
    Value,      \* the unused time of a subscription, in units
    Captured,   \* the customer's payments, the newest first
    MaxCredit,
    MaxFaults   \* bound: failed calls to Stripe and killed workers

DeletionAssumption ==
    /\ Value \in [Subs -> Nat]
    /\ Captured \in Seq(Nat)
    /\ MaxCredit \in Nat

VARIABLES
    exists,     \* the User row: its link works as long as it exists
    subs,       \* Stripe: the subscriptions' statuses
    credit,     \* Stripe: the customer's credit; below zero, a debit
    left,       \* Stripe: what is left of each payment
    keys,       \* Stripe: idempotency keys of refunds made
    events,     \* subscription.deleted events that return the credit
    worker,     \* close_customer, or the webhook, in every worker
    faults,
    due,        \* history: what is to go back
    back,       \* history: what went back
    listed,     \* history: what the team was last told to return by hand
    told,       \* history: the team was told of a refund that failed
    slipped,    \* history: of what is due, the time left of subscriptions
                \* Stripe cancelled in a call whose answer was lost
    late,       \* history: subscriptions paid after the list was read
    odd         \* history: what the properties except

vars == <<exists, subs, credit, left, keys, events, worker, faults,
          due, back, listed, told, slipped, late, odd>>

Idle == [pc |-> "idle", reason |-> "", todo |-> {}, unused |-> 0, credit |-> 0,
         due |-> 0, seen |-> Captured, at |-> 1, refunded |-> 0,
         short |-> 0, failed |-> FALSE, problem |-> FALSE]

Init ==
    /\ exists = TRUE
    /\ subs \in [Subs -> {"none", "live"}]
    /\ credit \in 0..MaxCredit
    /\ left = Captured
    /\ keys = {}
    /\ events = {}
    /\ worker = [w \in Workers |-> Idle]
    /\ faults = 0
    /\ due = credit
    /\ back = 0
    /\ listed = 0
    /\ told = FALSE
    /\ slipped = 0
    /\ late = {}
    /\ odd = {}

Lesser(a, b) == IF a < b THEN a ELSE b

Set(w, r) == worker' = [worker EXCEPT ![w] = r]

Stripe == <<subs, credit, left, keys>>
History == <<due, back, listed, told, slipped, late, odd>>

Quiet == \A w \in Workers : worker[w] = Idle

\* Two at work on one customer at once are noted.
Start(w, r) ==
    /\ worker[w] = Idle
    /\ Set(w, r)
    /\ odd' = IF Quiet THEN odd ELSE odd \cup {"overlap"}

Fault(w) == faults < MaxFaults /\ faults' = faults + 1

-----------------------------------------------------------------------------
(* Stripe, by itself *)

\* A checkout opened before is paid: also after the account is gone.
Checkout(s) ==
    /\ subs[s] = "none"
    /\ subs' = [subs EXCEPT ![s] = "live"]
    /\ late' = IF exists /\ Quiet THEN late ELSE late \cup {s}
    /\ UNCHANGED <<exists, credit, left, keys, events, worker, faults, due, back, listed, told,
                   slipped, odd>>

\* A subscription ends at the end of its period.
PeriodEnds(s) ==
    /\ subs[s] = "live"
    /\ subs' = [subs EXCEPT ![s] = "ended"]
    /\ events' = events \cup {s}
    /\ UNCHANGED <<exists, credit, left, keys, worker, faults>>
    /\ UNCHANGED History

-----------------------------------------------------------------------------
(* close_customer *)

\* AccountDeletionService.confirm: the token is valid; the subscriptions
\* are listed.
Confirm(w) ==
    /\ exists
    /\ LET live == {s \in Subs : subs[s] = "live"} IN
       /\ Start(w, [Idle EXCEPT !.pc = "cancel", !.reason = "account_deleted", !.todo = live])
       /\ late' = IF Quiet THEN {} ELSE late
    /\ UNCHANGED <<exists, events, faults, due, back, listed, told, slipped>>
    /\ UNCHANGED Stripe

\* Mutant of CancelFails: the rest of the list is cancelled, the failure is
\* one of the problems.
CancelFailsOn(w, s) ==
    /\ worker[w].pc = "cancel" /\ s \in worker[w].todo
    /\ Fault(w)
    /\ Set(w, [worker[w] EXCEPT !.todo = @ \ {s}, !.problem = TRUE])
    /\ UNCHANGED <<exists, events>>
    /\ UNCHANGED Stripe
    /\ UNCHANGED History

\* One cancellation; a subscription already ended is passed over.
Cancel(w, s) ==
    /\ worker[w].pc = "cancel" /\ s \in worker[w].todo
    /\ LET worth == IF subs[s] = "live" THEN Value[s] ELSE 0 IN
       /\ Set(w, [worker[w] EXCEPT !.todo = @ \ {s}, !.unused = @ + worth])
       /\ due' = due + worth
    /\ subs' = [subs EXCEPT ![s] = "ended"]
    /\ UNCHANGED <<exists, credit, left, keys, events, faults, back, listed, told, slipped,
                   late, odd>>

\* Stripe cancels, and the answer is lost: the library asks again, is told
\* that there is no such subscription, and the list goes on; or it cannot ask,
\* and the call fails.  A later try passes the subscription over as ended.
CancelLost(w, s, again) ==
    /\ worker[w].pc = "cancel" /\ s \in worker[w].todo
    /\ subs[s] = "live"
    /\ Fault(w)
    /\ subs' = [subs EXCEPT ![s] = "ended"]
    /\ due' = due + Value[s] /\ slipped' = slipped + Value[s]
    /\ Set(w, IF again THEN [worker[w] EXCEPT !.todo = @ \ {s}]
              ELSE [worker[w] EXCEPT !.pc = "balance", !.failed = TRUE])
    /\ UNCHANGED <<exists, credit, left, keys, events, back, listed, told, late, odd>>

\* The call fails: what is left of the list stays, the money goes back.
CancelFails(w, s) ==
    /\ worker[w].pc = "cancel" /\ s \in worker[w].todo
    /\ Fault(w)
    /\ Set(w, [worker[w] EXCEPT !.pc = "balance", !.failed = TRUE])
    /\ UNCHANGED <<exists, events>>
    /\ UNCHANGED Stripe
    /\ UNCHANGED History

Cancelled(w) ==
    /\ worker[w].pc = "cancel" /\ worker[w].todo = {}
    /\ Set(w, [worker[w] EXCEPT !.pc = "balance"])
    /\ UNCHANGED <<exists, events, faults>>
    /\ UNCHANGED Stripe
    /\ UNCHANGED History

-----------------------------------------------------------------------------
(* _return_money *)

\* The webhook of the last subscription's end: _refund_credit_after_end.
CreditAfterEnd(w, s) ==
    /\ s \in events
    /\ events' = events \ {s}
    /\ IF exists /\ \A t \in Subs : subs[t] # "live"
       THEN Start(w, [Idle EXCEPT !.pc = "balance", !.reason = "credit_after_end"])
       ELSE worker[w] = Idle /\ UNCHANGED <<worker, odd>>
    /\ UNCHANGED <<exists, faults, due, back, listed, told, slipped, late>>
    /\ UNCHANGED Stripe

\* A debit, which clearing the credit twice leaves, counts as none.
CreditNow == IF credit > 0 THEN credit ELSE 0

\* Mutant of Balance: nothing goes back when a cancellation failed.
BalanceUnlessFailed(w) ==
    LET me  == worker[w]
        sum == IF me.failed THEN 0 ELSE me.unused + CreditNow
    IN
    /\ me.pc = "balance"
    /\ Set(w, IF sum = 0 THEN [me EXCEPT !.pc = "end"]
              ELSE [me EXCEPT !.pc = "refund", !.credit = CreditNow, !.due = sum, !.seen = left])
    /\ UNCHANGED <<exists, events, faults>>
    /\ UNCHANGED Stripe
    /\ UNCHANGED History

\* The balance is read, and the payments listed.
Balance(w) ==
    LET me  == worker[w]
        sum == me.unused + CreditNow
    IN
    /\ me.pc = "balance"
    /\ Set(w, IF sum = 0 THEN [me EXCEPT !.pc = "end"]
              ELSE [me EXCEPT !.pc = "refund", !.credit = CreditNow, !.due = sum, !.seen = left])
    /\ UNCHANGED <<exists, events, faults>>
    /\ UNCHANGED Stripe
    /\ UNCHANGED History

\* What this payment gives of what is still to go back.
Part(me) == Lesser(me.seen[me.at], me.due - me.refunded)

\* One refund.  A key Stripe knows moves no money and answers as before.
Refund(w) ==
    LET me   == worker[w]
        part == Part(me)
        key  == <<me.reason, me.at, part>>
    IN
    /\ me.pc = "refund" /\ me.at <= Len(Captured) /\ me.refunded < me.due
    /\ IF part = 0 THEN
           /\ Set(w, [me EXCEPT !.at = @ + 1])
           /\ UNCHANGED <<left, keys, back, odd>>
       ELSE IF key \in keys THEN
           /\ Set(w, [me EXCEPT !.at = @ + 1, !.refunded = @ + part])
           /\ odd' = odd \cup {"same"}
           /\ UNCHANGED <<left, keys, back>>
       ELSE
           /\ left[me.at] >= part
           /\ left' = [left EXCEPT ![me.at] = @ - part]
           /\ keys' = keys \cup {key}
           /\ back' = back + part
           /\ Set(w, [me EXCEPT !.at = @ + 1, !.refunded = @ + part])
           /\ UNCHANGED odd
    /\ UNCHANGED <<exists, subs, credit, events, faults, due, listed, told, slipped,
                   late>>

Refunded(w) ==
    LET me == worker[w] IN
    /\ me.pc = "refund"
    /\ me.at > Len(Captured) \/ me.refunded >= me.due
    /\ Set(w, [me EXCEPT !.pc = "clear"])
    /\ UNCHANGED <<exists, events, faults>>
    /\ UNCHANGED Stripe
    /\ UNCHANGED History

\* The refunded credit is taken off the balance; what the payments did not
\* cover is one of the problems.
Clear(w) ==
    LET me == worker[w] IN
    /\ me.pc = "clear"
    /\ credit' = credit - Lesser(me.credit, me.refunded)
    /\ Set(w, [me EXCEPT !.pc = "end", !.short = me.due - me.refunded,
                         !.problem = me.problem \/ me.refunded < me.due])
    /\ UNCHANGED <<exists, subs, left, keys, events, faults, due, back, listed, told,
                   slipped, late, odd>>

\* A call fails, or Stripe refuses more than the payment has left.
ReturnFails(w) ==
    LET me == worker[w] IN
    /\ me.pc \in {"balance", "refund", "clear"}
    /\ IF me.pc = "refund" /\ me.at <= Len(Captured) /\ Part(me) > left[me.at]
       THEN UNCHANGED faults
       ELSE Fault(w)
    /\ Set(w, [me EXCEPT !.pc = "end", !.problem = TRUE])
    /\ odd' = odd \cup {"problem"}
    /\ UNCHANGED <<exists, events, due, back, listed, told, slipped, late>>
    /\ UNCHANGED Stripe

-----------------------------------------------------------------------------
(* The end *)

\* The team reads the problems, with the amount to return by hand.
Report(w) ==
    /\ told' = (told \/ worker[w].problem)
    /\ listed' = worker[w].short

\* The webhook tells the team of its problems.
WebhookEnds(w) ==
    /\ worker[w].pc = "end" /\ worker[w].reason = "credit_after_end"
    /\ Report(w)
    /\ Set(w, Idle)
    /\ UNCHANGED <<exists, events, faults, due, back, slipped, late, odd>>
    /\ UNCHANGED Stripe

\* SUBSCRIPTION_CANCEL_FAILED: the account stays, its problems are lost.
KeepAccount(w) ==
    /\ worker[w].pc = "end" /\ worker[w].failed
    /\ Set(w, Idle)
    /\ odd' = IF worker[w].problem THEN odd \cup {"problem"} ELSE odd
    /\ UNCHANGED <<exists, events, faults, due, back, listed, told, slipped, late>>
    /\ UNCHANGED Stripe

\* erase_account in one transaction, then alert_deletion.
Erase(w) ==
    /\ worker[w].pc = "end" /\ worker[w].reason = "account_deleted" /\ ~worker[w].failed
    /\ exists' = FALSE
    /\ Report(w)
    /\ Set(w, Idle)
    /\ UNCHANGED <<events, faults, due, back, slipped, late, odd>>
    /\ UNCHANGED Stripe

\* A worker is killed between two calls.
Crash(w) ==
    /\ worker[w] # Idle
    /\ Fault(w)
    /\ Set(w, Idle)
    /\ odd' = odd \cup {"crash"}
    /\ UNCHANGED <<exists, events, due, back, listed, told, slipped, late>>
    /\ UNCHANGED Stripe

Next ==
    \/ \E s \in Subs : Checkout(s) \/ PeriodEnds(s)
    \/ \E w \in Workers :
        \/ Confirm(w) \/ Cancelled(w) \/ Balance(w) \/ Refund(w) \/ Refunded(w)
        \/ Clear(w) \/ ReturnFails(w) \/ WebhookEnds(w) \/ KeepAccount(w)
        \/ Erase(w) \/ Crash(w)
        \/ \E s \in Subs :
              \/ Cancel(w, s) \/ CancelFails(w, s) \/ CreditAfterEnd(w, s)
              \/ \E again \in BOOLEAN : CancelLost(w, s, again)

Spec == Init /\ [][Next]_vars

-----------------------------------------------------------------------------
(* The variables keep their types.                                          *)
TypeOK ==
    /\ exists \in BOOLEAN /\ told \in BOOLEAN
    /\ subs \in [Subs -> {"none", "live", "ended"}]
    /\ credit \in Int /\ due \in Nat /\ back \in Nat /\ listed \in Nat /\ slipped \in Nat
    /\ \A i \in DOMAIN left : left[i] \in 0..Captured[i]
    /\ events \subseteq Subs /\ late \subseteq Subs
    /\ \A w \in Workers : worker[w].pc \in {"idle", "cancel", "balance", "refund", "clear", "end"}
    /\ odd \subseteq {"overlap", "problem", "crash", "same"}

(* "Nobody keeps paying for an account that no longer exists" (gateway.py:  *)
(* 372-373): whatever failed, was retried or was killed, a subscription     *)
(* that outlives its account was paid after the list was read - through a   *)
(* checkout still open.                                                     *)
DeletedNotCharged ==
    ~exists => \A s \in Subs : subs[s] = "live" => s \in late

(* All the money due goes back, and none of it twice, also when a           *)
(* cancellation fails half way and the deletion is tried again; what the    *)
(* payments do not cover the team is told to return by hand, to the unit -  *)
(* but for the time left of a subscription whose cancellation was made and  *)
(* its answer lost: "a retry won't see the subscriptions already cancelled" *)
(* (gateway.py:407), nor does the try itself count that one.  As long as no *)
(* refund failed, no problem of a failed try was lost, no worker was killed,*)
(* no two worked on the customer at once, and no try refunded exactly what  *)
(* an earlier one had from the same payment (the idempotency key is the     *)
(* amount).                                                                 *)
MoneyIsReturned ==
    odd = {} => back + slipped <= due /\ (~exists => back + listed + slipped = due)

(* "A refund or clean-up that fails is only reported in the result, for the *)
(* team to finish by hand" (gateway.py:379-381): what did not go back, the  *)
(* team was told to return.                                                 *)
RefundOrReport ==
    ~exists /\ odd \subseteq {"problem"} => back + slipped = due \/ told

=============================================================================
