----------------------------- MODULE StripeSync ----------------------------
(***************************************************************************)
(* The stored copy of an account's Stripe subscription and what its owner  *)
(* is told about it (apps/billing/gateway.py, notices.py).                 *)
(*                                                                         *)
(* Stripe reports each change of a subscription with an event, delivered   *)
(* late, repeatedly and in any order until it is handled.  handle_event,   *)
(* the return page and the plan page all end in refresh: it locks the      *)
(* account's row, reads the customer's subscriptions from Stripe, stores   *)
(* the one that counts and queues an email about the difference.  An event *)
(* of a customer the account does not know may make the account take that  *)
(* customer over (_adopt_customer).                                        *)
(***************************************************************************)
EXTENDS Naturals, Sequences, FiniteSets

CONSTANTS
    Customers,  \* Stripe customers made for this user
    Subs,       \* their subscriptions: numbers, a newer one is larger
    Ranks,      \* the paid plans by the number of requests they allow
    Workers,    \* web processes
    NoOne,      \* no customer, and nobody holds the lock
    MaxEvents   \* bound: changes at Stripe

SyncAssumption ==
    /\ Subs \subseteq Nat \ {0}
    \* finitely many: any of them have a newest
    /\ \A S \in SUBSET Subs : S # {} => \E s \in S : \A t \in S : t <= s
    /\ Ranks \subseteq Nat \ {0}
    /\ NoOne \notin Customers \cup Workers

VARIABLES
    sub,      \* Stripe: the subscriptions
    owner,    \* Stripe: whose they are
    events,   \* Stripe: the events sent, in the order of the changes
    handled,  \* StripeEvent rows: the events handled
    acct,     \* the BillingAccount row
    lock,     \* who holds its row lock
    wk,       \* the web processes
    alerts,   \* customers the team was told to look at
    told,     \* history: the plan by the last email that names one, 0 for Free
    silent,   \* history: the plan changed since in a way no email tells
    crossed   \* history: customers an event of which synced another one

vars == <<sub, owner, events, handled, acct, lock, wk, alerts, told, silent,
          crossed>>

stripeVars == <<sub, owner, events>>

Paying == {"active", "past_due"}     \* PAID_STATUSES

Sub == [status : Paying \cup {"none", "canceled"}, rank : Ranks \cup {0},
        cancel : BOOLEAN]

\* since: past_due_since, and whether PAST_DUE_GRACE has passed.
Account == [cust : Customers \cup {NoOne}, id : Subs \cup {0},
            status : Paying \cup {"none", "canceled"}, rank : Ranks \cup {0},
            cancel : BOOLEAN, since : {"no", "recent", "long"}]

Blank(c) == [cust |-> c, id |-> 0, status |-> "none", rank |-> 0,
             cancel |-> FALSE, since |-> "no"]

\* ev: the event in hand, 0 for a page; cust: its customer; picked: what was
\* read from Stripe.
Worker == [pc : {"idle", "lock", "adopt", "read", "store"}, ev : Nat,
           adopts : Customers \cup {NoOne}, picked : Subs \cup {0}, got : Sub]

NoSub == [status |-> "none", rank |-> 0, cancel |-> FALSE]

Idle == [pc |-> "idle", ev |-> 0, adopts |-> NoOne, picked |-> 0, got |-> NoSub]

Init ==
    /\ sub = [s \in Subs |-> NoSub]
    /\ owner \in [Subs -> Customers]
    /\ events = <<>>
    /\ handled = {}
    /\ acct \in {Blank(c) : c \in Customers \cup {NoOne}}
    /\ lock = NoOne
    /\ wk = [w \in Workers |-> Idle]
    /\ alerts = {}
    /\ told = 0
    /\ silent = FALSE
    /\ crossed = {}

-----------------------------------------------------------------------------
(* Stripe: each change of a subscription is an event *)

Change(s, q) ==
    /\ Len(events) < MaxEvents
    /\ sub' = [sub EXCEPT ![s] = q]
    /\ events' = Append(events, owner[s])
    /\ UNCHANGED <<owner, handled, acct, lock, wk, alerts, told, silent, crossed>>

Live(s) == sub[s].status \in Paying

Subscribe(s, r) ==
    /\ sub[s].status = "none"
    /\ Change(s, [status |-> "active", rank |-> r, cancel |-> FALSE])

ChangePlan(s, r) ==
    /\ Live(s)
    /\ sub[s].rank # r
    /\ Change(s, [sub[s] EXCEPT !.rank = r])

ToggleCancel(s) == Live(s) /\ Change(s, [sub[s] EXCEPT !.cancel = ~@])

PaymentFails(s) ==
    sub[s].status = "active" /\ Change(s, [sub[s] EXCEPT !.status = "past_due"])

PaymentArrives(s) ==
    sub[s].status = "past_due" /\ Change(s, [sub[s] EXCEPT !.status = "active"])

End(s) == Live(s) /\ Change(s, [sub[s] EXCEPT !.status = "canceled"])

-----------------------------------------------------------------------------
(* What the row and the emails make of a subscription *)

\* Snapshot.paid: within_grace counts past_due as paid for a while only.
Paid(a) == a.status \in Paying /\ a.rank > 0 /\ a.since # "long"

InForce(a) == IF Paid(a) THEN a.rank ELSE 0

Of(c) == {s \in Subs : owner[s] = c /\ sub[s].status # "none"}

Newest(S) == CHOOSE s \in S : \A t \in S : t <= s

\* _pick: the newest paid one, else the newest of the rest.
Pick(c) ==
    LET paying == {s \in Of(c) : Live(s)} IN
    CASE paying # {} -> Newest(paying)
      [] paying = {} /\ Of(c) # {} -> Newest(Of(c))
      [] Of(c) = {} -> 0

\* apply_subscription.
Applied(a, s, q) ==
    IF s = 0 THEN Blank(a.cust)
    ELSE [cust |-> a.cust, id |-> s, status |-> q.status, rank |-> q.rank,
          cancel |-> q.cancel,
          since |-> CASE q.status # "past_due" -> "no"
                      [] q.status = "past_due" /\ a.since = "no" -> "recent"
                      [] OTHER -> a.since]

\* notices.change_kind: one kind for everything that changed.
ChangeKind(b, a) ==
    CASE Paid(b) /\ ~Paid(a) -> "ended"
      [] ~Paid(a) /\ ~Paid(b) -> "nothing"
      [] Paid(a) /\ ~Paid(b) -> "started"
      [] Paid(a) /\ Paid(b) /\ b.rank < a.rank -> "upgraded"
      [] Paid(a) /\ Paid(b) /\ b.rank > a.rank -> "downgraded"
      [] Paid(a) /\ Paid(b) /\ b.rank = a.rank /\ ~b.cancel /\ a.cancel ->
            "cancel_scheduled"
      [] Paid(a) /\ Paid(b) /\ b.rank = a.rank /\ b.cancel /\ ~a.cancel ->
            "resumed"
      [] Paid(a) /\ Paid(b) /\ b.rank = a.rank /\ b.cancel = a.cancel
         /\ b.status # "past_due" /\ a.status = "past_due" -> "payment_failed"
      [] OTHER -> "nothing"

NamesPlan == {"started", "upgraded", "downgraded", "ended"}

-----------------------------------------------------------------------------
(* The handlers *)

\* handle_event: the StripeEvent row is inserted first; a second delivery
\* waits for it and then finds it.  _account_for_event reads without a lock.
EventBegin(w, e) ==
    /\ wk[w].pc = "idle"
    /\ e \in DOMAIN events \ handled
    /\ \A v \in Workers : wk[v].ev # e
    /\ wk' = [wk EXCEPT ![w] =
                 [@ EXCEPT !.ev = e, !.pc = IF events[e] = acct.cust THEN "lock" ELSE "adopt"]]
    /\ UNCHANGED <<stripeVars, handled, acct, lock, alerts, told, silent, crossed>>

\* ensure_customer: a checkout gives the account its customer - one made
\* for this user before, or a new one - under the row's lock.
EnsureCustomer(c) ==
    /\ lock = NoOne
    /\ acct.cust = NoOne
    /\ acct' = Blank(c)
    /\ UNCHANGED <<stripeVars, handled, lock, wk, alerts, told, silent, crossed>>

\* checkout_return and plan_view (?zmiana=1).
PageBegin(w) ==
    /\ wk[w].pc = "idle"
    /\ wk' = [wk EXCEPT ![w].pc = "lock"]
    /\ UNCHANGED <<stripeVars, handled, acct, lock, alerts, told, silent, crossed>>

Done(w) ==
    /\ handled' = handled \cup ({wk[w].ev} \ {0})
    /\ wk' = [wk EXCEPT ![w] = Idle]

\* Mutant of Adopt: the team is not told of the second paying customer.
AdoptUntold(w) ==
    LET c == events[wk[w].ev] IN
    /\ wk[w].pc = "adopt"
    /\ lock = NoOne
    /\ IF acct.cust # c /\ \E s \in Of(acct.cust) : Live(s)
       THEN /\ Done(w)
            /\ UNCHANGED <<lock, alerts>>
       ELSE /\ lock' = w
            /\ wk' = [wk EXCEPT ![w] = [@ EXCEPT !.pc = "read", !.adopts = c]]
            /\ UNCHANGED <<handled, alerts>>
    /\ UNCHANGED <<stripeVars, acct, told, silent, crossed>>

\* _adopt_customer: unless the stored customer pays, the event's one takes
\* over; the team is told otherwise.
Adopt(w) ==
    LET c == events[wk[w].ev] IN
    /\ wk[w].pc = "adopt"
    /\ lock = NoOne
    /\ IF acct.cust # c /\ \E s \in Of(acct.cust) : Live(s)
       THEN /\ alerts' = alerts \cup {c}
            /\ Done(w)
            /\ UNCHANGED lock
       ELSE /\ lock' = w
            /\ wk' = [wk EXCEPT ![w] = [@ EXCEPT !.pc = "read", !.adopts = c]]
            /\ UNCHANGED <<handled, alerts>>
    /\ UNCHANGED <<stripeVars, acct, told, silent, crossed>>

\* Mutant of Lock: the row is read without select_for_update.
LockNothing(w) ==
    /\ wk[w].pc = "lock"
    /\ wk' = [wk EXCEPT ![w].pc = "read"]
    /\ UNCHANGED <<stripeVars, handled, acct, lock, alerts, told, silent, crossed>>

\* refresh: the row is locked before Stripe is read; there is nothing to
\* read for an account without a customer.
Lock(w) ==
    /\ wk[w].pc = "lock"
    /\ lock = NoOne
    /\ IF acct.cust = NoOne
       THEN wk' = [wk EXCEPT ![w] = Idle] /\ UNCHANGED lock
       ELSE wk' = [wk EXCEPT ![w].pc = "read"] /\ lock' = w
    /\ UNCHANGED <<stripeVars, handled, acct, alerts, told, silent, crossed>>

\* The row as the transaction sees it: _set_customer wiped it on adoption.
Before(w) == IF wk[w].adopts = NoOne THEN acct ELSE Blank(wk[w].adopts)

Read(w) ==
    LET s == Pick(Before(w).cust) IN
    /\ wk[w].pc = "read"
    /\ wk' = [wk EXCEPT ![w] = [@ EXCEPT !.pc = "store", !.picked = s,
                                           !.got = IF s = 0 THEN NoSub ELSE sub[s]]]
    /\ alerts' = IF Cardinality({t \in Of(Before(w).cust) : Live(t)}) > 1
                 THEN alerts \cup {Before(w).cust} ELSE alerts
    /\ UNCHANGED <<stripeVars, handled, acct, lock, told, silent, crossed>>

\* apply_subscription and notify, and the commit.
Store(w) ==
    LET before == Before(w)
        after  == Applied(before, wk[w].picked, wk[w].got)
        kind   == ChangeKind(before, after) IN
    /\ wk[w].pc = "store"
    /\ acct' = after
    /\ lock' = NoOne
    /\ told' = IF kind \in NamesPlan THEN InForce(after) ELSE told
    /\ silent' = CASE kind \in NamesPlan -> FALSE
                   [] kind \notin NamesPlan /\ wk[w].adopts # NoOne /\ Paid(acct) -> TRUE
                   [] OTHER -> silent
    /\ crossed' = IF wk[w].ev # 0 /\ events[wk[w].ev] # before.cust
                  THEN crossed \cup {events[wk[w].ev]} ELSE crossed
    /\ Done(w)
    /\ UNCHANGED <<stripeVars, alerts>>

\* Stripe does not answer, or the worker dies: everything is rolled back,
\* the event's row too, and Stripe sends the event again.
Fail(w) ==
    /\ wk[w].pc # "idle"
    /\ wk' = [wk EXCEPT ![w] = Idle]
    /\ lock' = IF lock = w THEN NoOne ELSE lock
    /\ UNCHANGED <<stripeVars, handled, acct, alerts, told, silent, crossed>>

\* PAST_DUE_GRACE passes: the plan is free from now on, and no email says so.
GraceEnds ==
    /\ acct.since = "recent"
    /\ acct' = [acct EXCEPT !.since = "long"]
    /\ silent' = (silent \/ Paid(acct))
    /\ UNCHANGED <<stripeVars, handled, lock, wk, alerts, told, crossed>>

-----------------------------------------------------------------------------
Stripe ==
    \/ \E s \in Subs :
        \/ \E r \in Ranks : Subscribe(s, r) \/ ChangePlan(s, r)
        \/ ToggleCancel(s) \/ PaymentFails(s) \/ PaymentArrives(s) \/ End(s)

Next ==
    \/ Stripe
    \/ \E w \in Workers :
        \/ \E e \in DOMAIN events : EventBegin(w, e)
        \/ PageBegin(w) \/ Adopt(w) \/ Lock(w) \/ Read(w) \/ Store(w) \/ Fail(w)
    \/ \E c \in Customers : EnsureCustomer(c)
    \/ GraceEnds

Spec == Init /\ [][Next]_vars

-----------------------------------------------------------------------------
TypeOK ==
    /\ sub \in [Subs -> Sub]
    /\ owner \in [Subs -> Customers]
    /\ events \in Seq(Customers)
    /\ handled \subseteq DOMAIN events
    /\ acct \in Account
    /\ lock \in Workers \cup {NoOne}
    /\ wk \in [Workers -> Worker]
    /\ alerts \subseteq Customers
    /\ told \in Ranks \cup {0}
    /\ silent \in BOOLEAN
    /\ crossed \subseteq Customers

Mirrors(a) ==
    LET s == Pick(a.cust) IN
    /\ a.id = s
    /\ s # 0 => /\ a.status = sub[s].status
                /\ a.rank = sub[s].rank
                /\ a.cancel = sub[s].cancel

(* When every event was handled, however late, repeated or out of order,    *)
(* the stored copy is what Stripe has (gateway.py: "late or repeated events *)
(* can't leave a stale state behind").                                      *)
QuietMeansSynced == handled = DOMAIN events => Mirrors(acct)

(* Nobody pays for nothing: when every event was handled, a subscription    *)
(* that is paid gives the account a plan, or the team knows of it           *)
(* (gateway.py: _adopt_customer, refresh).  Except where the account took   *)
(* another customer over after the event's account was looked up and before *)
(* refresh locked it (crossed): the event then syncs the wrong customer.    *)
NobodyPaysForNothing ==
    handled = DOMAIN events =>
        \A s \in Subs :
            Live(s) => \/ acct.status \in Paying
                       \/ owner[s] \in alerts \cup crossed

(* The owner's emails tell the plan in force: each change is told once, and *)
(* only a grace period that ran out or a paid plan dropped for another      *)
(* customer goes untold (notices.py: "each change is queued exactly once"). *)
OwnerWasTold == ~silent => told = InForce(acct)

=============================================================================
