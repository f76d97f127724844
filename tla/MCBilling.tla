---------------------------- MODULE MCBilling ----------------------------
(***************************************************************************)
(* Payments for TLC: an account kept in sync with Stripe, the VAT invoice  *)
(* of a payment, and the money of an account that is deleted.  They run    *)
(* side by side, not as a product: the first state says which one moves.   *)
(* Workers and the deleted account's subscriptions are interchangeable.    *)
(***************************************************************************)
EXTENDS VatInvoices, Integers, TLC

CONSTANTS Customers, Subs, Ranks, NoOne, MaxEvents,
          Subscriptions, Worth, Payouts, MaxCredit, MaxRefundFaults

VARIABLES
    part,
    sub, owner, events, handled, acct, lock, process, alerts, told, silent, crossed,
    exists, subs, credit, left, keys, ended, worker, mishaps,
    due, back, listed, reported, slipped, late, odd

Y == INSTANCE StripeSync WITH wk <- process

D == INSTANCE Deletion WITH
        Subs <- Subscriptions, Value <- Worth, Captured <- Payouts,
        MaxFaults <- MaxRefundFaults, events <- ended, told <- reported, faults <- mishaps

ASSUME InvoiceAssumption /\ Y!SyncAssumption /\ D!DeletionAssumption

syncVars == <<sub, owner, events, handled, acct, lock, process, alerts, told, silent, crossed>>
deletionVars == <<exists, subs, credit, left, keys, ended, worker, mishaps,
                  due, back, listed, reported, slipped, late, odd>>

PartInit ==
    /\ part \in {"sync", "invoices", "deletion"}
    /\ Init /\ Y!Init /\ D!Init
    /\ part # "deletion" => credit = 0 /\ \A s \in Subscriptions : subs[s] = "none"
    /\ part # "sync" => acct = Y!Blank(NoOne) /\ \A s, t \in Subs : owner[s] = owner[t]

PartNext ==
    /\ UNCHANGED part
    /\ \/ part = "sync" /\ Y!Next /\ UNCHANGED <<vars, deletionVars>>
       \/ part = "invoices" /\ Next /\ UNCHANGED <<syncVars, deletionVars>>
       \/ part = "deletion" /\ D!Next /\ UNCHANGED <<vars, syncVars>>

PartSpec == PartInit /\ [][PartNext]_<<part, vars, syncVars, deletionVars>>

\* The newest payment is too small for all that goes back; for some of what
\* can be due, both are.
MCWorth == [s \in Subscriptions |-> 2]
MCPayouts == <<2, 1>>

Symmetry == Permutations(Workers) \cup Permutations(Subscriptions)

-----------------------------------------------------------------------------
(* Once the events are through the account is as Stripe has it, and its     *)
(* owner was told of the plan in force; see StripeSync.                     *)
AccountFollowsStripe == Y!QuietMeansSynced /\ Y!OwnerWasTold

(* Whoever pays has a plan, or the team knows; see StripeSync.              *)
NobodyPaysForNothing == Y!NobodyPaysForNothing

(* No subscription outlives its account unseen; see Deletion.               *)
DeletedNotCharged == D!DeletedNotCharged

(* All the money due goes back once, but for a lost cancellation's; see     *)
(* Deletion.                                                                *)
MoneyIsReturned == D!MoneyIsReturned

(* The team hears of a refund that failed; see Deletion.                    *)
RefundOrReport == D!RefundOrReport

-----------------------------------------------------------------------------
(* The rules of billing that keep no state of their own - plans and their
   page, invoice details, the catalogue at Stripe - for all inputs of a
   small bound.  Hours are counted from now, so no failed payment is at 1,
   which stands for none.  *)

R == INSTANCE BillingRules WITH
        VatRate <- 23, Mode <- "live", Never <- 1, Keys <- {"start", "pro"}, NoKey <- "none"

AccountsAtStripe ==
    [demo : BOOLEAN, guest : BOOLEAN, mode : {"live", "test"}, customer : BOOLEAN,
     status : {"", "active", "past_due"}, plan : {"free", "start", "pro", "gone"},
     interval : R!Intervals, failed : {1, -336, -335, -1}, trial : {0, 1, 720},
     tried : {"", "pro"}, profile : BOOLEAN]

PlainAccounts == {a \in AccountsAtStripe : ~a.demo /\ ~a.guest /\ a.profile}

Orders == [plan : {"free", "start", "pro", "gone"}, interval : R!Intervals, at_once : BOOLEAN]

(* The plan page agrees with itself, whoever looks at it.                   *)
ASSUME
    /\ R!PricesAgree
    /\ \A a \in AccountsAtStripe : R!ModesApart(a)
    /\ \A a \in AccountsAtStripe : \A used \in {0, 1, 2, 3, 10, 20, 249, 250, 251} :
          a.failed = 1 /\ a.mode = "live" => R!StateAgrees(a, used)
    /\ \A a \in AccountsAtStripe, order \in Orders :
          a.failed # -1 /\ a.tried = "" => R!ButtonsAgree(a, order)
    /\ \A a \in PlainAccounts, code \in R!PaidPlans, interval \in R!Intervals :
          a.trial = 0 /\ a.failed = 1 =>
              \A rest \in {1, 4, 28, 29, 30} : R!SaysWhenItCharges(a, code, interval, rest, 30)
    /\ \A codes \in [1..2 -> {"", "free", "start", "pro", "gone"}] :
          R!PickedIsTried(codes, R!NewAccount(0, FALSE))

(* A trial of thirty days that may be extended, with the task missing any   *)
(* of the days around its emails.                                           *)
ASSUME
    \A missed \in {T \cup U : T \in SUBSET (29..32), U \in {{}, {23}, 23..28}},
       extended \in {10, 24, 29, 30, 31, 40}, by \in {0, 24, 120} :
        R!TrialMailsOnce(R!NewAccount(0, FALSE), 1..40 \ missed, extended, by)

Registers ==
    {[kind |-> "found", fields |-> S] : S \in SUBSET R!CompanyFields}
        \cup {[kind |-> k, fields |-> {}] : k \in {"down", "unknown"}}

Forms == [company : BOOLEAN, typed : SUBSET R!Fields, nip_valid : BOOLEAN, post_code_ok : BOOLEAN]

(* A form that passes makes an invoice, whatever the registers know.        *)
ASSUME
    /\ \A gus \in Registers \cup {[kind |-> "closed", fields |-> {}]},
          vat \in Registers \cup {[kind |-> "invalid", fields |-> {}]}, form \in Forms :
          form.company /\ form.typed \cap {"first_name", "last_name"} = {} =>
              /\ R!InvoiceCanBeMade(form, R!Lookup(gus, vat))
              /\ R!RegisterWins(form, R!Lookup(gus, vat))
              /\ R!RegistersHelp(form, gus, vat)
    /\ \A form \in Forms : ~form.company => R!InvoiceCanBeMade(form, R!Lookup(R!Down, R!Down))
    /\ \A existing \in SUBSET {"nip", "old", "older"}, company \in BOOLEAN :
          R!TaxIdsAgree(existing, [company |-> company])

Prices == [lookup : {"start", "pro", "none"}, of : {"start", "pro"}, amount : 1..2, active : BOOLEAN]

\* What the command and the team leave: a key belongs to one price, its own.
Catalogues ==
    {c \in UNION {[1..n -> {p \in Prices : p.lookup \in {p.of, "none"}}] : n \in 0..3} :
        \A i, j \in DOMAIN c : c[i].lookup = c[j].lookup /\ c[i].lookup # "none" => i = j}

ASSUME
    /\ \A c \in Catalogues, amount \in [{"start", "pro"} -> 1..2] :
          /\ R!SetupIsSound(c, <<"start", "pro">>, amount)
          /\ R!SetupMayStop(c, <<"start", "pro">>, amount)
          /\ R!OldPricesKeepTheirPlan(c, <<"start", "pro">>, amount)
    /\ \A objects \in UNION {[1..n -> [mark : 1..2, params : 1..2]] : n \in 0..3} :
          R!EnsuredOnce(objects, 1, 2)
=============================================================================
