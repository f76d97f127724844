---------------------------- MODULE BillingRules ----------------------------
(***************************************************************************)
(* The rules of billing that keep no state of their own (apps/billing).    *)
(*                                                                         *)
(* Plans and buying them (plans.py, services.py, views.py): the plan an    *)
(* account is on right now, what its plan page says and offers and where   *)
(* its buttons lead; the catalogue at Stripe.  Amounts are net grosze,     *)
(* times are hours from now.                                               *)
(*                                                                         *)
(* The details VAT invoices are made out to (forms.py, registry.py,        *)
(* gus.py, views.py): what the registers of firms know, what the buyer     *)
(* types, and what is kept and copied to Stripe.  A value is "register" or *)
(* "typed", by where it comes from.                                        *)
(***************************************************************************)
EXTENDS Integers, Sequences, FiniteSets

LOCAL INSTANCE SequencesExt

CONSTANTS
    VatRate,   \* per cent
    Mode,      \* STRIPE_MODE
    Never,     \* no time at all
    Keys,      \* lookup_key of the paid plans and intervals
    NoKey

Month == "month"
Year == "year"
Intervals == {Month, Year}

Plan(requests, templates, seats, questions, monthly, yearly) ==
    [requests |-> requests, templates |-> templates, seats |-> seats,
     questions |-> questions, price |-> [month |-> monthly, year |-> yearly]]

Plans ==
    [free |-> Plan(3, 1, 1, 20, 0, 0),
     start |-> Plan(20, 5, 2, 100, 3900, 39000),
     biuro |-> Plan(75, 20, 5, 400, 8900, 89000),
     pro |-> Plan(250, 50, 15, 1500, 17900, 179000)]

Codes == DOMAIN Plans
TrialPlan == "biuro"
TrialHours == 30 * 24
PastDueGrace == 14 * 24

IsPaid(code) == code \in Codes /\ Plans[code].price.month > 0
PaidPlans == {c \in Codes : IsPaid(c)}
Price(code, interval) == Plans[code].price[interval]

\* With VAT, rounded half up like an invoice line.
Gross(net) == (net * (100 + VatRate) + 50) \div 100

\* round(): halves go to the even number.
Rounded(a, b) ==
    LET q == a \div b  r == a % b IN
    CASE 2 * r < b -> q [] 2 * r > b -> q + 1 [] OTHER -> q + (q % 2)

-----------------------------------------------------------------------------
(* The plan in force.  An account: is it a demo, is it passwordless, the    *)
(* Stripe mode, customer, status, plan and interval stored, when its first  *)
(* failed payment was, when its trial ends and of what plan, and whether    *)
(* its invoice details are known.                                           *)

PaidStatuses == {"active", "trialing", "past_due"}

NewAccount(joined, guest) ==
    [demo |-> FALSE, guest |-> guest, mode |-> Mode, customer |-> FALSE, status |-> "",
     plan |-> "free", interval |-> "", failed |-> Never, trial |-> joined + TrialHours,
     tried |-> "", profile |-> FALSE]

WithinGrace(a) ==
    a.status = "past_due" => a.failed = Never \/ -a.failed < PastDueGrace

IsSubscribed(a) ==
    /\ a.mode = Mode
    /\ a.status \in PaidStatuses
    /\ IsPaid(a.plan)
    /\ WithinGrace(a)

HasCustomer(a) == a.mode = Mode /\ a.customer

TrialPlanOf(a) == IF IsPaid(a.tried) THEN a.tried ELSE TrialPlan

Source(a) ==
    CASE a.demo -> "demo"
      [] ~a.demo /\ IsSubscribed(a) -> "subscription"
      [] ~a.demo /\ ~IsSubscribed(a) /\ a.trial > 0 /\ ~a.guest -> "trial"
      [] OTHER -> "free"

PlanFor(a) ==
    CASE Source(a) = "demo" -> "pro"
      [] Source(a) = "subscription" -> a.plan
      [] Source(a) = "trial" -> TrialPlanOf(a)
      [] Source(a) = "free" -> "free"

\* PlanState, of an account with that many requests in progress.
State(a, used) ==
    LET limit == Plans[PlanFor(a)].requests  unlimited == Source(a) = "demo" IN
    [limit |-> limit,
     at_limit |-> ~unlimited /\ used >= limit,
     remaining |-> IF used >= limit THEN 0 ELSE limit - used,
     percent |-> CASE unlimited -> 0
                   [] ~unlimited /\ Rounded(used * 100, limit) >= 100 -> 100
                   [] OTHER -> Rounded(used * 100, limit),
     trial_days_left |-> IF Source(a) = "trial" THEN (a.trial + 23) \div 24 ELSE 0]

\* The plan picked on the way to signing up becomes the one that is tried.
RememberSignupPlan(session, code) == IF IsPaid(code) THEN code ELSE session

ApplySignupPlan(a, session) == IF IsPaid(session) THEN [a EXCEPT !.tried = session] ELSE a

-----------------------------------------------------------------------------
(* The plan page and its buttons.  An order: a plan, an interval, and the   *)
(* request to start at once.                                                *)

PaysNow(a, code, interval) ==
    /\ IsSubscribed(a) /\ ~a.demo
    /\ IF interval # a.interval THEN interval = Year
       ELSE Price(code, interval) > Price(a.plan, interval)

\* _blocked, by its reason.
Blocked(a) == CASE a.demo -> "demo" [] ~a.demo /\ a.guest -> "guest" [] OTHER -> "no"

CanBuy(a) == Blocked(a) = "no" /\ a.profile

CurrentCard(a, code) == PlanFor(a) = code /\ Source(a) \in {"subscription", "free"}

TrialCard(a, code) == code = (IF Source(a) = "trial" THEN PlanFor(a) ELSE TrialPlan)

ChoiceIsValid(order) == order.plan \in PaidPlans /\ order.interval \in Intervals

\* Where a button leads: back to the plan page with a reason, or to Stripe.
Change(a, order) ==
    CASE Blocked(a) # "no" -> Blocked(a)
      [] Blocked(a) = "no" /\ ~a.profile -> "details"
      [] CanBuy(a) /\ ~IsSubscribed(a) -> "plan"
      [] CanBuy(a) /\ IsSubscribed(a) /\ ~ChoiceIsValid(order) -> "choose"
      [] CanBuy(a) /\ IsSubscribed(a) /\ order.plan = a.plan /\ order.interval = a.interval ->
            "current"
      [] OTHER -> "stripe_change"

Checkout(a, order) ==
    CASE Blocked(a) # "no" -> Blocked(a)
      [] Blocked(a) = "no" /\ ~a.profile -> "details"
      [] CanBuy(a) /\ IsSubscribed(a) -> Change(a, order)
      [] CanBuy(a) /\ ~IsSubscribed(a) /\ ~(ChoiceIsValid(order) /\ order.at_once) -> "choose"
      [] OTHER -> "stripe_checkout"

Portal(a) ==
    CASE a.demo -> "demo"
      [] ~a.demo /\ ~HasCustomer(a) -> "never_paid"
      [] OTHER -> "stripe_portal"

-----------------------------------------------------------------------------
(* Emails about the trial *)

\* _notice_due
NoticeDue(left) ==
    CASE left <= 0 /\ left >= -72 -> "ended"
      [] left > 0 /\ left <= 24 -> "1d"
      [] left > 24 /\ left <= 7 * 24 -> "7d"
      [] OTHER -> "none"

\* What a daily run of send_trial_notices leaves of trial_notices.
Noticed(a, notices) ==
    LET due == NoticeDue(a.trial) IN
    IF a.demo \/ a.guest \/ IsSubscribed(a) \/ due \in notices \cup {"none"} THEN notices
    ELSE notices \cup {due, "7d"}

\* trial_notices after each day, of the days in ran; the team extends the
\* trial on a day.
NoticesAfter(a, ran, extended, by) ==
    LET trial(d) == a.trial - 24 * d + (IF d >= extended THEN by ELSE 0)
        after[d \in 0..40] ==
            CASE d = 0 -> {}
              [] d > 0 /\ d \in ran -> Noticed([a EXCEPT !.trial = trial(d)], after[d - 1])
              [] OTHER -> after[d - 1]
    IN  [after |-> after, due |-> [d \in 0..40 |-> NoticeDue(trial(d))]]

-----------------------------------------------------------------------------
(* A plan's page and its limits agree.  Nothing is left exactly at the      *)
(* limit; the bar is full there, and a trial that counts has a day left.    *)
StateAgrees(a, used) ==
    LET s == State(a, used) IN
    /\ Source(a) # "demo" => (s.at_limit <=> s.remaining = 0)
    /\ s.at_limit => s.percent = 100
    /\ s.percent = 0 => Source(a) = "demo" \/ 200 * used <= s.limit
    /\ Source(a) = "trial" <=> s.trial_days_left > 0

(* Nobody is taken to pay for a second subscription (views.py:250), and the *)
(* page offers what its buttons then do.                                    *)
ButtonsAgree(a, order) ==
    /\ Checkout(a, order) = "stripe_checkout" => Source(a) # "subscription"
    /\ Change(a, order) = "stripe_change" => ~CurrentCard(a, order.plan) \/ order.interval # a.interval
    /\ CanBuy(a) /\ ChoiceIsValid(order) /\ order.at_once =>
          Checkout(a, order) \in {"stripe_checkout", "stripe_change", "current"}
    /\ \E code \in Codes : CurrentCard(a, code) \/ TrialCard(a, code)

(* What the other mode's Stripe says changes nothing (services.py:67-69).   *)
ModesApart(a) ==
    a.mode # Mode =>
        \A status \in PaidStatuses, code \in Codes :
            LET b == [a EXCEPT !.status = status, !.plan = code] IN
            PlanFor(b) = PlanFor(a) /\ Source(b) = Source(a) /\ Portal(b) = Portal(a)

\* Stripe, which invoices a change at once (always_invoice): what the rest of
\* a period costs less what was paid for it; a new interval begins anew.
Charged(a, code, interval, left, whole) ==
    IF interval = a.interval
    THEN ((Price(code, interval) - Price(a.plan, interval)) * left) \div whole
    ELSE Price(code, interval) - (Price(a.plan, a.interval) * left) \div whole

(* A button that says "pay now" charges, and the others do not - but for a  *)
(* yearly plan with too little left of it to pay a month ("credited if      *)
(* monthly", views.py:64-68).                                               *)
SaysWhenItCharges(a, code, interval, left, whole) ==
    IsSubscribed(a) /\ ~a.demo /\ left > 0 /\ <<code, interval>> # <<a.plan, a.interval>> =>
        /\ PaysNow(a, code, interval) => Charged(a, code, interval, left, whole) > 0
        /\ Charged(a, code, interval, left, whole) > 0 /\ ~PaysNow(a, code, interval) =>
              /\ a.interval = Year /\ interval = Month
              /\ Price(a.plan, Year) * left < Price(code, Month) * whole

(* A dearer plan has more of everything, a year is ten months, and gross    *)
(* prices are right to the nearest grosz.                                   *)
PricesAgree ==
    \A p, q \in Codes :
        /\ Price(p, Month) < Price(q, Month) =>
              /\ Plans[p].requests < Plans[q].requests /\ Plans[p].seats < Plans[q].seats
              /\ Plans[p].templates < Plans[q].templates
              /\ Plans[p].questions < Plans[q].questions
        /\ Price(p, Year) = 10 * Price(p, Month)
        /\ \A i \in Intervals :
              LET exact == Price(p, i) * (100 + VatRate) IN
              100 * Gross(Price(p, i)) - exact \in -49..50

(* The plan picked before signing up is the one that is tried.              *)
PickedIsTried(codes, a) ==
    LET session == RememberSignupPlan(RememberSignupPlan("", codes[1]), codes[2])
        paid == {i \in 1..2 : IsPaid(codes[i])}
        last == IF paid = {} THEN TrialPlan ELSE IF 2 \in paid THEN codes[2] ELSE codes[1]
    IN  TrialPlanOf(ApplySignupPlan(a, session)) = last

(* Nobody gets an email about the trial twice, nor "a week left" after "a   *)
(* day left", whatever days the task missed and the trial extended meanwhile*)
(* (tasks.py:88).                                                           *)
TrialMailsOnce(a, ran, extended, by) ==
    LET run == NoticesAfter(a, ran, extended, by)
        mailed == {d \in 1..40 : run.after[d] # run.after[d - 1]}
    IN  \A d, e \in mailed : d < e =>
            run.due[d] # run.due[e] /\ run.due[e] # "7d"

-----------------------------------------------------------------------------
(* The prices, VAT rate and portal page at Stripe                           *)
(* (billing/management/commands/stripe_setup.py), and how a price is found  *)
(* when somebody buys and when a subscription made on it comes back         *)
(* (gateway.py: price_id, _plan_of).  Stripe lets one price have a lookup   *)
(* key: a price created with it takes it over.                              *)

\* A price: the lookup key it has, the plan and interval of its metadata, its
\* amount, and whether it is on sale.  A catalogue is the sequence of them.
NewPrice(key, amount) == [lookup |-> key, of |-> key, amount |-> amount, active |-> TRUE]

Holder(catalogue, key) == {i \in DOMAIN catalogue : catalogue[i].lookup = key}

UpToDate(catalogue, key, amount) ==
    \E i \in Holder(catalogue, key) : catalogue[i].active /\ catalogue[i].amount = amount

\* prices.create with transfer_lookup_key.
Created(catalogue, key, amount) ==
    Append([i \in DOMAIN catalogue |->
               IF i \in Holder(catalogue, key) THEN [catalogue[i] EXCEPT !.lookup = NoKey]
               ELSE catalogue[i]],
           NewPrice(key, amount))

\* The price before it goes off sale, in a request of its own.
Retired(catalogue, before) ==
    [i \in DOMAIN catalogue |->
        IF i \in before THEN [catalogue[i] EXCEPT !.active = FALSE] ELSE catalogue[i]]

\* _price
Priced(catalogue, key, amount) ==
    IF UpToDate(catalogue, key, amount) THEN catalogue
    ELSE Retired(Created(catalogue, key, amount), Holder(catalogue, key))

\* handle, of the prices in the order of keys; it may stop before the last
\* request of the n-th.
SetUp(catalogue, keys, amount) ==
    FoldLeft(LAMBDA c, key : Priced(c, key, amount[key]), catalogue, keys)

Stopped(catalogue, keys, amount, n) ==
    LET before == SetUp(catalogue, SubSeq(keys, 1, n - 1), amount) IN
    IF UpToDate(before, keys[n], amount[keys[n]]) THEN before
    ELSE Created(before, keys[n], amount[keys[n]])

\* price_ids: the prices on sale by their lookup keys.
PriceIds(catalogue, key) == {i \in Holder(catalogue, key) : catalogue[i].active}

\* _plan_of, of a subscription on a price: by its lookup key, or what its
\* metadata says.
PlanOf(price) == IF price.lookup \in Keys THEN price.lookup ELSE price.of

\* _product, _tax_rate, _portal and _webhook: found by their mark and brought
\* up to date, or made.
Ensured(objects, mark, wanted) ==
    LET found == {i \in DOMAIN objects : objects[i].mark = mark} IN
    IF found = {} THEN Append(objects, [mark |-> mark, params |-> wanted])
    ELSE LET i == CHOOSE i \in found : \A j \in found : i <= j IN
         [objects EXCEPT ![i].params = wanted]

(* After the command each plan and interval has one price on sale, of the   *)
(* right amount, and run again it makes nothing new.                        *)
SetupIsSound(catalogue, keys, amount) ==
    LET after == SetUp(catalogue, keys, amount) IN
    /\ \A key \in Keys : \E i \in DOMAIN after :
          PriceIds(after, key) = {i} /\ after[i].amount = amount[key]
    /\ SetUp(after, keys, amount) = after

(* "The same code works" (plans.py:12-15) while prices change: stopped      *)
(* anywhere, the command leaves every plan that could be bought one that    *)
(* can, and can be run again.                                               *)
SetupMayStop(catalogue, keys, amount) ==
    \A n \in DOMAIN keys :
        LET stopped == Stopped(catalogue, keys, amount, n) IN
        /\ \A key \in Keys : PriceIds(catalogue, key) # {} => PriceIds(stopped, key) # {}
        /\ SetupIsSound(stopped, keys, amount)

(* Whoever bought at a price that is off sale since stays on the plan that  *)
(* was bought (gateway.py:638-647).                                         *)
OldPricesKeepTheirPlan(catalogue, keys, amount) ==
    LET after == SetUp(catalogue, keys, amount) IN
    \A i \in DOMAIN catalogue : PlanOf(after[i]) = PlanOf(catalogue[i])

(* One object for a mark, however often the command runs.                   *)
EnsuredOnce(objects, mark, wanted) ==
    LET once == Ensured(objects, mark, wanted) IN
    /\ Ensured(once, mark, wanted) = once
    /\ \E i \in DOMAIN once : once[i] = [mark |-> mark, params |-> wanted]

-----------------------------------------------------------------------------
(* Invoice details *)

\* COMPANY_FIELDS
CompanyFields == {"company_name", "street", "post_code", "city"}
PersonFields == {"first_name", "last_name", "street", "post_code", "city"}
Fields == CompanyFields \cup PersonFields \cup {"tax_id"}

-----------------------------------------------------------------------------
(* Registers.  GUS may be down, know the firm as closed, not know it or     *)
(* know some fields; the VAT register may refuse the NIP, or know some.     *)

\* gus.lookup, from its list of entries: one with an error is skipped, the
\* first of the others is the firm.
Entries(answers) ==
    LET good == {i \in DOMAIN answers : answers[i].fields # {"error"}} IN
    IF good = {} THEN [kind |-> "unknown", fields |-> {}]
    ELSE LET i == CHOOSE i \in good : \A j \in good : i <= j IN
         IF answers[i].closed THEN [kind |-> "closed", fields |-> {}]
         ELSE [kind |-> "found", fields |-> answers[i].fields]

Down == [kind |-> "down", fields |-> {}]

\* registry.lookup: GUS, filled up from the VAT register.
Lookup(gus, vat) ==
    CASE gus.kind = "closed" -> [kind |-> "closed", fields |-> {}, source |-> ""]
      [] gus.kind # "closed" /\ vat.kind = "invalid" ->
            [kind |-> "invalid", fields |-> {}, source |-> ""]
      [] gus.kind \in {"down", "unknown"} /\ vat.kind \in {"down", "unknown"} ->
            [kind |-> "unknown", fields |-> {}, source |-> ""]
      [] OTHER -> [kind |-> "found", fields |-> gus.fields \cup vat.fields,
                   source |-> IF gus.kind = "found" THEN "GUS" ELSE "MF"]

\* The answer to the form's "fill in" button.
RegistryLookup(nipValid, allowed, found) ==
    CASE ~nipValid -> [says |-> "INVALID_NIP", locked |-> {}]
      [] nipValid /\ ~allowed -> [says |-> "RATE_LIMITED", locked |-> {}]
      [] nipValid /\ allowed /\ found.kind = "closed" -> [says |-> "FIRM_CLOSED", locked |-> {}]
      [] nipValid /\ allowed /\ found.kind = "invalid" -> [says |-> "INVALID_NIP", locked |-> {}]
      [] nipValid /\ allowed /\ found.kind = "unknown" -> [says |-> "NOT_FOUND", locked |-> {}]
      [] OTHER -> [says |-> "ok", locked |-> found.fields]

-----------------------------------------------------------------------------
(* The form: of a firm or a person, the fields typed, whether the NIP       *)
(* passes its checksum and the post code has its shape.                     *)

NipKnown(form, found) == form.nip_valid /\ found.kind \in {"found", "unknown"}

Locked(form, found) ==
    IF form.company /\ "tax_id" \in form.typed /\ NipKnown(form, found) THEN found.fields ELSE {}

\* clean and _check_nip: the fields with an error.
Errors(form, found) ==
    LET nipBad == form.company /\ ~("tax_id" \in form.typed /\ NipKnown(form, found))
        needed == CASE nipBad -> {}
                    [] ~nipBad /\ form.company -> CompanyFields \ Locked(form, found)
                    [] OTHER -> PersonFields
    IN  (IF nipBad THEN {"tax_id"} ELSE {})
        \cup (needed \ form.typed)
        \cup {n \in {"post_code"} : /\ n \in form.typed /\ n \notin Locked(form, found)
                                    /\ ~form.post_code_ok}

\* What is saved, and where each detail comes from; the other kind's details
\* are emptied.
Saved(form, found) ==
    LET locked == Locked(form, found)
        kept == form.typed \ (IF form.company THEN {"first_name", "last_name"}
                              ELSE {"company_name", "tax_id"})
    IN  [company |-> form.company,
         value |-> [n \in kept \cup locked |-> IF n \in locked THEN "register" ELSE "typed"],
         registry_fields |-> locked,
         source |-> IF form.company THEN found.source ELSE ""]

\* The whole request, and whether Stripe's customer is brought in line.
BillingProfile(blocked, allowed, form, found, customer) ==
    CASE blocked -> [says |-> "BLOCKED", saved |-> FALSE, synced |-> FALSE]
      [] ~blocked /\ form.company /\ ~allowed ->
            [says |-> "RATE_LIMITED", saved |-> FALSE, synced |-> FALSE]
      [] ~blocked /\ (form.company => allowed) /\ Errors(form, found) # {} ->
            [says |-> "errors", saved |-> FALSE, synced |-> FALSE]
      [] OTHER -> [says |-> "ok", saved |-> TRUE, synced |-> customer]

\* infakt_client: the fields an invoice is made out with.
InfaktClient(profile) ==
    {"street", "city", "post_code"}
    \cup (IF profile.company THEN {"company_name", "tax_id"} ELSE {"first_name", "last_name"})

\* sync_customer: the customer's tax ids after one request for each that is
\* not wanted and one for the wanted; it may stop after any of them.
Wanted(profile) == IF profile.company THEN {"nip"} ELSE {}

SyncTaxIds(existing, profile, done) ==
    LET others == {t \in existing : {t} # Wanted(profile)} IN
    IF Cardinality(others) >= done /\ others # {}
    THEN existing \ (CHOOSE S \in SUBSET others : Cardinality(S) = done)
    ELSE (existing \ others) \cup Wanted(profile)

-----------------------------------------------------------------------------
(* What passes the form makes an invoice: nothing it needs is empty ("so    *)
(* inFakt never gets data it would refuse", models.py:178-182), and a firm  *)
(* that closed, or a NIP nobody knows, does not pass.                       *)
InvoiceCanBeMade(form, found) ==
    (\E blocked, allowed \in BOOLEAN : BillingProfile(blocked, allowed, form, found, TRUE).saved) =>
        /\ InfaktClient(Saved(form, found)) \subseteq DOMAIN Saved(form, found).value
        /\ form.company => form.nip_valid /\ found.kind \notin {"closed", "invalid"}

(* What a register has is taken as is, "whatever the browser sent"          *)
(* (forms.py:160), and the page locks just what the form does.              *)
RegisterWins(form, found) ==
    Errors(form, found) = {} /\ form.company =>
        /\ \A n \in found.fields : Saved(form, found).value[n] = "register"
        /\ \A n \in CompanyFields \ found.fields : Saved(form, found).value[n] = "typed"
        /\ found.kind = "found" =>
              RegistryLookup(TRUE, TRUE, found).locked = Saved(form, found).registry_fields

(* A register that does not answer never stops a buyer who knows what to    *)
(* type (registry.py:6-7), and more answers never take a detail away.       *)
RegistersHelp(form, gus, vat) ==
    /\ form.company /\ form.nip_valid /\ form.post_code_ok
       /\ CompanyFields \cup {"tax_id"} \subseteq form.typed =>
          Errors(form, Lookup(Down, Down)) = {}
    /\ Lookup(gus, vat).kind = "found" =>
          /\ Lookup(gus, Down).fields \subseteq Lookup(gus, vat).fields
          /\ Lookup(Down, vat).fields \subseteq Lookup(gus, vat).fields

(* A customer never has the tax ids of two firms once all requests are      *)
(* through, and a failure on the way leaves no id that was not there.       *)
TaxIdsAgree(existing, profile) ==
    /\ SyncTaxIds(existing, profile, Cardinality(existing) + 1) = Wanted(profile)
    /\ \A done \in 0..Cardinality(existing) :
          SyncTaxIds(existing, profile, done) \subseteq existing \cup Wanted(profile)

=============================================================================
