----------------------------- MODULE Reminders -----------------------------
(***************************************************************************)
(* The reminders of one request (apps/reminders/services.py, schedule.py): *)
(* automatic ones counted from the last, one two days before the deadline  *)
(* and one on its day, sent by a task of every few minutes under the       *)
(* request's row lock; manual ones, sent by the sender without a lock; and *)
(* the list of planned reminders the sender is shown.                      *)
(*                                                                         *)
(* Time runs in slots of eight hours: a day is three, RECENT (20 hours)    *)
(* two, DEADLINE_WINDOW (12 hours) less than two, and the hour's cooldown  *)
(* of manual reminders is their own slot.                                  *)
(***************************************************************************)
EXTENDS Naturals, Sequences, FiniteSets

CONSTANTS
    Workers,     \* Celery workers
    Senders,     \* web processes of the sender
    Settings,    \* the requests: their schedule, see Request
    MaxTime,     \* bound: the clock
    MaxChanges,  \* bound: closing, completing, switching reminders
    MaxManual,   \* bound: manual reminders
    MaxCrashes   \* bound: killed workers

Day == 3
Recent == 2
Window == 2
DaysBefore == 2

\* created: a slot of the first day; clock: the slot of the day reminders go
\* out; day: the deadline's day, 0 for none.
Request == [created : 0..2, clock : 1..2, first : Nat, every : Nat \ {0},
            limit : Nat, day : Nat]

SettingsAssumption ==
    /\ Settings \subseteq Request
    /\ IsFiniteSet(Workers) /\ IsFiniteSet(Senders)
    /\ Workers \cap Senders = {}
    /\ MaxTime \in Nat /\ MaxChanges \in Nat
    /\ MaxManual \in Nat /\ MaxCrashes \in Nat

VARIABLES
    req,      \* the request's settings
    now,
    state,    \* "waiting" for documents, "complete" or "closed"
    enabled,  \* reminders_enabled
    sent,     \* the Reminder rows, in order
    wk,       \* workers and senders between their statements
    plan,     \* what the sender was shown when something last changed
    mails,    \* history: the slots of the scheduled reminders' emails
    changes,
    crashes

vars == <<req, now, state, enabled, sent, wk, plan, mails, changes, crashes>>

Scheduled == {"automatic", "before", "on_day"}

Reminder == [kind : Scheduled \cup {"manual"}, at : Nat]

Idle == "idle"

-----------------------------------------------------------------------------
(* The schedule *)

Later(s, t) == IF s > t THEN s ELSE t
Sooner(s, t) == IF s < t THEN s ELSE t
DayOf(t) == t \div Day

Times(rows, kinds) == {rows[i].at : i \in {j \in DOMAIN rows : rows[j].kind \in kinds}}

Number(rows, kind) == Cardinality({i \in DOMAIN rows : rows[i].kind = kind})

\* _at_clock: so many days after a moment, at the clock of request r.
AtClock(r, base, days) == (DayOf(base) + days) * Day + r.clock

\* due_dates: the next automatic one, from the last of Interval's reminders.
Interval == Scheduled

NextDue(r, anchors) ==
    IF anchors = {} THEN AtClock(r, r.created, r.first)
    ELSE AtClock(r, CHOOSE t \in anchors : \A s \in anchors : s <= t, r.every)

Deadline(r) == (r.day + 1) * Day

\* deadline_dates: none without a deadline.
DeadlineKinds(r) == IF r.day = 0 THEN {} ELSE {"before", "on_day"}

DeadlineDue(r, kind) ==
    (r.day - (IF kind = "before" THEN DaysBefore ELSE 0)) * Day + r.clock

WindowEnd(r, kind) == Sooner(DeadlineDue(r, kind) + Window, Deadline(r))

\* Right after another reminder, or the request itself.
IsRecent(r, kind, last) == last + Recent >= DeadlineDue(r, kind)

LastOf(r, rows) == {r.created} \cup {rows[i].at : i \in DOMAIN rows}

-----------------------------------------------------------------------------
(* What the two services send at a moment t, after so many rows *)

Remindable == enabled /\ state = "waiting"

\* Mutant of DeadlineDueAt: only reminders before the deadline are "recent".
DeadlineDueAlways(r, t, rows) ==
    {k \in DeadlineKinds(r) :
        /\ Number(rows, k) = 0
        /\ DeadlineDue(r, k) <= t
        /\ t < WindowEnd(r, k)}

\* DeadlineReminderService.maybe_send_for_request.
DeadlineDueAt(r, t, rows) ==
    {k \in DeadlineKinds(r) :
        /\ Number(rows, k) = 0
        /\ DeadlineDue(r, k) <= t
        /\ t < WindowEnd(r, k)
        /\ \A s \in LastOf(r, rows) : ~IsRecent(r, k, s)}

\* AutomaticReminderService.maybe_send_for_request.
AutomaticDueAt(r, t, rows) ==
    /\ Number(rows, "automatic") < r.limit
    /\ t >= NextDue(r, Times(rows, Interval))

\* The deadline's come first.
First(kinds) == IF "before" \in kinds THEN "before" ELSE "on_day"

\* send_automatic_reminders: the deadline's, then the interval's.
DueAt(r, t, rows) ==
    CASE DeadlineDueAt(r, t, rows) # {} -> First(DeadlineDueAt(r, t, rows))
      [] DeadlineDueAt(r, t, rows) = {} /\ AutomaticDueAt(r, t, rows) -> "automatic"
      [] OTHER -> "none"

DueNow == IF Remindable THEN DueAt(req, now, sent) ELSE "none"

-----------------------------------------------------------------------------
(* ReminderScheduleService.planned *)

\* Where its loop is: the deadline's reminders still to pass, the next
\* automatic one, how many of those are left, and the last reminder of all.
Loop(r) == [pending : SUBSET {"before", "on_day"}, next : Nat, left : 0..r.limit, last : Nat]

\* One round, at y and at the moment t; rest is what the rounds after it plan.
Round(r, t, rest, y) ==
    LET k == First(y.pending)
        due == Later(DeadlineDue(r, k), t)
        automatic == Later(y.next, t)
        passed == [y EXCEPT !.pending = @ \ {k}]
        Goes(kind, at, z) ==
            <<[kind |-> kind, at |-> at]>>
              \o rest[[z EXCEPT !.next = AtClock(r, at, r.every), !.last = at]]
    IN  IF y.pending # {} /\ (y.left = 0 \/ due <= automatic)
        THEN IF IsRecent(r, k, y.last) THEN rest[passed] ELSE Goes(k, due, passed)
        ELSE IF y.left > 0
             THEN Goes("automatic", automatic, [y EXCEPT !.left = @ - 1])
             ELSE <<>>

\* The loop, from x on.
PlanFrom(r, t, x) ==
    LET rounds[y \in Loop(r)] == Round(r, t, rounds, y) IN rounds[x]

\* What is past its window drops out of the loop in every round; no round
\* changes what is.
LoopStart(r, t, rows) ==
    [pending |-> {k \in DeadlineKinds(r) :
                    /\ Number(rows, k) = 0
                    /\ Later(DeadlineDue(r, k), t) < WindowEnd(r, k)},
     next |-> NextDue(r, Times(rows, Interval)),
     left |-> IF Number(rows, "automatic") < r.limit
              THEN r.limit - Number(rows, "automatic") ELSE 0,
     last |-> CHOOSE s \in LastOf(r, rows) : \A u \in LastOf(r, rows) : u <= s]

PlannedAt(r, t, rows) == PlanFrom(r, t, LoopStart(r, t, rows))

Planned == IF Remindable THEN PlannedAt(req, now, sent) ELSE <<>>

-----------------------------------------------------------------------------
Init ==
    /\ req \in Settings
    /\ now = req.created
    /\ state = "waiting"
    /\ enabled = TRUE
    /\ sent = <<>>
    /\ wk = [p \in Workers \cup Senders |-> Idle]
    /\ plan = PlannedAt(req, req.created, <<>>)
    /\ mails = <<>>
    /\ changes = 0
    /\ crashes = 0

\* The plan changes by itself only when a reminder is late.
Tick ==
    /\ now < MaxTime
    /\ now' = now + 1
    /\ UNCHANGED <<req, state, enabled, sent, wk, mails, changes, crashes>>
    /\ plan' = IF DueNow = "none" THEN plan ELSE Planned'

\* Documents come or are rejected, the sender closes and reopens, or switches
\* the reminders.
Change ==
    /\ changes < MaxChanges
    /\ changes' = changes + 1
    /\ \/ state' \in {"waiting", "complete", "closed"} \ {state} /\ UNCHANGED enabled
       \/ enabled' = ~enabled /\ UNCHANGED state
    /\ UNCHANGED <<req, now, sent, wk, mails, crashes>>
    /\ plan' = Planned'

\* Mutant of Take: the request's row is read without select_for_update.
TakeUnlocked(w) ==
    /\ wk[w] = Idle
    /\ DueNow # "none"
    /\ wk' = [wk EXCEPT ![w] = DueNow]
    /\ UNCHANGED <<req, now, state, enabled, sent, plan, mails, changes, crashes>>

\* The row is locked, and everything read again.
Take(w) ==
    /\ wk[w] = Idle
    /\ \A v \in Workers : wk[v] = Idle
    /\ DueNow # "none"
    /\ wk' = [wk EXCEPT ![w] = DueNow]
    /\ UNCHANGED <<req, now, state, enabled, sent, plan, mails, changes, crashes>>

AsPlanned(w) == plan # <<>> /\ Head(plan) = [kind |-> wk[w], at |-> now]

\* The reminder's row and its email, and the commit.
Send(w) ==
    /\ wk[w] # Idle
    /\ sent' = Append(sent, [kind |-> wk[w], at |-> now])
    /\ mails' = Append(mails, now)
    /\ wk' = [wk EXCEPT ![w] = Idle]
    /\ UNCHANGED <<req, now, state, enabled, changes, crashes>>
    /\ plan' = IF AsPlanned(w) THEN Tail(plan) ELSE Planned'

\* Killed after the email and before the commit: the row is rolled back.
Crash(w) ==
    /\ wk[w] # Idle
    /\ crashes < MaxCrashes
    /\ crashes' = crashes + 1
    /\ mails' = Append(mails, now)
    /\ wk' = [wk EXCEPT ![w] = Idle]
    /\ UNCHANGED <<req, now, state, enabled, sent, plan, changes>>

ManualsBegun ==
    Number(sent, "manual") + Cardinality({p \in Senders : wk[p] # Idle})

\* send_manual: nothing was sent within MANUAL_REMINDER_COOLDOWN.
ManualCheck(p) ==
    /\ wk[p] = Idle
    /\ state = "waiting"
    /\ ManualsBegun < MaxManual
    /\ now \notin Times(sent, Scheduled \cup {"manual"})
    /\ wk' = [wk EXCEPT ![p] = "manual"]
    /\ UNCHANGED <<req, now, state, enabled, sent, plan, mails, changes, crashes>>

\* send_combined: one email about several requests of a client; a request
\* completed since the list was read is not looked at again.
CombinedCheck(p) ==
    /\ wk[p] = Idle
    /\ state # "closed"
    /\ ManualsBegun < MaxManual
    /\ now \notin Times(sent, Scheduled \cup {"manual"})
    /\ wk' = [wk EXCEPT ![p] = "manual"]
    /\ UNCHANGED <<req, now, state, enabled, sent, plan, mails, changes, crashes>>

ManualSend(p) ==
    /\ wk[p] = "manual"
    /\ sent' = Append(sent, [kind |-> "manual", at |-> now])
    /\ wk' = [wk EXCEPT ![p] = Idle]
    /\ UNCHANGED <<req, now, state, enabled, mails, changes, crashes>>
    /\ plan' = Planned'

Next ==
    \/ Tick \/ Change
    \/ \E w \in Workers : Take(w) \/ Send(w) \/ Crash(w)
    \/ \E p \in Senders : ManualCheck(p) \/ CombinedCheck(p) \/ ManualSend(p)

Spec == Init /\ [][Next]_vars

-----------------------------------------------------------------------------
TypeOK ==
    /\ req \in Settings
    /\ now \in 0..MaxTime
    /\ state \in {"waiting", "complete", "closed"}
    /\ enabled \in BOOLEAN
    /\ sent \in Seq(Reminder)
    /\ wk \in [Workers \cup Senders -> Scheduled \cup {"manual", Idle}]
    /\ plan \in Seq(Reminder)
    /\ mails \in Seq(Nat)
    /\ changes \in 0..MaxChanges
    /\ crashes \in 0..MaxCrashes

(* "Upcoming reminders as the senders above will send them" (services.py:   *)
(* ReminderScheduleService): as long as nobody changes anything and the     *)
(* task is not late, the plan shown is the one that comes true, and the     *)
(* task sends exactly what the plan has for now.                            *)
PlanComesTrue ==
    (\A p \in DOMAIN wk : wk[p] = Idle) =>
        /\ plan = Planned
        /\ IF DueNow = "none" THEN \A i \in DOMAIN plan : plan[i].at > now
           ELSE plan # <<>> /\ Head(plan) = [kind |-> DueNow, at |-> now]

(* "so the two never land on the same day" (schedule.py:13): a client gets  *)
(* one scheduled reminder a day, and one more for each worker killed        *)
(* between the email and the commit.                                        *)
OneReminderADay ==
    \A i \in DOMAIN mails :
        Cardinality({j \in DOMAIN mails : DayOf(mails[j]) = DayOf(mails[i])})
            <= 1 + crashes

(* "One manual reminder an hour": clicks at once send at most one for each  *)
(* web process, since the cooldown is checked without a lock                *)
(* (services.py:46-61).                                                     *)
ManualCooldown ==
    \A t \in Times(sent, {"manual"}) :
        Cardinality({i \in DOMAIN sent : sent[i] = [kind |-> "manual", at |-> t]})
            <= Cardinality(Senders)

=============================================================================
