----------------------------- MODULE Recurring -----------------------------
(***************************************************************************)
(* One recurring request (apps/requests/recurring.py, and its pages in     *)
(* views.py).  run_due, every fifteen minutes, locks the row, sends the    *)
(* requests of the period and moves the schedule on; the pages read the    *)
(* row without a lock and save all of it.                                  *)
(***************************************************************************)
EXTENDS RecurringCalendar, Sequences

CONSTANTS
    Timings,   \* interval, month_day, weekday and workdays of schedules
    FirstDay,  \* bound: the first day
    LastDay,   \* bound: the last day
    MaxEdits   \* bound: pages that save the row, refused runs and missed days

Timing == [interval : {"daily", "weekly", "biweekly", "monthly"},
           month_day : 1..31, weekday : 0..6, workdays : BOOLEAN]

\* Years has every day the schedules are asked about: three months ahead.
RecurringAssumption ==
    /\ Timings \subseteq Timing
    /\ FirstDay \in Nat \ {0} /\ LastDay \in Nat /\ FirstDay <= LastDay
    /\ MaxEdits \in Nat
    /\ \A day \in FirstDay..(LastDay + 100) :
          \E y \in Years : BeforeYear(y) < day /\ day <= BeforeYear(y + 1)

VARIABLES
    today,     \* in the owner's time zone, from 8:00
    sched,     \* the RecurringRequest row
    page,      \* the row a page has read, before it saves it
    gone,      \* the row was deleted
    sent,      \* history: the dates that went out, until disturbed
    lastSent,  \* history: the last of them, 0 for none
    counted,   \* history: the day the calendar counts from
    edits,     \* history: pages that read the row, refused runs, missed days
    disturbed, \* history: a day without the task, an edit, a refused run
    stale      \* history: a page saved over a row changed since it read it

vars == <<today, sched, page, gone, sent, lastSent, counted, edits, disturbed, stale>>

NoPage == [doing |-> "none"]

Blank(t) == [interval |-> t.interval, month_day |-> t.month_day,
             weekday |-> t.weekday, workdays |-> t.workdays, anchor |-> 0,
             due |-> 0, run |-> 0, last |-> 0, active |-> TRUE]

\* create: with send_now the period's requests go out at once; run moves the
\* schedule on once more only if it is still in today's period.
Created(t, sendNow) ==
    LET s == Start(Blank(t), FirstDay, sendNow) IN
    IF ~sendNow THEN s
    ELSE [(IF NextPeriodStart(s, FirstDay) > s.due THEN Advance(s, FirstDay, FirstDay)
           ELSE s) EXCEPT !.last = FirstDay]

Init ==
    /\ today = FirstDay
    /\ \E t \in Timings, now \in BOOLEAN :
        /\ sched = Created(t, now)
        /\ lastSent = IF now THEN FirstDay ELSE 0
        /\ counted = IF now THEN NextPeriodStart(sched, FirstDay) ELSE FirstDay
    /\ sent = {}
    /\ page = NoPage
    /\ gone = FALSE
    /\ edits = 0
    /\ disturbed = FALSE
    /\ stale = FALSE

-----------------------------------------------------------------------------
Due == ~gone /\ sched.active /\ sched.run <= today

\* The history of an undisturbed schedule ends here.
Disturbed ==
    /\ disturbed' = TRUE
    /\ sent' = {}

\* A page takes less than a day.
Tick ==
    /\ page = NoPage
    /\ today < LastDay
    /\ today' = today + 1
    /\ IF Due THEN Disturbed /\ edits < MaxEdits /\ edits' = edits + 1
       ELSE UNCHANGED <<disturbed, sent, edits>>
    /\ UNCHANGED <<sched, page, gone, lastSent, counted, stale>>

\* _move_on and last_run_at.
MovedOn == [Advance(sched, sched.due, today) EXCEPT !.last = today]

\* run_due: create_many queues the invitations, and the row is saved.
RunDue ==
    /\ Due
    /\ sched' = MovedOn
    /\ sent' = IF disturbed THEN {} ELSE sent \cup {sched.due}
    /\ lastSent' = sched.due
    /\ UNCHANGED <<today, page, gone, counted, edits, disturbed, stale>>

\* Refused - no free places, no clients: the schedule moves on all the same,
\* and the owner is told.
Refused ==
    /\ Due
    /\ edits < MaxEdits
    /\ sched' = MovedOn
    /\ edits' = edits + 1
    /\ Disturbed
    /\ UNCHANGED <<today, page, gone, lastSent, counted, stale>>

\* recurring_toggle and recurring_edit read the row...
PageRead ==
    /\ page = NoPage
    /\ ~gone
    /\ edits < MaxEdits
    /\ page' = [doing |-> "save", copy |-> sched]
    /\ edits' = edits + 1
    /\ UNCHANGED <<today, sched, gone, sent, lastSent, counted, disturbed, stale>>

\* ... and save() every field of it, after the lock of a run at work; a row
\* that is gone is inserted again.
PageSave(s) ==
    /\ page # NoPage
    /\ sched' = s
    /\ page' = NoPage
    /\ gone' = FALSE
    /\ Disturbed
    /\ stale' = (stale \/ page.copy # sched)
    /\ UNCHANGED <<today, lastSent, counted, edits>>

Toggle ==
    /\ page # NoPage
    /\ LET s == [page.copy EXCEPT !.active = ~@] IN
       PageSave(IF s.active /\ s.run < today THEN Reschedule(s, today) ELSE s)

Timed(s, t) == [s EXCEPT !.interval = t.interval, !.month_day = t.month_day,
                         !.weekday = t.weekday, !.workdays = t.workdays]

\* Mutant of Edit: a changed timing starts today, sent already or not.
EditFresh(t) ==
    /\ page # NoPage
    /\ PageSave(Start(Timed(page.copy, t), today, FALSE))

Edit(t) ==
    /\ page # NoPage
    /\ LET s == Timed(page.copy, t) IN
       PageSave(IF s = page.copy THEN s ELSE Reschedule(s, today))

\* recurring_delete; "Wyslij teraz" (recurring_send_now) leaves the row alone.
Delete ==
    /\ ~gone
    /\ gone' = TRUE
    /\ Disturbed
    /\ UNCHANGED <<today, sched, page, lastSent, counted, edits, stale>>

Next ==
    \/ Tick \/ RunDue \/ Refused \/ PageRead \/ Toggle \/ Delete
    \/ \E t \in Timings : Edit(t)

Spec == Init /\ [][Next]_vars

-----------------------------------------------------------------------------
(* The row of a schedule and the history keep their types, and the sending  *)
(* day is never before the date it stands for.                              *)
TypeOK ==
    /\ today \in FirstDay..LastDay
    /\ sched.interval \in {"daily", "weekly", "biweekly", "monthly"}
    /\ sched.active \in BOOLEAN
    /\ sched.run >= sched.due
    /\ sent \subseteq FirstDay..today
    /\ lastSent \in {0} \cup FirstDay..today
    /\ gone \in BOOLEAN /\ disturbed \in BOOLEAN /\ stale \in BOOLEAN
    /\ edits \in 0..MaxEdits

(* "The calendar is taken seriously" (recurring.py:4-12): when the task     *)
(* runs every day and nobody touches the schedule, what went out is every   *)
(* date of the calendar whose sending day has come, no more and no fewer    *)
(* (due_on_or_after, next_period_start, sending_day, _advance).             *)
CalendarIsKept ==
    ~disturbed /\ ~Due =>
        sent = {d \in counted..today : Falls(sched, d) /\ SendingDay(sched, d) <= today}

(* "At most once per period (day, week, two weeks, month)" (recurring.py:   *)
(* 16): a run is of a later period than the run before it, edits and pauses *)
(* in between included, unless a page saved the row over such a run.        *)
OncePerPeriod ==
    [][RunDue /\ lastSent > 0 /\ ~stale =>
        lastSent' >= NextPeriodStart(sched, lastSent)]_vars

=============================================================================
