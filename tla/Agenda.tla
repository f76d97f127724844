------------------------------- MODULE Agenda -------------------------------
(***************************************************************************)
(* The office's own memory (apps/agenda): "Przypomnij mi", the morning     *)
(* email "Na dzis" and the calendar, of one person who also works in other *)
(* accounts.  The task of every five minutes asks whether it is this       *)
(* person's 7:30 on a working day, by the time zone their last browser     *)
(* told; several workers may ask at once.  The clock is in slots, of which *)
(* a day, a date of RecurringCalendar, has SlotsADay.                      *)
(***************************************************************************)
EXTENDS RecurringCalendar, Sequences

LOCAL INSTANCE SequencesExt

CONSTANTS
    Notes,       \* PersonalReminder rows
    Accounts,    \* where the person may work
    Own,         \* the person's own account
    Workers,
    Offsets,     \* time zones, in slots from the clock's
    FirstDay,    \* bounds: the days of the clock,
    LastDay,
    MaxMoves,    \* changes of the time zone,
    MaxSwitches, \* changes of the switch and of the teams,
    MaxCrashes   \* and killed workers

SlotsADay == 3
SendAt == 1  \* the slot of 7:30

AgendaAssumption ==
    /\ Own \in Accounts
    /\ Offsets \subseteq (1 - SlotsADay)..(SlotsADay - 1)
    /\ FirstDay \in Nat /\ LastDay \in Nat /\ 1 < FirstDay /\ FirstDay <= LastDay

VARIABLES
    clock,
    zone,      \* User.timezone
    works,     \* the accounts the person works in now
    settings,  \* AgendaSettings: the switch, and the day of the last email
    note,
    hand,      \* a click on a reminder between its read and its save
    wk,        \* workers at send_due
    mornings,  \* history: emails sent for each day
    owed,      \* history: due when the day was marked, and ever since
    listed,    \* history: those of owed an email listed
    lost,      \* history: since a day was marked a worker was killed on the
               \* way, or the mail server refused the email
    moves, switches, crashes  \* bounds

vars == <<clock, zone, works, settings, note, hand, wk, mornings, owed, listed, lost,
          moves, switches, crashes>>

history == <<mornings, owed, listed, lost>>
bounds == <<moves, switches, crashes>>

Days == (FirstDay - 1)..(LastDay + 1)

DayOf(t) == t \div SlotsADay

\* state is "done" when done_at is set; by: the author is this person.
NoNote == [state |-> "none", account |-> Own, by |-> FALSE, due |-> 0]
NoHand == <<>>
Idle == [pc |-> "idle", day |-> 0]

Init ==
    /\ clock = FirstDay * SlotsADay
    /\ zone \in Offsets
    /\ works = Accounts
    /\ settings = [on |-> TRUE, sent_on |-> 0]
    /\ note = [n \in Notes |-> NoNote]
    /\ hand = NoHand
    /\ wk = [w \in Workers |-> Idle]
    /\ mornings = [d \in Days |-> 0]
    /\ owed = {} /\ listed = {} /\ lost = FALSE
    /\ moves = 0 /\ switches = 0 /\ crashes = 0

-----------------------------------------------------------------------------
(* The person, their team and time *)

\* A task of every five minutes ends within the slot it began in.
Tick ==
    /\ clock < LastDay * SlotsADay + SlotsADay - 1
    /\ \A w \in Workers : wk[w] = Idle
    /\ clock' = clock + 1
    /\ UNCHANGED <<zone, works, settings, note, hand, wk, history, bounds>>

\* The middleware saves what the browser says (common/timezones.py).
Move(o) ==
    /\ o # zone /\ moves < MaxMoves
    /\ zone' = o /\ moves' = moves + 1
    /\ UNCHANGED <<clock, works, settings, note, hand, wk, history, switches, crashes>>

\* A place in a team is given or taken, or its owner's plan changes.
ChangeTeams(S) ==
    /\ Own \in S /\ S # works /\ switches < MaxSwitches
    /\ works' = S /\ switches' = switches + 1
    /\ owed' = {n \in owed : note[n].account \in S}
    /\ UNCHANGED <<clock, zone, settings, note, hand, wk, mornings, listed, lost, moves, crashes>>

\* daily_email
Switch ==
    /\ switches < MaxSwitches /\ switches' = switches + 1
    /\ settings' = [settings EXCEPT !.on = ~@]
    /\ UNCHANGED <<clock, zone, works, note, hand, wk, history, moves, crashes>>

\* reminder_add, the person's or a colleague's, for any day.
Add(n, a, mine, d) ==
    /\ note[n] = NoNote
    /\ mine => a \in works
    /\ note' = [note EXCEPT ![n] = [state |-> "open", account |-> a, by |-> mine, due |-> d]]
    /\ UNCHANGED <<clock, zone, works, settings, hand, wk, history, bounds>>

\* reminder_done reads the row; somebody else may click at the same time.
DoneRead(n) ==
    /\ hand = NoHand /\ note[n].state \in {"open", "done"}
    /\ hand' = <<n, IF note[n].state = "open" THEN "done" ELSE "open">>
    /\ UNCHANGED <<clock, zone, works, settings, note, wk, history, bounds>>

\* The save of done_at; of a row deleted meanwhile it fails.
DoneSave ==
    /\ hand # NoHand
    /\ hand' = NoHand
    /\ LET n == hand[1] IN
       IF note[n] = NoNote THEN UNCHANGED <<note, owed>>
       ELSE /\ note' = [note EXCEPT ![n].state = hand[2]]
            /\ owed' = owed \ {n}
    /\ UNCHANGED <<clock, zone, works, settings, wk, mornings, listed, lost, bounds>>

\* reminder_delete, or its client is deleted.
Delete(n) ==
    /\ note[n] # NoNote
    /\ note' = [note EXCEPT ![n] = NoNote]
    /\ owed' = owed \ {n}
    /\ UNCHANGED <<clock, zone, works, settings, hand, wk, mornings, listed, lost, bounds>>

-----------------------------------------------------------------------------
(* The morning email: send_due *)

\* due: 7:30 has come on a working day - of the week, holidays included -
\* and that day has no email yet.
MorningCame ==
    LET local == clock + zone IN
    /\ Weekday(DayOf(local)) < 5
    /\ local % SlotsADay >= SendAt
    /\ settings.on
    /\ settings.sent_on # DayOf(local)

Ask(w) ==
    /\ wk[w] = Idle /\ MorningCame
    /\ wk' = [wk EXCEPT ![w] = [pc |-> "mark", day |-> DayOf(clock + zone)]]
    /\ UNCHANGED <<clock, zone, works, settings, note, hand, history, bounds>>

\* The day is marked before anything is sent, by one worker.
Mark(w) ==
    /\ wk[w].pc = "mark"
    /\ IF settings.sent_on = wk[w].day
       THEN /\ wk' = [wk EXCEPT ![w] = Idle]
            /\ UNCHANGED <<settings, owed, listed, lost>>
       ELSE /\ settings' = [settings EXCEPT !.sent_on = wk[w].day]
            /\ owed' = {n \in Notes : /\ note[n].state = "open" /\ note[n].by
                                      /\ note[n].account \in works
                                      /\ note[n].due <= wk[w].day}
            /\ listed' = {} /\ lost' = FALSE
            /\ wk' = [wk EXCEPT ![w].pc = "build"]
    /\ UNCHANGED <<clock, zone, works, note, hand, mornings, bounds>>

\* The reminders of all the sections: the author's, of the day and overdue.
Due(day) ==
    {n \in Notes : /\ note[n].state = "open" /\ note[n].by
                   /\ note[n].account \in works /\ note[n].due <= day}

\* build and the email; "news": some account has anything else to tell.
\* EmailService.send logs an email that failed and returns; the day stays
\* marked.
Send(w, news, refused) ==
    LET day == wk[w].day
        told == Due(day) # {} \/ news
    IN
    /\ wk[w].pc = "build"
    /\ wk' = [wk EXCEPT ![w] = Idle]
    /\ IF told /\ refused
       THEN lost' = TRUE /\ UNCHANGED <<mornings, listed>>
       ELSE /\ mornings' = IF told THEN [mornings EXCEPT ![day] = @ + 1] ELSE mornings
            /\ listed' = listed \cup Due(day)
            /\ UNCHANGED lost
    /\ UNCHANGED <<clock, zone, works, settings, note, hand, owed, bounds>>

Crash(w) ==
    /\ wk[w] # Idle /\ crashes < MaxCrashes
    /\ crashes' = crashes + 1
    /\ wk' = [wk EXCEPT ![w] = Idle]
    /\ lost' = (lost \/ wk[w].pc = "build")
    /\ UNCHANGED <<clock, zone, works, settings, note, hand, mornings, owed, listed,
                   moves, switches>>

Next ==
    \/ Tick \/ Switch \/ DoneSave
    \/ \E o \in Offsets : Move(o)
    \/ \E S \in SUBSET Accounts : ChangeTeams(S)
    \/ \E n \in Notes :
          \/ DoneRead(n) \/ Delete(n)
          \/ \E a \in Accounts, mine \in BOOLEAN, d \in FirstDay..LastDay : Add(n, a, mine, d)
    \/ \E w \in Workers : Ask(w) \/ Mark(w) \/ Crash(w) \/ \E news, refused \in BOOLEAN : Send(w, news, refused)

Spec == Init /\ [][Next]_vars

-----------------------------------------------------------------------------
(* The calendar's pages (calendar.py) and feed (ics.py) *)

SendsLookedAt == 40

LastOf(y, m) == Date(y, m, MonthLength(y, m))

\* weeks: Monday first, as many rows of seven as the month touches.
GridStart(y, m) == Date(y, m, 1) - Weekday(Date(y, m, 1))
GridEnd(y, m) == LastOf(y, m) + 6 - Weekday(LastOf(y, m))
Weeks(y, m) ==
    [w \in 1..((GridEnd(y, m) - GridStart(y, m) + 1) \div 7) |->
        [i \in 1..7 |-> GridStart(y, m) + 7 * (w - 1) + i - 1]]

\* month's "previous" and "next".
Previous(y, m) == LET d == Date(y, m, 1) - 1 IN <<YearOf(d), MonthOf(d)>>
Following(y, m) == LET d == Date(y, m, 1) + 32 IN <<YearOf(d), MonthOf(d)>>

\* recurring.upcoming
Upcoming(s, count) ==
    LET from[n \in 0..count, due \in Nat] ==
            IF n = 0 THEN <<>>
            ELSE <<SendingDay(s, due)>>
                    \o from[n - 1, DueOnOrAfter(s, NextPeriodStart(s, due))]
    IN  from[count, s.due]

\* sends: up to the first day after the last one shown.
Sends(s, start, end) ==
    LET days == Upcoming(s, SendsLookedAt)
        shown == {i \in DOMAIN days : \A j \in 1..i : days[j] <= end}
    IN  {days[i] : i \in shown} \cap (start..end)

Octets(chars) == FoldLeft(LAMBDA n, c : n + c, 0, chars)

\* _fold: a line of characters, each given by its octets; the lines after
\* the first begin with a space.
Fold(chars, line) ==
    LET Put(lines, c) ==
            LET k == Len(lines) IN
            IF Octets(lines[k]) + c > (IF k = 1 THEN line ELSE line - 1)
            THEN Append(lines, <<c>>)
            ELSE [lines EXCEPT ![k] = Append(@, c)]
    IN  IF Octets(chars) <= line THEN <<chars>> ELSE FoldLeft(Put, <<<<>>>>, chars)

\* The grid is whole weeks with every day of the month once, and the arrows
\* lead to the months next to it.
MonthIsWhole(y, m) ==
    LET cells == [i \in 1..(7 * Len(Weeks(y, m))) |-> 
                    Weeks(y, m)[((i - 1) \div 7) + 1][((i - 1) % 7) + 1]] IN
    /\ \A w \in DOMAIN Weeks(y, m), i \in 1..7 : Weekday(Weeks(y, m)[w][i]) = i - 1
    /\ \A d \in Date(y, m, 1)..LastOf(y, m) :
          Cardinality({i \in DOMAIN cells : cells[i] = d}) = 1
    /\ Len(cells) < MonthLength(y, m) + 14
    /\ Following(y, m) = <<IF m = 12 THEN y + 1 ELSE y, IF m = 12 THEN 1 ELSE m + 1>>
    /\ Previous(Following(y, m)[1], Following(y, m)[2]) = <<y, m>>

\* The page of the present month shows every day the schedule will send on.
SendsAreShown(s, y, m) ==
    Sends(s, GridStart(y, m), GridEnd(y, m)) =
        {SendingDay(s, d) : d \in {e \in s.due..GridEnd(y, m) : Falls(s, e)}}
            \cap (GridStart(y, m)..GridEnd(y, m))

\* No line of the feed is longer than allowed, and nothing is lost.
LinesFold(chars, line) ==
    LET lines == Fold(chars, line) IN
    /\ \A k \in DOMAIN lines : Octets(lines[k]) + (IF k = 1 THEN 0 ELSE 1) <= line
    /\ FlattenSeq(lines) = chars

-----------------------------------------------------------------------------
(* Properties *)

\* The rows of the tables.
TypeOK ==
    /\ zone \in Offsets /\ Own \in works
    /\ settings.on \in BOOLEAN /\ settings.sent_on \in Days \cup {0}
    /\ \A n \in Notes : note[n].state \in {"none", "open", "done"}
    /\ \A w \in Workers : wk[w].pc \in {"idle", "mark", "build"}

\* "Marked first: a second worker, or a failure below, sends nothing twice"
\* (digest.py): a day has one email whatever the workers do.  Only the last
\* day is remembered, so a time zone that changed over midnight may make more.
OneMorningEmail == moves = 0 => \A d \in Days : mornings[d] <= 1

\* What was due when the day was marked and has been since - also since the
\* weekend - is in the email, unless a worker was killed on the way or the
\* mail server refused the email: the day is marked, and nothing tries again.
DueIsListed ==
    \/ lost
    \/ \E w \in Workers : wk[w].pc = "build"
    \/ owed \subseteq listed

=============================================================================
