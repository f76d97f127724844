------------------------- MODULE RecurringCalendar -------------------------
(***************************************************************************)
(* The calendar of recurring requests (apps/requests/recurring.py): days   *)
(* off, and the days a schedule falls on.  A date is its ordinal, day 1    *)
(* being a Monday, the first of January of the year 1.                     *)
(***************************************************************************)
EXTENDS Integers, FiniteSets

CONSTANT Years  \* the years dates are looked for in

YearsAssumption == Years \subseteq Nat \ {0} /\ Years # {}

-----------------------------------------------------------------------------
(* Dates *)

Leap(y) == y % 4 = 0 /\ (y % 100 # 0 \/ y % 400 = 0)

MonthLength(y, m) ==
    CASE m \in {1, 3, 5, 7, 8, 10, 12} -> 31
      [] m \in {4, 6, 9, 11} -> 30
      [] m = 2 -> IF Leap(y) THEN 29 ELSE 28

BeforeYear(y) == 365 * (y - 1) + (y - 1) \div 4 - (y - 1) \div 100 + (y - 1) \div 400

BeforeMonth(y, m) ==
    <<0, 31, 59, 90, 120, 151, 181, 212, 243, 273, 304, 334>>[m]
        + (IF m > 2 /\ Leap(y) THEN 1 ELSE 0)

Date(y, m, d) == BeforeYear(y) + BeforeMonth(y, m) + d

YearOf(day) == CHOOSE y \in Years : BeforeYear(y) < day /\ day <= BeforeYear(y + 1)

MonthOf(day) ==
    LET y == YearOf(day) IN
    CHOOSE m \in 1..12 : Date(y, m, 1) <= day /\ day < Date(y, m, 1) + MonthLength(y, m)

DayOfMonth(day) == day - Date(YearOf(day), MonthOf(day), 1) + 1

\* weekday(): 0 is Monday.
Weekday(day) == (day - 1) % 7

-----------------------------------------------------------------------------
(* The Polish calendar *)

\* _easter: the Gregorian computus.
Easter(y) ==
    LET a == y % 19
        b == y \div 100
        c == y % 100
        d == b \div 4
        e == b % 4
        g == (8 * b + 13) \div 25
        h == ((19 * a) + b - d - g + 15) % 30
        i == c \div 4
        k == c % 4
        m == (32 + 2 * e + 2 * i - h - k) % 7
        n == (a + 11 * h + 22 * m) \div 451
        s == h + m - 7 * n + 114
    IN  Date(y, s \div 31, (s % 31) + 1)

Holidays(y) ==
    {Date(y, 1, 1), Date(y, 1, 6), Easter(y), Easter(y) + 1, Date(y, 5, 1),
     Date(y, 5, 3), Easter(y) + 49, Easter(y) + 60, Date(y, 8, 15),
     Date(y, 11, 1), Date(y, 11, 11), Date(y, 12, 25), Date(y, 12, 26)}
        \cup (IF y >= 2025 THEN {Date(y, 12, 24)} ELSE {})

\* Each year's days off, kept as the code keeps them (lru_cache).
DaysOff == UNION {Holidays(y) : y \in Years}

IsWorkingDay(day) == Weekday(day) < 5 /\ day \notin DaysOff

\* next_working_day: no ten days in a row are off.
NextWorkingDay(day) ==
    LET working == {d \in day..(day + 10) : IsWorkingDay(d)} IN
    CHOOSE d \in working : \A e \in working : d <= e

-----------------------------------------------------------------------------
(* A schedule s: interval, workdays, month_day, weekday and anchor *)

\* _month_day: the wanted day, or the month's last one.
MonthDay(y, m, wanted) ==
    Date(y, m, IF wanted < MonthLength(y, m) THEN wanted ELSE MonthLength(y, m))

NextMonthStart(day) ==
    Date(YearOf(day), MonthOf(day), 1) + MonthLength(YearOf(day), MonthOf(day))

WeekdayOnOrAfter(day, weekday) == day + ((weekday - Weekday(day)) % 7)

MonthlyOnOrAfter(wanted, day) ==
    LET here == MonthDay(YearOf(day), MonthOf(day), wanted)
        next == NextMonthStart(day)
    IN  IF here >= day THEN here
        ELSE MonthDay(YearOf(next), MonthOf(next), wanted)

\* due_on_or_after.
DueOnOrAfter(s, day) ==
    CASE s.interval = "daily" -> IF s.workdays THEN NextWorkingDay(day) ELSE day
      [] s.interval = "weekly" -> WeekdayOnOrAfter(day, s.weekday)
      [] s.interval = "biweekly" ->
            IF day <= s.anchor THEN s.anchor
            ELSE s.anchor + 14 * ((day - s.anchor + 13) \div 14)
      [] s.interval = "monthly" -> MonthlyOnOrAfter(s.month_day, day)

\* next_period_start.
NextPeriodStart(s, day) ==
    CASE s.interval = "daily" -> day + 1
      [] s.interval = "weekly" -> day + 7 - Weekday(day)
      [] s.interval = "biweekly" ->
            IF day < s.anchor THEN s.anchor
            ELSE s.anchor + 14 * ((day - s.anchor) \div 14 + 1)
      [] s.interval = "monthly" -> NextMonthStart(day)

\* sending_day.
SendingDay(s, due) ==
    IF s.interval # "daily" /\ s.workdays THEN NextWorkingDay(due) ELSE due

\* Mutant of SetNext: sent on the date itself, a holiday or not.
SetNextUnmoved(s, due) == [s EXCEPT !.due = due, !.run = due]

SetNext(s, due) == [s EXCEPT !.due = due, !.run = SendingDay(s, due)]

\* _advance's loop, from a due date on: dates whose sending day has come are
\* passed over.
AheadFrom(s, due, today) ==
    LET ahead[d \in {e \in Nat : e >= due}] ==
            IF SendingDay(s, d) > today THEN d
            ELSE ahead[DueOnOrAfter(s, NextPeriodStart(s, d))]
    IN  ahead[due]

\* _advance: the next period's day, and never one already gone.
Advance(s, after, today) ==
    SetNext(s, AheadFrom(s, DueOnOrAfter(s, NextPeriodStart(s, after)), today))

\* start.
Start(s, today, sendNow) ==
    IF s.interval = "biweekly"
    THEN LET anchor == WeekdayOnOrAfter(IF sendNow THEN today + 7 ELSE today, s.weekday)
         IN  SetNext([s EXCEPT !.anchor = anchor], anchor)
    ELSE SetNext(s, DueOnOrAfter(s, IF sendNow THEN NextPeriodStart(s, today) ELSE today))

\* reschedule, after a run on the day s.last, 0 for none.
Reschedule(s, today) ==
    LET recently ==
          /\ s.last > 0
          /\ IF s.interval = "biweekly" THEN today - s.last < 14
             ELSE NextPeriodStart(s, s.last) > today
    IN  Start(s, today, recently)

-----------------------------------------------------------------------------
(* What these are meant to be *)

\* The dates of a schedule, said one date at a time.
Falls(s, day) ==
    CASE s.interval = "daily" -> s.workdays => IsWorkingDay(day)
      [] s.interval = "weekly" -> Weekday(day) = s.weekday
      [] s.interval = "biweekly" -> day >= s.anchor /\ (day - s.anchor) % 14 = 0
      [] s.interval = "monthly" ->
            \/ DayOfMonth(day) = s.month_day
            \/ DayOfMonth(day) < s.month_day /\ DayOfMonth(day + 1) = 1

\* The paschal full moon of a golden number, in the years 1900 to 2199, in
\* days of March.
FullMoon == <<45, 34, 23, 42, 31, 49, 39, 28, 47, 36, 25, 44, 33, 22, 41, 30, 48, 38, 27>>

\* Easter by the Church's tables: the Sunday after the paschal full moon.
ChurchEaster(y) ==
    LET moon == Date(y, 3, 1) + FullMoon[(y % 19) + 1] - 1 IN
    moon + 7 - ((Weekday(moon) + 1) % 7)

=============================================================================
