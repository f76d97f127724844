----------------------------- MODULE RequestForms -----------------------------
(***************************************************************************)
(* What the forms of a request make of what was posted                     *)
(* (apps/requests/forms.py): reminders and file keeping, the deadline, the *)
(* name, the recipients, and what a template keeps of a form and fills in  *)
(* again (request_templates.py, views.py).  A day is a date of             *)
(* RecurringCalendar; a deadline is the end of its day.                    *)
(***************************************************************************)
EXTENDS RecurringCalendar, Sequences

LOCAL INSTANCE SequencesExt

CONSTANTS
    None,            \* an empty value
    MaxNewClients    \* MAX_NEW_CLIENTS

ValueOr(value, default) == IF value = None THEN default ELSE value

-----------------------------------------------------------------------------
(* Reminders: a rhythm is <<first after, every, how many>>.                 *)

Presets == [gentle |-> <<3, 5, 2>>, standard |-> <<2, 3, 3>>, frequent |-> <<1, 2, 5>>]

ReminderPresetOf(settings) ==
    LET matching == {p \in DOMAIN Presets : Presets[p] = settings.rhythm} IN
    CASE ~settings.on -> "off"
      [] settings.on /\ matching = {} -> "custom"
      [] OTHER -> CHOOSE p \in matching : TRUE

CustomReminders(form) ==
    [on |-> form.enabled, rhythm |-> [i \in 1..3 |-> ValueOr(form.rhythm[i], Presets.standard[i])]]

ReminderSettings(form) ==
    CASE form.preset = "off" -> [on |-> FALSE, rhythm |-> Presets.standard]
      [] form.preset \in DOMAIN Presets -> [on |-> TRUE, rhythm |-> Presets[form.preset]]
      [] form.preset = "custom" -> [CustomReminders(form) EXCEPT !.on = TRUE]
      [] OTHER -> CustomReminders(form)

\* QuestionForm's, without rhythms of one's own.
QuestionReminders(preset) ==
    [on |-> preset # "off",
     rhythm |-> IF preset \in DOMAIN Presets THEN Presets[preset] ELSE Presets.standard]

\* What a form starts with, of a request's or a template's settings.
ReminderInitial(settings) ==
    [preset |-> ReminderPresetOf(settings), enabled |-> settings.on, rhythm |-> settings.rhythm]

\* File keeping: a choice among the presets, or a typed number of days.
RetentionPresets == {30, 90, 180, 365}
MaxRetentionDays == 365

RetentionInitial(days) ==
    IF days \in RetentionPresets THEN [custom |-> FALSE, picked |-> days, typed |-> None]
    ELSE [custom |-> TRUE, picked |-> None, typed |-> days]

RetentionErrors(form) ==
    IF form.typed = None THEN form.custom ELSE form.typed \notin 1..MaxRetentionDays

RetentionDays(form) == IF form.custom THEN form.typed ELSE ValueOr(form.picked, 90)

-----------------------------------------------------------------------------
(* The deadline: a choice, a typed date and a typed number of days.         *)

DeadlineDay == 10

ChoiceDays == {<<"3", 3>>, <<"7", 7>>, <<"14", 14>>}
DaysOf(choice) == (CHOOSE c \in ChoiceDays : c[1] = choice)[2]

\* next_month_day of the form: the month after starts 32 days after this
\* month's first.
NextMonthDay(after, day) ==
    LET first == Date(YearOf(after), MonthOf(after), 1)
        candidate == first + day - 1
        later == first + 32
    IN  IF candidate <= after THEN Date(YearOf(later), MonthOf(later), day) ELSE candidate

\* _deadline_choice of a request sent once.
OnceDeadline(form, today) ==
    CASE form.choice \in {"7", "14"} -> today + DaysOf(form.choice)
      [] form.choice = "day10" -> NextMonthDay(today, DeadlineDay)
      [] form.choice = "none" -> None
      [] OTHER -> form.date

\* ... and of one sent again and again: days, or a day of the month.
RecurringDeadline(form) ==
    CASE form.choice \in {"7", "14"} -> [days |-> DaysOf(form.choice), month_day |-> None]
      [] form.choice = "day10" -> [days |-> None, month_day |-> DeadlineDay]
      [] form.choice = "none" -> [days |-> None, month_day |-> None]
      [] OTHER -> [days |-> form.days, month_day |-> None]

MaxDeadlineDays == 90

\* Fields in error; the number of days is looked at in either kind.
DeadlineErrors(form) ==
    {f \in {"deadline_days"} : \/ form.days # None /\ form.days \notin 1..MaxDeadlineDays
                               \/ form.recurring /\ form.choice = "days" /\ form.days = None}
    \cup {f \in {"deadline"} : ~form.recurring /\ form.choice = "date" /\ form.date = None}

\* recurring.py: next_month_day and _deadline, at a sending.
NextWantedDay(after, wanted) ==
    LET candidate == MonthDay(YearOf(after), MonthOf(after), wanted)
        start == NextMonthStart(after)
    IN  IF candidate <= after THEN MonthDay(YearOf(start), MonthOf(start), wanted) ELSE candidate

DeadlineOf(schedule, day) ==
    CASE schedule.month_day # None -> NextWantedDay(day, schedule.month_day)
      [] schedule.month_day = None /\ schedule.days # None -> day + schedule.days
      [] OTHER -> None

\* PublicRequestForm.clean: a date posted without a button counts as picked.
PublicDeadline(form, today) ==
    LET choice == IF form.choice # "" THEN form.choice
                  ELSE IF form.date # None THEN "date" ELSE "14"
    IN  [error |-> choice \notin {"7", "14", "none"} /\ form.date = None,
         day |-> CASE choice \in {"7", "14"} -> today + DaysOf(choice)
                   [] choice = "none" -> None
                   [] OTHER -> form.date]

\* QuestionForm.clean
QuestionDeadline(form, today) ==
    [error |-> form.choice = "date" /\ (IF form.date = None THEN TRUE ELSE form.date < today),
     day |-> CASE form.choice \in {"3", "7", "14"} -> today + DaysOf(form.choice)
               [] form.choice = "date" -> form.date
               [] OTHER -> None]

\* clean_timing and timing; "" is an interval that was not posted.
Interval(form) == IF form.interval = "" THEN "monthly" ELSE form.interval
OnWeekday(form) == Interval(form) \in {"weekly", "biweekly"}

TimingErrors(form) ==
    {f \in {"month_day"} : Interval(form) = "monthly" /\ form.month_day = None}
    \cup {f \in {"weekday"} : OnWeekday(form) /\ form.weekday = None}

Timing(form) ==
    [interval |-> Interval(form), workdays |-> form.workdays,
     month_day |-> IF Interval(form) = "monthly" THEN form.month_day ELSE None,
     weekday |-> IF OnWeekday(form) THEN form.weekday ELSE None]

-----------------------------------------------------------------------------
(* The name: the tokens {"month", "date"} in it, and what they become.      *)

MonthLabel(day) ==
    LET previous == Date(YearOf(day), MonthOf(day), 1) - 1 IN
    <<YearOf(previous), MonthOf(previous)>>

RenderName(tokens, month, date) ==
    [month |-> IF "month" \in tokens THEN MonthLabel(month) ELSE <<>>,
     date |-> IF "date" \in tokens THEN date ELSE None]

\* _name_tokens, of a request sent once.
NameTokens(tokens, deadline, today) == RenderName(tokens, ValueOr(deadline, today), today)

-----------------------------------------------------------------------------
(* Recipients.  An address is <<who, how it is written>>; a typed row has a *)
(* name and an address, which may be None or not an address at all.         *)

Lower(address) == address[1]
Usable(row) == row.email # None /\ row.valid

\* _new_clients: the same address once, the first row of it.
NewClients(rows) ==
    LET first == {i \in DOMAIN rows :
                     /\ Usable(rows[i])
                     /\ \A j \in 1..(i - 1) :
                           Usable(rows[j]) => Lower(rows[j].email) # Lower(rows[i].email)}
    IN  [found |-> [k \in 1..Cardinality(first) |->
                       rows[CHOOSE i \in first : Cardinality({j \in first : j <= i}) = k]],
         error |-> \/ \E i \in DOMAIN rows : (rows[i].named \/ rows[i].email # None) /\ ~Usable(rows[i])
                   \/ Cardinality(first) > MaxNewClients]

\* _recipients: clients picked, the single picked one, rows typed in and the
\* single typed one; clients are their addresses.
RecipientsOf(form) ==
    LET picked == IF form.client = None \/ Contains(form.clients, form.client) THEN form.clients
                  ELSE Append(form.clients, form.client)
        typed == NewClients(form.rows)
        single == form.single # None
                  /\ \A i \in DOMAIN typed.found : Lower(typed.found[i].email) # Lower(form.single)
        rows == [i \in DOMAIN typed.found |-> typed.found[i].email]
                  \o (IF single THEN <<form.single>> ELSE <<>>)
        Unknown(e) == \A i \in DOMAIN picked : Lower(picked[i]) # Lower(e)
        new == SelectSeq(rows, Unknown)
    IN  [picked |-> picked, new |-> new, count |-> Len(picked) + Len(new),
         error |-> typed.error \/ Len(picked) + Len(new) = 0]

-----------------------------------------------------------------------------
(* Templates.  An account's own one keeps a deadline as a choice of these.  *)

TemplateChoices == {"7", "14", "day10", "days", "none"}
MaxTemplateDays == 365

\* RequestTemplateForm.clean
TemplateFormErrors(form) ==
    {f \in {"deadline_days"} : \/ form.choice = "days" /\ form.days = None
                               \/ form.days # None /\ form.days \notin 1..MaxTemplateDays}

\* RequestForm.template_values: a date becomes days from today.
TemplateValues(form, today) ==
    LET date == IF form.recurring THEN None ELSE OnceDeadline(form, today)
        choice == IF form.choice = "" THEN "none" ELSE form.choice
        ahead == IF date = None \/ date <= today THEN 1 ELSE date - today
    IN  IF choice = "date" /\ date # None THEN [choice |-> "days", days |-> ahead]
        ELSE [choice |-> choice,
              days |-> IF form.recurring THEN RecurringDeadline(form).days ELSE form.days]

\* save: the deadline it stores.
SavedDeadline(values) ==
    LET choice == IF values.choice \in TemplateChoices THEN values.choice ELSE "14" IN
    [choice |-> choice, days |-> IF choice = "days" THEN values.days ELSE None]

SaveError(values) == SavedDeadline(values).choice = "days" /\ values.days = None

\* from_request
DeadlineOfRequest(created, deadline) ==
    CASE deadline = None -> [choice |-> "none", days |-> None]
      [] deadline # None /\ deadline - created = 7 -> [choice |-> "7", days |-> None]
      [] deadline # None /\ deadline - created = 14 -> [choice |-> "14", days |-> None]
      [] deadline # None /\ deadline - created \notin {7, 14} /\ deadline > created ->
            [choice |-> "days",
             days |-> IF deadline - created < MaxTemplateDays THEN deadline - created
                      ELSE MaxTemplateDays]
      [] OTHER -> [choice |-> "none", days |-> None]

\* form_values: days become a date, and stay for a recurring request.
FormValues(template, today) ==
    IF template.choice = "days"
    THEN [choice |-> "date", date |-> today + template.days, days |-> template.days,
          recurring |-> FALSE]
    ELSE [choice |-> template.choice, date |-> None, days |-> 10, recurring |-> FALSE]

\* check_title_free and free_title; a title is <<text, how it is written,
\* its number>>, the number 1 of "title" itself.
SameTitle(a, b) == a[1] = b[1] /\ a[3] = b[3]
TitleFree(titles, title) == \A t \in titles : ~SameTitle(t, title)

FreeTitle(titles, title) ==
    LET free == {n \in 1..(Cardinality(titles) + 1) : TitleFree(titles, <<title[1], title[2], n>>)} IN
    <<title[1], title[2], CHOOSE n \in free : \A m \in free : n <= m>>

\* suggested_items: what the owner asks for most, then the usual.
Suggested(own, common, size) ==
    LET all == own \o common
        first == SelectSeq([i \in DOMAIN all |-> <<i, all[i]>>],
                     LAMBDA p : \A j \in 1..(p[1] - 1) : Lower(all[j]) # Lower(p[2]))
    IN  [i \in 1..(IF Len(first) < size THEN Len(first) ELSE size) |-> first[i][2]]

-----------------------------------------------------------------------------
(* Opening a form and sending it as it is changes no setting - but the      *)
(* rhythm of reminders that are off.                                        *)
SettingsSurvive(settings, days) ==
    /\ ReminderSettings(ReminderInitial(settings)).on = settings.on
    /\ settings.on => ReminderSettings(ReminderInitial(settings)) = settings
    /\ ~RetentionErrors(RetentionInitial(days)) /\ RetentionDays(RetentionInitial(days)) = days

(* The same button sets the same deadline once and again and again, with    *)
(* its month's code of its own in either, and always a day ahead.           *)
ButtonsAgreeOnDay(choice, today) ==
    LET form == [choice |-> choice, date |-> None, days |-> 10, recurring |-> FALSE] IN
    /\ OnceDeadline(form, today) = DeadlineOf(RecurringDeadline(form), today)
    /\ choice # "none" => OnceDeadline(form, today) \in (today + 1)..(today + 31)

(* "Due 10 November: October's documents" (recurring.py:228): the month in  *)
(* a name is over before the deadline, and by no more than a month.         *)
MonthIsOver(deadline, today) ==
    LET label == NameTokens({"month"}, deadline, today).month
        due == ValueOr(deadline, today)
        end == Date(label[1], label[2], 1) + MonthLength(label[1], label[2]) - 1
    IN  end < due /\ due - end <= 31

(* Nobody gets a request twice, and everybody whose address could be read   *)
(* gets it (forms.py:458-491).                                              *)
EachOnce(form) ==
    LET r == RecipientsOf(form)
        all == r.picked \o r.new
        asked == {Lower(form.rows[i].email) : i \in {j \in DOMAIN form.rows : Usable(form.rows[j])}}
                 \cup {Lower(form.clients[i]) : i \in DOMAIN form.clients}
                 \cup {Lower(e) : e \in {form.single, form.client} \ {None}}
    IN  /\ {Lower(all[i]) : i \in DOMAIN all} = asked
        /\ IsInjective([i \in DOMAIN all |-> Lower(all[i])])

(* A template brings back the deadline of the form it was saved from, on    *)
(* the same day - but a day that is past, and more days than the form takes *)
(* (90 of the template's 365: the request is then refused until the hidden  *)
(* number is changed).                                                      *)
DeadlineComesBack(form, today) ==
    LET template == SavedDeadline(TemplateValues(form, today))
        again == FormValues(template, today)
        before == OnceDeadline(form, today)
    IN  DeadlineErrors(form) = {} /\ form.choice \in {"7", "14", "day10", "date", "none"} =>
            /\ ~SaveError(TemplateValues(form, today))
            /\ before = None \/ before > today => OnceDeadline(again, today) = before
            /\ (template.days = None \/ template.days \in 1..MaxDeadlineDays)
                  <=> DeadlineErrors(again) = {}

(* A template of a sent request asks for as many days as the request gave.  *)
DaysComeBack(created, deadline, today) ==
    LET again == FormValues(SavedDeadline(DeadlineOfRequest(created, deadline)), today) IN
    deadline > created /\ deadline - created <= MaxTemplateDays =>
        OnceDeadline(again, today) - today = deadline - created

(* The same button means the same on every form: the public one and that of *)
(* a question set the deadline and the rhythm the office's would, and no    *)
(* question is due before it is asked.  A template keeps its days.          *)
FormsAgree(form, preset, today) ==
    LET public == PublicDeadline(form, today)
        question == QuestionDeadline(form, today)
        office == OnceDeadline(form, today)
        chosen == [preset |-> preset, enabled |-> TRUE, rhythm |-> Presets.standard]
    IN  /\ form.choice \in {"7", "14", "none", "date"} =>
              /\ ~public.error => public.day = office
              /\ public.error <=> DeadlineErrors([form EXCEPT !.days = None]) # {}
              /\ ~question.error => question.day = office
        /\ ~question.error => question.day = None \/ question.day >= today
        /\ QuestionReminders(preset) = ReminderSettings(chosen)
        /\ TemplateFormErrors(form) = {} => ~SaveError([choice |-> form.choice, days |-> form.days])

(* A timing that passes has a next day, within a month, with the day of the *)
(* month or of the week it asks for.                                        *)
TimingHasNextDay(form, today) ==
    TimingErrors(form) = {} =>
        LET timing == Timing(form)
            anchor == IF OnWeekday(form) THEN WeekdayOnOrAfter(today, timing.weekday) ELSE today
            next == DueOnOrAfter([interval |-> timing.interval, workdays |-> timing.workdays,
                                  month_day |-> timing.month_day, weekday |-> timing.weekday,
                                  anchor |-> anchor], today)
        IN  /\ next \in today..(today + 31)
            /\ timing.weekday # None => Weekday(next) = timing.weekday
            /\ timing.month_day # None =>
                  \/ DayOfMonth(next) = timing.month_day
                  \/ DayOfMonth(next + 1) = 1 /\ DayOfMonth(next) < timing.month_day

(* A title made up is nobody else's, and a copy of a copy has the next      *)
(* number.                                                                  *)
TitleIsFree(titles, title) ==
    LET free == FreeTitle(titles, title) IN
    /\ TitleFree(titles, free)
    /\ \A n \in 1..(free[3] - 1) : ~TitleFree(titles, <<title[1], title[2], n>>)

(* Suggestions are different, the owner's habits first, and none is missing *)
(* while there is room.                                                     *)
SuggestionsDiffer(own, common, size) ==
    LET s == Suggested(own, common, size)
        all == {Lower(n) : n \in Range(own \o common)}
    IN  /\ IsInjective([i \in DOMAIN s |-> Lower(s[i])])
        /\ Len(s) = IF Cardinality(all) < size THEN Cardinality(all) ELSE size
        /\ \A i, j \in DOMAIN s : i < j /\ s[j] \in Range(own) => s[i] \in Range(own)

=============================================================================
