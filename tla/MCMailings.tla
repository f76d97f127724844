---------------------------- MODULE MCMailings ----------------------------
(***************************************************************************)
(* The timed emails for TLC: one recurring request over a spring of        *)
(* holidays, one request with reminders over six settings of them, the     *)
(* news of one request, a person's mornings around a weekend, two accounts *)
(* asked for a review by two workers, and the team's own watch.  They run  *)
(* side by side, not as a product: the first state says which one moves.   *)
(* Workers, and the accounts, are interchangeable.                         *)
(***************************************************************************)
EXTENDS Recurring, Sequences, TLC

CONSTANTS NoValue, Workers, Senders, Schedules, MaxTime, MaxChanges, MaxManual, MaxCrashes,
          Files, Answers, Recipients, Quiet, MaxDelay, NewsTime,
          Notes, Accounts, Own, Offsets, FirstMorning, LastMorning, MaxMoves, MaxSwitches,
          People, MaxDay, Keys, WatchTime, AlarmTime, MaxByHand

VARIABLES
    part,
    req, now, state, enabled, reminders, wk, plan, mails, changes, crashes,
    clock, notice, komplet, rc, task, told, shared, lost, ends,
    hour, zone, works, settings, note, hand, desk, mornings, owed, listed, unsent,
    moves, switches, cuts,
    day, joined, verified, invite, asking, opened, asked, doubled, pushed, breaks,
    slot, recorded, proc, fired, reached, failed, issued, trail, down, blank, manual, done

R == INSTANCE Reminders WITH Settings <- Schedules, sent <- reminders

N == INSTANCE UploadNotices WITH
        MaxTime <- NewsTime, wk <- task, crashes <- ends

A == INSTANCE Agenda WITH
        Years <- 2026..2032, FirstDay <- FirstMorning, LastDay <- LastMorning,
        clock <- hour, wk <- desk, lost <- unsent, crashes <- cuts

V == INSTANCE Reviews WITH
        today <- day, task <- asking, emails <- asked, shared <- doubled, crashes <- breaks

W == INSTANCE Alarms WITH
        Processes <- Workers, MaxTime <- WatchTime, MaxManual <- MaxByHand,
        ManyFailed <- 2, ManyFailedAdmin <- 2, ManyDownloads <- 2,
        ManyDeleted <- 2, ManyRegistrations <- 2, MaxLogRows <- 3,
        clock <- slot, sent <- issued

Rhythm(i, m, w, d) == [interval |-> i, month_day |-> m, weekday |-> w, workdays |-> d]

\* The last day of the month; Corpus Christi, 27 May 2027, is a Thursday;
\* 1 May is a Saturday.
MCTimings == {Rhythm("monthly", 31, 0, TRUE), Rhythm("weekly", 1, 3, TRUE),
              Rhythm("biweekly", 1, 5, TRUE), Rhythm("daily", 1, 0, TRUE)}
MCYears == 2026..2028
MCFirst == Date(2027, 4, 20)
MCLast == Date(2027, 6, 4)

\* "d": a day is three slots of the clock, see Reminders.
Schedule(c, k, f, e, l, d) ==
    [created |-> c, clock |-> k, first |-> f, every |-> e, limit |-> l, day |-> d]

\* Without and with a deadline; created before and after the hour reminders
\* go out; deadlines that meet, precede and follow the scheduled days.
MCSchedules == {Schedule(0, 1, 1, 1, 2, 3), Schedule(2, 2, 2, 1, 2, 3),
              Schedule(1, 1, 1, 2, 2, 4), Schedule(1, 1, 1, 1, 2, 0),
              Schedule(2, 1, 3, 3, 2, 4), Schedule(2, 2, 1, 2, 1, 2)}

\* Sunday to Tuesday, Monday a holiday; the person may fly far west.
MCFirstMorning == Date(2027, 5, 2)
MCLastMorning == Date(2027, 5, 4)
MCOffsets == {0, -2}

ASSUME MailingsAssumption ==
    /\ YearsAssumption /\ RecurringAssumption /\ R!SettingsAssumption
    /\ N!NoticeAssumption /\ A!AgendaAssumption

\* _easter computes the Gregorian Easter of the church's tables.
ASSUME \A y \in 1900..2199 : Easter(y) = ChurchEaster(y)

reminderVars == <<req, now, state, enabled, reminders, wk, plan, mails, changes, crashes>>
noticeVars == <<clock, notice, komplet, rc, task, told, shared, lost, ends>>

agendaVars == <<hour, zone, works, settings, note, hand, desk, mornings, owed, listed,
                unsent, moves, switches, cuts>>
reviewVars == <<day, joined, verified, invite, asking, opened, asked, doubled, pushed, breaks>>
watchVars == <<slot, recorded, proc, fired, reached, failed, issued, trail, down, blank,
               manual, done>>
mailVars == <<noticeVars, agendaVars, reviewVars, watchVars>>

PartInit ==
    /\ part \in {"recurring", "reminders", "news", "mornings", "reviews", "watch"}
    /\ Init /\ R!Init /\ N!Init /\ A!Init /\ V!Init /\ W!Init
    /\ part # "mornings" => zone = CHOOSE o \in Offsets : TRUE
    /\ \A u \in People : joined[u] = 1
    /\ part # "reviews" => \A u \in People : verified[u]
    /\ part # "recurring" => sched = Created(CHOOSE t \in Timings : TRUE, FALSE)
    /\ part # "reminders" => req = CHOOSE r \in Schedules : TRUE

PartNext ==
    /\ UNCHANGED part
    /\ \/ part = "recurring" /\ Next /\ UNCHANGED <<reminderVars, mailVars>>
       \/ part = "reminders" /\ R!Next /\ UNCHANGED <<vars, mailVars>>
       \/ /\ part = "news" /\ N!Next
          /\ UNCHANGED <<vars, reminderVars, agendaVars, reviewVars, watchVars>>
       \/ /\ part = "mornings" /\ A!Next
          /\ UNCHANGED <<vars, reminderVars, noticeVars, reviewVars, watchVars>>
       \/ /\ part = "reviews" /\ V!Next
          /\ UNCHANGED <<vars, reminderVars, noticeVars, agendaVars, watchVars>>
       \/ /\ part = "watch" /\ W!Next
          /\ UNCHANGED <<vars, reminderVars, noticeVars, agendaVars, reviewVars>>

PartSpec == PartInit /\ [][PartNext]_<<part, vars, reminderVars, mailVars>>

Symmetry == Permutations(Workers) \cup Permutations(People)

-----------------------------------------------------------------------------
(* The plan shown is the one that comes true; see Reminders.                *)
PlanComesTrue == R!PlanComesTrue

(* One scheduled reminder a day; see Reminders.                             *)
OneReminderADay == R!OneReminderADay /\ R!ManualCooldown

(* What there is to tell gets through - news, reminders of the morning,     *)
(* alarms and the log - but for what a killed worker or a refusing mail     *)
(* server takes with it; see UploadNotices, Agenda and Alarms.              *)
NothingUntold ==
    N!NewsReachSender /\ A!DueIsListed /\ W!AlarmReaches /\ W!TrailIsKept

(* And is told once, but by workers that had read it together; see          *)
(* UploadNotices, Agenda and Reviews.                                       *)
NothingToldTwice ==
    N!ToldOnce /\ N!OneNoticePerAnswer /\ A!OneMorningEmail /\ V!AskedPolitely

-----------------------------------------------------------------------------
(* The calendar's pages, in the months of a year, for schedules of every
   kind made on any of some days, and lines of the feed.  *)

Sent(i, d, due) == [interval |-> i, month_day |-> 31, weekday |-> 3, workdays |-> d,
                    anchor |-> due, due |-> due]

ASSUME \A y \in 2027..2028, m \in 1..12 : A!MonthIsWhole(y, m)
ASSUME \A m \in 1..12, d \in {1, 15, 28}, workdays \in BOOLEAN :
          \A i \in {"daily", "weekly", "biweekly", "monthly"} :
             LET s == Sent(i, workdays, Date(2027, m, d)) IN
             A!SendsAreShown([s EXCEPT !.due = A!DueOnOrAfter(s, s.due)], 2027, m)
ASSUME \A n \in 0..7 : \A chars \in [1..n -> 1..3] : A!LinesFold(chars, 5)

-----------------------------------------------------------------------------
(* The team's watch *)

ListsUpTo(S, n) == UNION {[1..k -> S] : k \in 0..n}

Entry(event, actor, ip, staff, admin) ==
    [event |-> event, actor |-> actor, ip |-> ip, staff |-> staff, admin |-> admin]

Entries == {Entry("login", "szef", 1, TRUE, TRUE), Entry("login", "ala", 1, FALSE, FALSE),
            Entry("2fa off", "szef", 1, TRUE, FALSE), Entry("2fa off", "ala", 1, FALSE, FALSE),
            Entry("failed", "ala", 1, FALSE, FALSE), Entry("failed", "canary", 2, FALSE, TRUE),
            Entry("registered", "ala", 1, FALSE, FALSE), Entry("download", "ala", 1, FALSE, FALSE),
            Entry("deleted", "ala", 1, FALSE, FALSE)}

ASSUME \A entries \in ListsUpTo(Entries, 3) : W!ReportTells(entries, {}, TRUE, {})
ASSUME \A entries \in ListsUpTo(Entries, 1), came \in BOOLEAN, x \in SUBSET {"disk"} :
          W!ReportTells(entries, {"nowy"}, came, x)

\* Seven failed sign-ins from up to four addresses.
ASSUME \A ips \in [1..7 -> 1..4] :
          W!ReportTells([i \in 1..7 |-> Entry("failed", "ala", ips[i], FALSE, FALSE)], {}, TRUE, {})

SavedAccounts == [staff : BOOLEAN, super : BOOLEAN, password : {"", "p1", "p2"}]

ASSUME \A before, after \in SavedAccounts :
          W!RightsAreWatched(FALSE, before, after) /\ W!RightsAreWatched(TRUE, W!None, after)

-----------------------------------------------------------------------------
(* What the request forms make of what is posted, for all inputs of a small
   bound: days of two years, one of them a leap year, rhythms in and out of
   the presets, lists of up to three recipients.  *)

F == INSTANCE RequestForms WITH Years <- 2027..2030, None <- NoValue, MaxNewClients <- 2

\* Every day of the leap year, and what is around the end of each month.
Days == F!Date(2027, 12, 20)..F!Date(2029, 1, 12)
SomeDays == {F!Date(2028, m, d) : m \in 1..12, d \in {1, 9, 10, 11, 28}}

(* Settings and file keeping come back as they were.                        *)
ASSUME
    \A on \in BOOLEAN, first, every, count \in 1..5, days \in {1, 29, 30, 31, 90, 364, 365} :
        F!SettingsSurvive([on |-> on, rhythm |-> <<first, every, count>>], days)

(* Deadlines of the buttons, and the month of a name.                       *)
ASSUME
    \A posted \in Days :
        /\ \A choice \in {"7", "14", "day10", "none"} : F!ButtonsAgreeOnDay(choice, posted)
        /\ \A n \in {0, 1, 7, 14, 31, 90} :
              F!MonthIsOver(IF n = 0 THEN NoValue ELSE posted + n, posted)

DeadlineForms(posted) ==
    [choice : {"7", "14", "day10", "date", "days", "none", ""},
     date : {NoValue} \cup {posted + n : n \in {-3, 0, 1, 2, 14, 90, 91, 400}},
     days : {NoValue, 0, 1, 10, 90, 91}, recurring : BOOLEAN]

(* What a template keeps of a deadline comes back.                          *)
ASSUME
    \A posted \in SomeDays :
        /\ \A form \in DeadlineForms(posted) :
              ~form.recurring => F!DeadlineComesBack(form, posted)
        /\ \A form \in DeadlineForms(posted), preset \in {"off", "gentle", "standard", "frequent"} :
              ~form.recurring => F!FormsAgree(form, preset, posted)
        /\ \A n \in {1, 6, 7, 8, 14, 90, 365} : F!DaysComeBack(posted, posted + n, posted + 40)

(* A timing has a next day.                                                 *)
ASSUME
    \A interval \in {"", "daily", "weekly", "biweekly", "monthly"}, workdays \in BOOLEAN,
       picked \in {NoValue, 1, 30, 31}, weekday \in {NoValue, 0, 6}, posted \in SomeDays :
        F!TimingHasNextDay([interval |-> interval, workdays |-> workdays, month_day |-> picked,
                            weekday |-> weekday], posted)

Contacts == {<<p, w>> : p \in {"ala", "jan"}, w \in {"low", "up"}}
Clients == {s \in ListsUpTo({<<"ala", "up">>, <<"jan", "low">>}, 2) :
               \A i, j \in DOMAIN s : s[i] = s[j] => i = j}
Rows == [named : BOOLEAN, email : Contacts \cup {NoValue, <<"x", "low">>}, valid : {TRUE}]
            \cup {[named |-> TRUE, email |-> <<"?", "low">>, valid |-> FALSE]}
RecipientForms ==
    [clients : Clients, client : {NoValue, <<"jan", "low">>}, rows : ListsUpTo(Rows, 2),
     single : {NoValue, <<"ala", "low">>, <<"ala", "up">>}]

(* Each recipient once.                                                     *)
ASSUME \A form \in RecipientForms : F!EachOnce(form)

Titles == {<<t, w, n>> : t \in {"monthly"}, w \in {"low", "up"}, n \in 1..3}

(* Titles and suggestions differ.                                           *)
ASSUME
    /\ \A titles \in SUBSET Titles, w \in {"low", "up"} : F!TitleIsFree(titles, <<"monthly", w>>)
    /\ \A own \in ListsUpTo(Contacts, 3), common \in ListsUpTo(Contacts, 2), size \in 1..3 :
          (\A i, j \in DOMAIN own : own[i] = own[j] => i = j) => F!SuggestionsDiffer(own, common, size)
=============================================================================
