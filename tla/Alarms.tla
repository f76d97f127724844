------------------------------- MODULE Alarms -------------------------------
(***************************************************************************)
(* The team's own watch over the site: the alarm by email, once per QUIET  *)
(* however often it fires (common/security_watch.py), and the daily report *)
(* with the day's log, sent by the server's cron at 7:00 or, if that did   *)
(* not happen, by the worker at 9:30 (common/security_digest.py).  A day   *)
(* has four slots of the clock: the night, from 7:00, from 9:30 and from   *)
(* 13:30; the log's entries of a slot are written after what runs at its   *)
(* beginning.                                                              *)
(***************************************************************************)
EXTENDS Integers, FiniteSets, Sequences

LOCAL INSTANCE SequencesExt

CONSTANTS
    Keys,       \* what an alarm is about
    Processes,  \* web and worker processes
    MaxTime,    \* bounds: the clock,
    AlarmTime,  \* the clock of the alarms,
    MaxManual,  \* reports the team asks for by hand
    ManyFailed, ManyFailedAdmin, ManyDownloads, ManyDeleted, ManyRegistrations,
    MaxLogRows  \* thresholds of the report

Day == 4
QuietTime == 1
Period == Day   \* 24 hours
SentWindow == 3 \* 20 hours back from 9:30: 13:30 the day before

VARIABLES
    clock,
    recorded,  \* the alarms' ThrottleEvents: the newest of each key
    proc,      \* processes at alert()
    fired,     \* history: the last time each key was handled,
    reached,   \* and the last times its email went out
    failed,    \* or was lost
    sent,      \* ThrottleEvents of SENT_KEY
    trail,     \* history: the slots whose entries are in some report
    down,      \* history: days on which cron did nothing
    blank,     \* history: days without a report for want of an email or
               \* because of one by hand
    manual, done

vars == <<clock, recorded, proc, fired, reached, failed, sent, trail, down, blank, manual, done>>

alarms == <<recorded, proc, fired, reached, failed>>
reports == <<sent, trail, down, blank, manual, done>>

Never == -Day

Idle == <<>>

Init ==
    /\ clock = Day
    /\ recorded = [k \in Keys |-> Never]
    /\ proc = [p \in Processes |-> Idle]
    /\ fired = [k \in Keys |-> Never]
    /\ reached = [k \in Keys |-> Never]
    /\ failed = [k \in Keys |-> Never]
    /\ sent = {} /\ trail = {} /\ down = {} /\ blank = {}
    /\ manual = 0
    /\ done = FALSE

-----------------------------------------------------------------------------
(* alert *)

\* throttle.is_limited(key, 1, quiet)
Limited(k) == clock - recorded[k] <= QuietTime

\* A hook finds the same alarm went out, or goes on to record its own.
Fire(p, k) ==
    /\ proc[p] = Idle /\ clock <= AlarmTime
    /\ IF Limited(k)
       THEN fired' = [fired EXCEPT ![k] = clock] /\ UNCHANGED proc
       ELSE proc' = [proc EXCEPT ![p] = <<"record", k>>] /\ UNCHANGED fired
    /\ UNCHANGED <<clock, recorded, reached, failed, reports>>

Record(p) ==
    LET k == proc[p][2] IN
    /\ proc[p] # Idle /\ proc[p][1] = "record"
    /\ recorded' = [recorded EXCEPT ![k] = clock]
    /\ proc' = [proc EXCEPT ![p] = <<"deliver", k>>]
    /\ UNCHANGED <<clock, fired, reached, failed, reports>>

\* _deliver; its failure is logged and swallowed.
Deliver(p, works) ==
    LET k == proc[p][2] IN
    /\ proc[p] # Idle /\ proc[p][1] = "deliver"
    /\ fired' = [fired EXCEPT ![k] = clock]
    /\ IF works THEN reached' = [reached EXCEPT ![k] = clock] /\ UNCHANGED failed
       ELSE failed' = [failed EXCEPT ![k] = clock] /\ UNCHANGED reached
    /\ proc' = [proc EXCEPT ![p] = Idle]
    /\ UNCHANGED <<clock, recorded, reports>>

-----------------------------------------------------------------------------
(* The daily report *)

DayOf(t) == t \div Day

\* build: the entries of the last 24 hours.
Covered == {t \in Day..(clock - 1) : t >= clock - Period}

\* send: the email, then the mark.
Report ==
    /\ trail' = trail \cup Covered
    /\ sent' = sent \cup {clock}

SentRecently == \E t \in sent : clock - t <= SentWindow

\* The server's cron, which may be missing or whose email may fail.
Cron(works) ==
    /\ clock % Day = 1 /\ ~done /\ done' = TRUE
    /\ IF works THEN Report /\ UNCHANGED down
       ELSE down' = down \cup {DayOf(clock)} /\ UNCHANGED <<trail, sent>>
    /\ UNCHANGED <<clock, alarms, blank, manual>>

\* send_security_digest_fallback
Fallback(works) ==
    /\ clock % Day = 2 /\ ~done /\ done' = TRUE
    /\ IF SentRecently
       THEN /\ blank' = IF \E t \in sent : t % Day \in {0, 3} /\ clock - t <= SentWindow
                        THEN blank \cup {DayOf(clock)} ELSE blank
            /\ UNCHANGED <<trail, sent>>
       ELSE IF works THEN Report /\ UNCHANGED blank
       ELSE blank' = blank \cup {DayOf(clock)} /\ UNCHANGED <<trail, sent>>
    /\ UNCHANGED <<clock, alarms, down, manual>>

\* manage.py security_digest, by hand.
ByHand ==
    /\ manual < MaxManual /\ manual' = manual + 1
    /\ Report
    /\ UNCHANGED <<clock, alarms, down, blank, done>>

Tick ==
    /\ clock < MaxTime
    /\ clock % Day \in {1, 2} => done
    /\ \A p \in Processes : proc[p] = Idle
    /\ clock' = clock + 1
    /\ done' = FALSE
    /\ UNCHANGED <<alarms, sent, trail, down, blank, manual>>

Next ==
    \/ Tick \/ ByHand
    \/ \E works \in BOOLEAN : Cron(works) \/ Fallback(works)
    \/ \E p \in Processes :
          \/ Record(p)
          \/ \E k \in Keys : Fire(p, k)
          \/ \E works \in BOOLEAN : Deliver(p, works)

Spec == Init /\ [][Next]_vars

-----------------------------------------------------------------------------
(* What is an alarm *)

\* An account as saved: [staff, super, password]; before is none for a new one.
None == [staff |-> FALSE, super |-> FALSE, password |-> ""]

\* remember_rights, rights_changed
RightsAlarm(isNew, before, after) ==
    IF (after.staff /\ ~before.staff) \/ (after.super /\ ~before.super) THEN {"granted"}
    ELSE IF after.staff /\ ~isNew /\ before.password # after.password THEN {"password"}
    ELSE {}

\* on_login, on_audit and canary_touched, with what makes two of them the same
\* alarm; entries are as below.
EntryAlarm(e) ==
    CASE e.event = "login" /\ e.staff -> {<<"login", e.actor, e.ip>>}
      [] e.event = "2fa off" /\ e.staff -> {<<"2fa off", e.actor>>}
      [] e.event = "failed" /\ e.actor = "canary" -> {<<"canary", e.admin>>}
      [] OTHER -> {}

-----------------------------------------------------------------------------
(* What the report says: log entries [event, actor, ip, staff, admin] *)

Of(entries, event) == SelectSeq(entries, LAMBDA e : e.event = event)

\* Counter(...).most_common(3): of equal ones the first seen.
TopThree(values) ==
    LET Number(v) == Cardinality({i \in DOMAIN values : values[i] = v})
        First(v) == CHOOSE i \in DOMAIN values :
                        values[i] = v /\ \A j \in 1..(i - 1) : values[j] # v
        Before(v, u) == \/ Number(v) > Number(u)
                        \/ Number(v) = Number(u) /\ First(v) < First(u)
        all == {values[i] : i \in DOMAIN values}
    IN  {<<v, Number(v)>> : v \in {u \in all : Cardinality({v \in all : Before(v, u)}) < 3}}

Column(entries, field) == [i \in DOMAIN entries |-> entries[i][field]]

Frequent(entries, field, many) ==
    {<<field, x[1]>> : x \in {y \in TopThree(Column(entries, field)) : y[2] >= many}}

\* build's "needs a look"; joined: administrators of the last day; host: the
\* server's part, its warnings, or none when it did not come.
Attention(entries, joined, came, warnings) ==
    Frequent(Of(entries, "failed"), "ip", ManyFailed)
    \cup (IF Len(SelectSeq(Of(entries, "failed"), LAMBDA e : e.admin)) >= ManyFailedAdmin
          THEN {<<"failed at the panel", "">>} ELSE {})
    \cup {<<"login", i>> : i \in {j \in DOMAIN entries :
                                     entries[j].event = "login" /\ entries[j].staff}}
    \cup {<<"joined", u>> : u \in joined}
    \cup {<<"2fa off", i>> : i \in {j \in DOMAIN entries :
                                       entries[j].event = "2fa off" /\ entries[j].staff}}
    \cup (IF Len(Of(entries, "registered")) >= ManyRegistrations THEN {<<"registrations", "">>} ELSE {})
    \cup Frequent(Of(entries, "download"), "actor", ManyDownloads)
    \cup Frequent(Of(entries, "deleted"), "actor", ManyDeleted)
    \cup (IF \E i \in DOMAIN entries :
                entries[i].event = "failed" /\ entries[i].actor = "canary"
          THEN {<<"canary", "">>} ELSE {})
    \cup {<<"host", x>> : x \in warnings}
    \cup (IF came THEN {} ELSE {<<"no host report", "">>})

\* LOGGED; downloads are counted, not listed.
Logged == {"login", "failed", "2fa off", "registered", "deleted"}

\* _log_csv: the newest MAX_LOG_ROWS.
LogRows(entries) ==
    LET rows == SelectSeq(entries, LAMBDA e : e.event \in Logged) IN
    SubSeq(rows, IF Len(rows) > MaxLogRows THEN Len(rows) - MaxLogRows + 1 ELSE 1, Len(rows))

\* A report that says "spokojnie" leaves out nobody: every alarm of the day
\* is named in it, however often it was silenced, and so is whoever passes a
\* threshold, unless three others did worse; more entries calm nothing.
ReportTells(entries, joined, came, warnings) ==
    LET told == Attention(entries, joined, came, warnings)
        ips == {entries[i].ip : i \in DOMAIN entries}
        Failed(ip) == Cardinality({i \in DOMAIN entries :
                                      entries[i].event = "failed" /\ entries[i].ip = ip})
    IN  /\ (\E i \in DOMAIN entries : EntryAlarm(entries[i]) # {}) => told # {}
        /\ \A ip \in ips : Failed(ip) >= ManyFailed =>
              \/ <<"ip", ip>> \in told
              \/ Cardinality({j \in ips : <<"ip", j>> \in told /\ Failed(j) >= Failed(ip)}) = 3
        /\ \A n \in 0..Len(entries) :
              Attention(SubSeq(entries, 1, n), joined, came, warnings) # {} => told # {}
        /\ \A i, j \in DOMAIN LogRows(entries) : i < j => LogRows(entries)[i].event \in Logged
        /\ Len(LogRows(entries)) <= MaxLogRows

\* No right is gained quietly, and an alarm means that something changed.
RightsAreWatched(isNew, before, after) ==
    LET alarm == RightsAlarm(isNew, before, after) IN
    /\ (after.staff /\ ~before.staff) \/ (after.super /\ ~before.super) => alarm # {}
    /\ alarm # {} => before # after

-----------------------------------------------------------------------------
(* Properties *)

TypeOK ==
    /\ clock \in Day..MaxTime
    /\ \A k \in Keys : recorded[k] \in {Never} \cup (Day..AlarmTime)
    /\ \A p \in Processes : proc[p] = Idle \/ proc[p][1] \in {"record", "deliver"}
    /\ sent \subseteq Day..MaxTime

\* Whatever fired is in an email of the last QUIET or on its way, or one was
\* lost in the last QUIET: the alarm is recorded before it is delivered
\* (security_watch.py:67-79), so a lost email silences its alarm, but for
\* QUIET at most - a failure before that excuses nothing.
AlarmReaches ==
    \A k \in Keys :
        \/ fired[k] = Never
        \/ fired[k] - reached[k] <= QuietTime
        \/ fired[k] - failed[k] <= QuietTime
        \/ \E p \in Processes : proc[p] # Idle /\ proc[p][2] = k

\* "A copy of the trail kept outside the server" (security_digest.py): every
\* entry is in some report, but for days without a report and, where the
\* worker stood in for the cron, the hours between the two the day before.
TrailIsKept ==
    \A t \in Day..(clock - Day - 2) :
        \/ t \in trail
        \/ t % Day = 1 /\ DayOf(t) + 1 \in down
        \/ {DayOf(t), DayOf(t) + 1} \cap blank # {}
=============================================================================
