------------------------------ MODULE DemoData ------------------------------
(***************************************************************************)
(* The demo account of a visitor (apps/demo/services.py, views.py): who    *)
(* gets one, and the clients, requests and files it starts with, told as   *)
(* things of the past days.  A moment is in minutes from today's midnight. *)
(***************************************************************************)
EXTENDS Integers, Sequences, FiniteSets

Minutes == 1440
Lifetime == 24 * 60
MaxPerIp == 30
MaxPerHour == 300

-----------------------------------------------------------------------------
(* Who gets a demo *)

\* resume: the demo of the cookie, still running.
Resumes(visitor, now) == visitor.cookie /\ visitor.demoExists /\ visitor.expires > now

Within(demos, now, span) == {d \in demos : d.created >= now - span}

\* start (the view): what happens to the visitor.
Start(visitor, demos, now) ==
    IF visitor.signedIn THEN "panel"
    ELSE IF Resumes(visitor, now) THEN "resumed"
    ELSE IF Cardinality({d \in Within(demos, now, 24 * 60) : d.ip = visitor.ip}) >= MaxPerIp
    THEN "limit"
    ELSE IF Cardinality(Within(demos, now, 60)) >= MaxPerHour THEN "busy"
    ELSE "new"

\* delete_expired
Expired(demos, now) == {d \in demos : d.created + Lifetime <= now}

-----------------------------------------------------------------------------
(* What it starts with *)

At(daysAgo, hour, minute) == -daysAgo * Minutes + hour * 60 + minute

NoMoment == At(0, 24, 0)

\* The file of an item has the status that goes with the item's.
FileStatus(status) ==
    CASE status = "ZAAKCEPTOWANY" -> "accepted"
      [] status = "ODRZUCONY" -> "rejected"
      [] OTHER -> "uploaded"

Item(status, uploaded) ==
    [status |-> status, uploaded |-> uploaded,
     file |-> IF uploaded = NoMoment THEN "none" ELSE FileStatus(status)]

MissingItem == Item("BRAK", NoMoment)

Request(client, created, due, days, opened, items, reminders) ==
    [client |-> client, created |-> created, due |-> due, retention |-> days,
     opened |-> opened, items |-> items, reminders |-> reminders]

September ==
    Request("Kowalski", At(3, 9, 15), 4, 90, At(2, 11, 40),
            <<Item("ZAAKCEPTOWANY", At(2, 11, 52)), Item("DOSTARCZONY", At(1, 16, 0)),
              MissingItem, MissingItem>>,
            <<At(1, 9, 0)>>)

Onboarding ==
    Request("Nowak", At(10, 8, 30), -2, 180, At(9, 19, 5),
            [i \in 1..4 |-> Item("ZAAKCEPTOWANY", At(9, 19, 7 + 3 * i))], <<>>)

Loan ==
    Request("Wisniewski", At(8, 14, 0), -1, 30, NoMoment,
            [i \in 1..3 |-> MissingItem], <<At(6, 9, 0), At(3, 9, 0)>>)

YearEnd ==
    Request("Kowalczyk", At(5, 12, 0), 10, 365, At(4, 17, 20),
            <<Item("ODRZUCONY", At(4, 17, 30)), Item("DOSTARCZONY", At(4, 17, 34)), MissingItem>>,
            <<>>)

Seed == <<September, Onboarding, Loan, YearEnd>>

\* The same, as the panel's lists see it.
Row(r) ==
    [question |-> FALSE, held |-> FALSE, closed |-> FALSE,
     items |-> [i \in DOMAIN r.items |-> r.items[i].status], due |-> r.due,
     age |-> -(r.created \div Minutes), month |-> 0, opened |-> r.opened # NoMoment,
     client |-> r.client]

\* "See it as your client": the newest request with something missing.
Showcase ==
    CHOOSE r \in {Seed[i] : i \in DOMAIN Seed} :
        /\ \E i \in DOMAIN r.items : r.items[i].status = "BRAK"
        /\ \A j \in DOMAIN Seed :
              (\E i \in DOMAIN Seed[j].items : Seed[j].items[i].status = "BRAK") =>
                  Seed[j].created <= r.created

-----------------------------------------------------------------------------
(* A demo tells a story that could have happened: a request is sent, opened *)
(* before its files come, which are then reviewed two hours later, all of   *)
(* it in the past; a file is where its item's state says; and the reminders *)
(* come as the settings a request has by itself say (models.py:31-34).      *)
StoryHolds(r, first, every, count) ==
    /\ \A i \in DOMAIN r.items : LET item == r.items[i] IN
        /\ item.file = "none" <=> item.status = "BRAK"
        /\ item.file # "none" =>
            /\ r.created < r.opened /\ r.opened < item.uploaded
            /\ item.uploaded + (IF item.status = "DOSTARCZONY" THEN 0 ELSE 120) < 0
    /\ Len(r.reminders) <= count
    /\ \A n \in DOMAIN r.reminders :
        r.reminders[n] \div Minutes = (r.created \div Minutes) + first + (n - 1) * every

(* A visitor with a demo under way never starts a second one, nor is told   *)
(* to come back later; one demo past its day is never opened again; and an  *)
(* account of one's own is left as it is.                                   *)
StartIsFair(visitor, demos, now) ==
    LET outcome == Start(visitor, demos, now) IN
    /\ visitor.signedIn <=> outcome = "panel"
    /\ outcome = "resumed" => visitor.expires > now
    /\ ~visitor.signedIn /\ visitor.cookie /\ visitor.demoExists /\ visitor.expires > now =>
          outcome = "resumed"
    /\ outcome = "new" => Cardinality(Within(demos, now, 60)) < MaxPerHour

=============================================================================
