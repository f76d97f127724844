------------------------------ MODULE Reviews ------------------------------
(***************************************************************************)
(* "Ocen Monituj" (apps/notifications/reviews.py): asking an account for a *)
(* review, once a month after it signed up and once more a month later,    *)
(* until the link is clicked or the owner says no.  A daily task reads the *)
(* list of accounts to ask and works through it; the email goes out before *)
(* it is counted, and nothing keeps a second task from running beside the  *)
(* first.  A month is two days of the clock here.                          *)
(***************************************************************************)
EXTENDS Naturals, Sequences

CONSTANTS
    People,      \* accounts, but demos
    Workers,     \* where the task may run
    MaxDay,      \* bound: the clock
    MaxCrashes   \* bound: killed workers

FirstAfter == 2
AgainAfter == 2
MaxEmails == 2
Since == 1  \* the day the privacy policy that tells of it applies from

VARIABLES
    today,
    joined,    \* date_joined
    verified,  \* email_verified_at is set
    invite,    \* ReviewInvite, made by the first email
    task,      \* send_due of each worker
    opened,    \* history: accounts with a link in some email
    emails,    \* history: the days of each account's emails
    shared,    \* history: how often an account was put on a list while it
               \* was still on another worker's
    pushed,    \* history: accounts mailed that had clicked or said no when
               \* the list was read
    crashes

vars == <<today, joined, verified, invite, task, opened, emails, shared, pushed, crashes>>

NoInvite == [made |-> FALSE, count |-> 0, last |-> 0, clicked |-> FALSE, declined |-> FALSE]

\* list: accounts not counted yet; user: the one just mailed; count: its
\* sent_count as it was read; stopped: who had clicked or said no by then.
NoTask == [pc |-> "idle", list |-> {}, user |-> {}, count |-> 0, stopped |-> {}]

Init ==
    /\ today = 1
    /\ joined \in [People -> 1..2]
    /\ verified \in [People -> BOOLEAN]
    /\ invite = [u \in People |-> NoInvite]
    /\ task = [w \in Workers |-> NoTask]
    /\ opened = {}
    /\ emails = [u \in People |-> <<>>]
    /\ shared = [u \in People |-> 0]
    /\ pushed = {}
    /\ crashes = 0

-----------------------------------------------------------------------------

\* due: not asked yet, or asked over a month ago and silent since.  An email
\* that was not counted has no last_sent_at (0), and no comparison with it.
ToAsk(u) ==
    /\ verified[u] /\ joined[u] + FirstAfter <= today
    /\ \/ ~invite[u].made
       \/ /\ invite[u].count < MaxEmails /\ invite[u].last # 0
          /\ invite[u].last + AgainAfter <= today
          /\ ~invite[u].clicked /\ ~invite[u].declined

OnList(u) == \E w \in Workers : u \in task[w].list

\* send_due, once allowed().
Begin(w) ==
    LET list == {u \in People : ToAsk(u)} IN
    /\ task[w] = NoTask /\ today >= Since
    /\ list # {}
    /\ task' = [task EXCEPT ![w] = [pc |-> "next", list |-> list, user |-> {}, count |-> 0,
                  stopped |-> {u \in People : invite[u].clicked \/ invite[u].declined}]]
    /\ shared' = [u \in People |-> IF u \in list /\ OnList(u) THEN shared[u] + 1 ELSE shared[u]]
    /\ UNCHANGED <<today, joined, verified, invite, opened, emails, pushed, crashes>>

\* send: get_or_create, then the email; one that fails is counted as well.
Mail(w, u) ==
    /\ task[w].pc = "next" /\ u \in task[w].list
    /\ invite' = [invite EXCEPT ![u].made = TRUE]
    /\ opened' = opened \cup {u}
    /\ emails' = [emails EXCEPT ![u] = Append(@, today)]
    /\ pushed' = pushed \cup ({u} \cap task[w].stopped)
    /\ task' = [task EXCEPT ![w] = [@ EXCEPT !.pc = "count", !.user = {u},
                                            !.count = invite[u].count]]
    /\ UNCHANGED <<today, joined, verified, shared, crashes>>

\* The email is counted on the row as it was read; clicks and refusals are
\* columns of their own.
Count(w, u) ==
    LET left == task[w].list \ {u} IN
    /\ task[w].pc = "count" /\ task[w].user = {u}
    /\ invite' = [invite EXCEPT ![u] = [@ EXCEPT !.count = task[w].count + 1, !.last = today]]
    /\ task' = [task EXCEPT ![w] =
                  IF left = {} THEN NoTask
                  ELSE [@ EXCEPT !.pc = "next", !.list = left, !.user = {}, !.count = 0]]
    /\ UNCHANGED <<today, joined, verified, opened, emails, shared, pushed, crashes>>

Crash(w) ==
    /\ task[w] # NoTask /\ crashes < MaxCrashes
    /\ crashes' = crashes + 1 /\ task' = [task EXCEPT ![w] = NoTask]
    /\ UNCHANGED <<today, joined, verified, invite, opened, emails, shared, pushed>>

\* review, review_stop: by the link of an email.
Click(u) ==
    /\ u \in opened /\ ~invite[u].clicked
    /\ invite' = [invite EXCEPT ![u].clicked = TRUE]
    /\ UNCHANGED <<today, joined, verified, task, opened, emails, shared, pushed, crashes>>

Decline(u) ==
    /\ u \in opened /\ ~invite[u].declined
    /\ invite' = [invite EXCEPT ![u].declined = TRUE]
    /\ UNCHANGED <<today, joined, verified, task, opened, emails, shared, pushed, crashes>>

Verify(u) ==
    /\ ~verified[u] /\ verified' = [verified EXCEPT ![u] = TRUE]
    /\ UNCHANGED <<today, joined, invite, task, opened, emails, shared, pushed, crashes>>

\* A day's task ends on its day.
Tick ==
    /\ \A w \in Workers : task[w] = NoTask
    /\ today < MaxDay /\ today' = today + 1
    /\ UNCHANGED <<joined, verified, invite, task, opened, emails, shared, pushed, crashes>>

Next ==
    \/ Tick
    \/ \E w \in Workers : Begin(w) \/ Crash(w) \/ \E u \in People : Mail(w, u) \/ Count(w, u)
    \/ \E u \in People : Click(u) \/ Decline(u) \/ Verify(u)

Spec == Init /\ [][Next]_vars

-----------------------------------------------------------------------------
(* Properties *)

TypeOK ==
    /\ \A u \in People : invite[u].count \in Nat /\ invite[u].last \in 0..MaxDay
    /\ \A w \in Workers : /\ task[w].pc \in {"idle", "next", "count"}
                          /\ task[w].list \subseteq People

\* "Never more than MAX_EMAILS" (reviews.py), a month apart, and none to
\* somebody who had clicked or said no when the list was read.  A worker
\* killed after the email, before the count, makes one more, and so does
\* each list read while the account was on another worker's - those leave on
\* one day, and a count saved over another's is no further email.
AskedPolitely ==
    /\ pushed = {}
    /\ \A u \in People :
          /\ Len(emails[u]) <= MaxEmails + crashes + shared[u]
          /\ crashes = 0 => \A i \in 1..(Len(emails[u]) - 1) :
                \/ emails[u][i] + AgainAfter <= emails[u][i + 1]
                \/ emails[u][i] = emails[u][i + 1] /\ shared[u] > 0
=============================================================================
