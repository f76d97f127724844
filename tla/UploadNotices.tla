--------------------------- MODULE UploadNotices ---------------------------
(***************************************************************************)
(* Telling the sender that documents and answers arrived                   *)
(* (apps/notifications/inbox.py), for one request of an active owner.      *)
(*                                                                         *)
(* Each upload leaves a notice; an answer leaves one unless the item has   *)
(* one nobody was told of yet.  A task of every minute reads the notices   *)
(* without an email, waits until the recipient is quiet, claims the rows   *)
(* and mails what it read, unless a "komplet" email went out since.  The   *)
(* rows stay claimed if the mail server refuses the email.                 *)
(***************************************************************************)
EXTENDS Naturals, FiniteSets

CONSTANTS
    Files,       \* notices of documents
    Answers,     \* notices of answers about one item
    Recipients,  \* web processes answering about that item
    Workers,     \* Celery workers
    Quiet,       \* QUIET_PERIOD
    MaxDelay,    \* MAX_DELAY
    MaxTime,     \* bound: the clock
    MaxCrashes   \* bound: killed workers

NoticeAssumption ==
    /\ Files \cap Answers = {}
    /\ IsFiniteSet(Workers) /\ IsFiniteSet(Recipients)
    /\ Quiet \in Nat /\ MaxDelay \in Nat /\ MaxTime \in Nat \ {0} /\ MaxCrashes \in Nat

VARIABLES
    clock,
    notice,   \* the Notification rows
    komplet,  \* when the last COMPLETE_OWNER email was logged, 0 for never
    rc,       \* recipients between the two statements of get_or_create
    wk,       \* the workers
    told,     \* history: how many emails listed each notice
    shared,   \* history: the workers that had read it as well when it was
              \* claimed, beside one left to them to claim
    lost,     \* history: notices whose worker was killed after the claim, or
              \* whose email the mail server refused
    crashes   \* history: killed workers

vars == <<clock, notice, komplet, rc, wk, told, shared, lost, crashes>>

history == <<told, shared, lost, crashes>>

News == Files \cup Answers

Notice == [state : {"new", "live", "gone"}, at : 0..MaxTime, emailed : BOOLEAN,
           read : BOOLEAN]

NewNotice == [state |-> "new", at |-> 0, emailed |-> FALSE, read |-> FALSE]

\* list: the pks read; unread: those not seen then; first: the oldest's time;
\* mine: those it claimed.
Worker == [pc : {"idle", "claim", "send"}, list : SUBSET News,
           unread : SUBSET News, first : 0..MaxTime, mine : SUBSET News]

Idle == [pc |-> "idle", list |-> {}, unread |-> {}, first |-> 0, mine |-> {}]

Init ==
    /\ clock = 1
    /\ notice = [n \in News |-> NewNotice]
    /\ komplet = 0
    /\ rc = [r \in Recipients |-> FALSE]
    /\ wk = [w \in Workers |-> Idle]
    /\ told = [n \in News |-> 0]
    /\ shared = [n \in News |-> 0]
    /\ lost = {}
    /\ crashes = 0

Live(n) == notice[n].state = "live"

Unclaimed(n) == Live(n) /\ ~notice[n].emailed

Tick ==
    /\ clock < MaxTime
    /\ clock' = clock + 1
    /\ UNCHANGED <<notice, komplet, rc, wk, history>>

-----------------------------------------------------------------------------
(* What the recipient and the sender do *)

\* The news arrive early enough for Quiet to pass within the bound.
Insert(n) ==
    /\ notice[n].state = "new"
    /\ clock + Quiet <= MaxTime
    /\ notice' = [notice EXCEPT ![n] = [@ EXCEPT !.state = "live", !.at = clock]]

\* notify_upload.
NotifyUpload(n) ==
    /\ n \in Files
    /\ Insert(n)
    /\ UNCHANGED <<clock, komplet, rc, wk, history>>

\* The document and its notice go with delete_own_upload.
DeleteUpload(n) ==
    /\ n \in Files
    /\ Live(n)
    /\ notice' = [notice EXCEPT ![n].state = "gone"]
    /\ UNCHANGED <<clock, komplet, rc, wk, history>>

Waiting == {n \in Answers : Unclaimed(n) /\ ~notice[n].read}

\* notify_not_applicable, notify_confirmed, notify_answered: get_or_create
\* looks for a waiting notice and then inserts; nothing in the table is
\* unique, and two waiting ones raise MultipleObjectsReturned.
AnswerGet(r) ==
    /\ ~rc[r]
    /\ Waiting = {}
    /\ rc' = [rc EXCEPT ![r] = TRUE]
    /\ UNCHANGED <<clock, notice, komplet, wk, history>>

AnswerCreate(r, n) ==
    /\ rc[r]
    /\ n \in Answers
    /\ Insert(n)
    /\ rc' = [rc EXCEPT ![r] = FALSE]
    /\ UNCHANGED <<clock, komplet, wk, history>>

\* forget_not_applicable, forget_confirmed: taken back before the email.
Forget ==
    /\ \E n \in Answers : Unclaimed(n)
    /\ notice' = [n \in News |-> IF n \in Answers /\ Unclaimed(n)
                                 THEN [notice[n] EXCEPT !.state = "gone"]
                                 ELSE notice[n]]
    /\ UNCHANGED <<clock, komplet, rc, wk, history>>

\* The sender opens "Powiadomienia" or the request.
MarkRead ==
    /\ \E n \in News : Live(n) /\ ~notice[n].read
    /\ notice' = [n \in News |-> [notice[n] EXCEPT !.read = @ \/ Live(n)]]
    /\ UNCHANGED <<clock, komplet, rc, wk, history>>

\* The "komplet" email is logged, sent or failed.
Komplet ==
    /\ komplet # clock
    /\ komplet' = clock
    /\ UNCHANGED <<clock, notice, rc, wk, history>>

-----------------------------------------------------------------------------
(* send_pending_upload_emails *)

Times(S) == {notice[n].at : n \in S}

\* Mutant of QuietFor: nothing is sent while the recipient goes on.
QuietAtLast(S) == \A t \in Times(S) : clock - t >= Quiet

\* Not both of "now - last < QUIET_PERIOD" and "now - first < MAX_DELAY" hold.
QuietFor(S) ==
    \/ \A t \in Times(S) : clock - t >= Quiet
    \/ \E t \in Times(S) : clock - t >= MaxDelay

\* _pending_by_request.
Pending == {n \in News : Unclaimed(n)}

\* Passed over while "still uploading".
Begin(w) ==
    LET list == Pending IN
    /\ wk[w].pc = "idle"
    /\ list # {}
    /\ QuietFor(list)
    /\ \E f \in Times(list) :
        /\ \A t \in Times(list) : f <= t
        /\ wk' = [wk EXCEPT ![w] = [pc |-> "claim", list |-> list, first |-> f,
                     unread |-> {n \in list : ~notice[n].read}, mine |-> {}]]
    /\ UNCHANGED <<clock, notice, komplet, rc, history>>

\* Mutant of ClaimedBy: the rows of the list, claimed or not.
ClaimedAnyway(w) == {n \in wk[w].list : Live(n)}

ClaimedBy(w) == {n \in wk[w].list : Unclaimed(n)}

\* The workers that will find something to claim after w, and mail n too.
Overlap(w, n) == {v \in Workers \ {w} : /\ wk[v].pc = "claim" /\ n \in wk[v].list
                                        /\ ~(ClaimedBy(v) \subseteq ClaimedBy(w))}

\* The UPDATE takes the rows of the list nobody claimed; none: the next
\* request.
Claim(w) ==
    /\ wk[w].pc = "claim"
    /\ notice' = [n \in News |-> [notice[n] EXCEPT !.emailed = @ \/ n \in ClaimedBy(w)]]
    /\ wk' = [wk EXCEPT ![w] = IF ClaimedBy(w) = {} THEN Idle
                               ELSE [@ EXCEPT !.pc = "send", !.mine = ClaimedBy(w)]]
    /\ shared' = [n \in News |-> IF n \in ClaimedBy(w) THEN Cardinality(Overlap(w, n))
                                 ELSE shared[n]]
    /\ UNCHANGED <<clock, komplet, rc, told, lost, crashes>>

\* Mutant of Mailed: nothing once the sender opened one of them.
MailedAllUnread(w) == IF wk[w].unread = wk[w].list THEN wk[w].unread ELSE {}

\* What the email lists: all that was read and not seen, unless "komplet" was
\* logged since the oldest of it.
Mailed(w) == IF komplet >= wk[w].first THEN {} ELSE wk[w].unread

\* EmailService.send logs an email that failed and returns.
Send(w, works) ==
    /\ wk[w].pc = "send"
    /\ IF works
       THEN /\ told' = [n \in News |-> IF n \in Mailed(w) THEN told[n] + 1 ELSE told[n]]
            /\ UNCHANGED lost
       ELSE lost' = lost \cup Mailed(w) /\ UNCHANGED told
    /\ wk' = [wk EXCEPT ![w] = Idle]
    /\ UNCHANGED <<clock, notice, komplet, rc, shared, crashes>>

\* Killed after the claim: the notices stay claimed.
Crash(w) ==
    /\ wk[w].pc # "idle"
    /\ crashes < MaxCrashes
    /\ crashes' = crashes + 1
    /\ lost' = lost \cup wk[w].mine
    /\ wk' = [wk EXCEPT ![w] = Idle]
    /\ UNCHANGED <<clock, notice, komplet, rc, told, shared>>

Task(w) == Begin(w) \/ Claim(w) \/ \E works \in BOOLEAN : Send(w, works)

Next ==
    \/ Tick \/ Forget \/ MarkRead \/ Komplet
    \/ \E n \in News : NotifyUpload(n) \/ DeleteUpload(n)
    \/ \E r \in Recipients : AnswerGet(r) \/ \E n \in Answers : AnswerCreate(r, n)
    \/ \E w \in Workers : Task(w) \/ Crash(w)

Spec == Init /\ [][Next]_vars

\* Celery beat starts the task every minute, and time passes.
FairSpec == Spec /\ WF_vars(Tick) /\ \A w \in Workers : WF_vars(Task(w))

-----------------------------------------------------------------------------
TypeOK ==
    /\ clock \in 1..MaxTime
    /\ notice \in [News -> Notice]
    /\ komplet \in 0..MaxTime
    /\ rc \in [Recipients -> BOOLEAN]
    /\ wk \in [Workers -> Worker]
    /\ told \in [News -> Nat]
    /\ shared \in [News -> Nat]
    /\ lost \subseteq News
    /\ crashes \in 0..MaxCrashes

Unseen(n) == Live(n) /\ notice[n].emailed /\ ~notice[n].read

InHand(n) == \E w \in Workers : n \in wk[w].mine

(* Nothing the sender has not seen drops out silently: a notice that was    *)
(* claimed is mailed or was opened, or a "komplet" email was logged after   *)
(* some notice; or its worker is about to, or was killed, or the mail server*)
(* refused the email: nothing tries these again (inbox.py:183-221).         *)
NewsReachSender ==
    \A n \in News :
        Unseen(n) => \/ told[n] > 0
                     \/ \E m \in News : notice[m].at \in 1..komplet
                     \/ n \in lost
                     \/ InHand(n)

(* "Claim them first, so a second worker can't send the same email"         *)
(* (inbox.py:182): one email lists a notice that was claimed, and beyond it *)
(* only those of workers that had read it before the claim and beside it    *)
(* one that was left to them - they mail all they read (inbox.py:189).  A   *)
(* notice deleted under their hands is nobody's to claim.                   *)
ToldOnce == \A n \in News : notice[n].emailed => told[n] <= 1 + shared[n]

(* "One notice per answer" (inbox.py:43): answers given at once leave one   *)
(* waiting notice for each process at most.                                 *)
OneNoticePerAnswer == Cardinality(Waiting) <= Cardinality(Recipients)

(* "the "komplet dokumentow" email has told them everything already"        *)
(* (inbox.py:9): unseen news without an email of their own came before the  *)
(* "komplet" email.                                                         *)
KompletToldEverything ==
    \A n \in News :
        Unseen(n) => told[n] > 0 \/ notice[n].at <= komplet \/ n \in lost \/ InHand(n)

(* "Someone uploading non-stop still gets their sender an email this often" *)
(* (inbox.py:26): every notice is claimed or goes with its document, however*)
(* many come after it.                                                      *)
NewsIsWorkedOff == \A n \in News : Unclaimed(n) ~> ~Unclaimed(n)

=============================================================================
