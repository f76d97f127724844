----------------------------- MODULE Questions -----------------------------
(***************************************************************************)
(* Questions to a client (apps/requests/questions.py): the places a plan   *)
(* has for open ones (billing/services.py: check_question_allowed), the    *)
(* questions held until the account's address is confirmed, and            *)
(* the conversation - the question, answers, follow-ups - next to the      *)
(* state the item keeps.                                                   *)
(*                                                                         *)
(* A question is a request with one item.  Every action of the panel or of *)
(* the client's page reads the item, checks it, and saves it with a new    *)
(* message in one transaction, without a lock.                             *)
(***************************************************************************)
EXTENDS Naturals, Sequences, FiniteSets

CONSTANTS
    Questions,
    People,       \* web processes, the owner's and the clients'
    NoQuestion,
    OpenPlaces,   \* Plan.open_questions
    RequestsFree, \* whether the plan has a free place for a request
    MaxMessages   \* bound: messages of a question

QuestionAssumption ==
    /\ NoQuestion \notin Questions
    /\ IsFiniteSet(Questions) /\ IsFiniteSet(People)
    /\ OpenPlaces \in Nat
    /\ RequestsFree \in BOOLEAN
    /\ MaxMessages \in Nat

VARIABLES
    item,    \* the question's item
    closed,  \* closed_at of its request
    thread,  \* its QuestionMessage rows, by created_at
    hand,    \* what each process is doing
    proved,  \* the account's address is confirmed
    unsent,  \* the questions held until it is (awaiting_confirmation)
    unasked, \* history: opened without a look at the plan
    raced    \* history: saved over a state that was not the one read

vars == <<item, closed, thread, hand, proved, unsent, unasked, raced>>

Statuses == {"brak", "odrzucony", "dostarczony", "zaakceptowany"}

Waiting == {"brak", "odrzucony"}

Process == [doing : {"idle", "ask", "ask_held", "answer", "follow_up", "resolve"},
            of : Questions \cup {NoQuestion}, copy : Statuses \cup {"none"},
            said : BOOLEAN]

Idle == [doing |-> "idle", of |-> NoQuestion, copy |-> "none", said |-> FALSE]

Init ==
    /\ item = [q \in Questions |-> "none"]
    /\ closed = [q \in Questions |-> FALSE]
    /\ thread = [q \in Questions |-> <<>>]
    /\ hand = [p \in People |-> Idle]
    /\ proved \in BOOLEAN
    /\ unsent = {}
    /\ unasked = {}
    /\ raced = {}

-----------------------------------------------------------------------------
\* open_questions: those held are not among them.
Open == {q \in Questions : item[q] \in Waiting /\ ~closed[q] /\ q \notin unsent}

\* Mutant of PlaceFree: the limit itself is one too many.
PlaceFreeAtLimit == Cardinality(Open) <= OpenPlaces

\* check_question_allowed: counted without the billing row's lock.
PlaceFree == Cardinality(Open) < OpenPlaces

\* ask, up to the check; awaits_verification was asked before it.
Ask(p, q) ==
    /\ hand[p] = Idle
    /\ item[q] = "none"
    /\ \A r \in People : hand[r].of # q
    /\ PlaceFree
    /\ hand' = [hand EXCEPT ![p] = [@ EXCEPT !.of = q, !.doing = IF proved THEN "ask" ELSE "ask_held"]]
    /\ UNCHANGED <<item, closed, thread, proved, unsent, unasked, raced>>

\* RequestService.create commits, held or not; the first message follows.
AskCommit(p) ==
    LET q == hand[p].of IN
    /\ hand[p].doing \in {"ask", "ask_held"}
    /\ item[q] = "none"
    /\ item' = [item EXCEPT ![q] = "brak"]
    /\ thread' = [thread EXCEPT ![q] = <<"sender">>]
    /\ unsent' = IF hand[p].doing = "ask_held" THEN unsent \cup {q} ELSE unsent
    /\ hand' = [hand EXCEPT ![p] = Idle]
    /\ UNCHANGED <<closed, proved, unasked, raced>>

\* The address is confirmed ...
Prove ==
    /\ ~proved
    /\ proved' = TRUE
    /\ UNCHANGED <<item, closed, thread, hand, unsent, unasked, raced>>

\* ... and release_held sends each question held, under its row's lock, with
\* no look at the plan's places and closed or not.
Release(q) ==
    /\ proved
    /\ q \in unsent
    /\ unsent' = unsent \ {q}
    /\ unasked' = IF closed[q] THEN unasked ELSE unasked \cup {q}
    /\ UNCHANGED <<item, closed, thread, hand, proved, raced>>

\* The view reads the item and _still_open looks at it.
Read(p, q, doing) ==
    /\ hand[p] = Idle
    /\ item[q] \in Statuses \ {"zaakceptowany"}
    /\ ~closed[q]
    /\ hand' = [hand EXCEPT ![p] = [doing |-> doing, of |-> q,
                                    copy |-> item[q], said |-> FALSE]]
    /\ UNCHANGED <<item, closed, thread, proved, unsent, unasked, raced>>

\* The client's page does not show one that is held; the panel's actions do
\* not ask.
AnswerRead(p, q) == q \notin unsent /\ Read(p, q, "answer")

FollowUpRead(p, q) == Read(p, q, "follow_up")

ResolveRead(p, q) == item[q] = "dostarczony" /\ Read(p, q, "resolve")

\* The transaction inserts its message...
Say(p, who) ==
    LET q == hand[p].of IN
    /\ ~hand[p].said
    /\ Len(thread[q]) < MaxMessages
    /\ thread' = [thread EXCEPT ![q] = Append(@, who)]
    /\ hand' = [hand EXCEPT ![p].said = TRUE]
    /\ UNCHANGED <<item, closed, proved, unsent, unasked, raced>>

AnswerSay(p) == hand[p].doing = "answer" /\ Say(p, "client")

FollowUpSay(p) == hand[p].doing = "follow_up" /\ Say(p, "sender")

Others(p) == {r \in People \ {p} : hand[r].of = hand[p].of}

\* ... and saves the item: the status it read is not looked at again.
Save(p, status) ==
    LET q == hand[p].of IN
    /\ item' = [item EXCEPT ![q] = status]
    /\ unasked' = CASE status \notin Waiting -> unasked \ {q}
                    [] status \in Waiting /\ q \notin Open -> unasked \cup {q}
                    [] OTHER -> unasked
    /\ raced' = IF item[q] # hand[p].copy \/ Others(p) # {} THEN raced \cup {q} ELSE raced
    /\ hand' = [hand EXCEPT ![p] = Idle]
    /\ UNCHANGED <<closed, thread, proved, unsent>>

\* Mutant of AnswerSave: the answer is kept, the state read is left.
AnswerSaveMissing(p) ==
    hand[p].doing = "answer" /\ hand[p].said /\ Save(p, hand[p].copy)

AnswerSave(p) ==
    hand[p].doing = "answer" /\ hand[p].said /\ Save(p, "dostarczony")

FollowUpSave(p) ==
    hand[p].doing = "follow_up" /\ hand[p].said /\ Save(p, "odrzucony")

ResolveSave(p) == hand[p].doing = "resolve" /\ Save(p, "zaakceptowany")

\* close.
Close(q) ==
    /\ item[q] # "none"
    /\ ~closed[q]
    /\ closed' = [closed EXCEPT ![q] = TRUE]
    /\ unasked' = unasked \ {q}
    /\ UNCHANGED <<item, thread, hand, proved, unsent, raced>>

\* reopen asks for a free place of a request, and not of a question.
Reopen(q) ==
    /\ closed[q]
    /\ RequestsFree
    /\ closed' = [closed EXCEPT ![q] = FALSE]
    /\ unasked' = IF item[q] \in Waiting THEN unasked \cup {q} ELSE unasked
    /\ UNCHANGED <<item, thread, hand, proved, unsent, raced>>

Next ==
    \/ \E p \in People :
        \/ \E q \in Questions :
            Ask(p, q) \/ AnswerRead(p, q) \/ FollowUpRead(p, q) \/ ResolveRead(p, q)
        \/ AskCommit(p) \/ AnswerSay(p) \/ FollowUpSay(p)
        \/ AnswerSave(p) \/ FollowUpSave(p) \/ ResolveSave(p)
    \/ \E q \in Questions : Close(q) \/ Reopen(q) \/ Release(q)
    \/ Prove

Spec == Init /\ [][Next]_vars

-----------------------------------------------------------------------------
TypeOK ==
    /\ item \in [Questions -> Statuses \cup {"none"}]
    /\ closed \in [Questions -> BOOLEAN]
    /\ thread \in [Questions -> Seq({"client", "sender"})]
    /\ hand \in [People -> Process]
    /\ proved \in BOOLEAN
    /\ unsent \subseteq Questions
    /\ unasked \subseteq Questions
    /\ raced \subseteq Questions

(* Questions asked within the plan's places: those open because they were   *)
(* asked are at most one too many for each other process that counted at    *)
(* the same time (billing/services.py:178-195, without a lock).  Opened     *)
(* without a look at the plan, and not among them: one reopened, followed   *)
(* up after its answer, or held and released - while the address is not     *)
(* confirmed none of the held counts, and any number of them may be asked.  *)
AskedWithinPlaces ==
    OpenPlaces > 0 =>
        Cardinality(Open \ unasked) <= OpenPlaces + Cardinality(People) - 1

(* The item's state is where the conversation stands: waiting when the      *)
(* sender spoke last, answered when the client did - unless two of them     *)
(* wrote at once, when the last save wins (questions.py: answer, follow_up).*)
StateFollowsThread ==
    \A q \in Questions :
        q \notin raced /\ (\A p \in People : hand[p].of # q) =>
            /\ item[q] \in Waiting => thread[q][Len(thread[q])] = "sender"
            /\ item[q] = "dostarczony" => thread[q][Len(thread[q])] = "client"

=============================================================================
