----------------------------- MODULE TeamSeats -----------------------------
(***************************************************************************)
(* The seats of one account's team (apps/accounts/team.py, team_views.py): *)
(* invitations, joining, pausing and resuming people, and the plan they    *)
(* come with.                                                              *)
(*                                                                         *)
(* invite and the two ways to join run in a transaction each, set_access   *)
(* in none; all of them count the seats without a lock and then write.     *)
(***************************************************************************)
EXTENDS Naturals, FiniteSets

CONSTANTS
    Members,      \* people who may join
    Letters,      \* invitations, each used once
    Processes,    \* web processes
    NoLetter,
    To,           \* To[l]: whom the invitation is for
    Plans,        \* numbers of seats, the owner's included
    MaxPlans      \* bound: changes of the plan

TeamAssumption ==
    /\ IsFiniteSet(Members) /\ IsFiniteSet(Letters)
    /\ IsFiniteSet(Processes) /\ Processes # {}
    /\ NoLetter \notin Letters
    /\ To \in [Letters -> Members]
    /\ Plans \subseteq Nat \ {0} /\ Plans # {}
    /\ MaxPlans \in Nat

VARIABLES
    seats,    \* the plan's
    member,   \* the memberships: "none", "active" or "paused"
    letter,   \* the invitations
    hand,     \* what each process is doing
    changes,  \* changes of the plan so far
    shrunk    \* history: the plan got smaller since a free seat was counted

vars == <<seats, member, letter, hand, changes, shrunk>>

MemberStates == {"none", "active", "paused"}

LetterStates == {"new", "waiting", "over"}

\* for: the invitation in hand; who: the membership; drops: the invitations
\* its transaction deleted.
Hand == [doing : {"idle", "invite", "join", "resume"},
         for : Letters \cup {NoLetter}, who : Members, drops : SUBSET Letters]

Resting(m) == [doing |-> "idle", for |-> NoLetter, who |-> m, drops |-> {}]

IsIdle(p) == hand[p].doing = "idle"

Init ==
    /\ seats \in Plans
    /\ member = [m \in Members |-> "none"]
    /\ letter = [l \in Letters |-> "new"]
    /\ \E m \in Members : hand = [p \in Processes |-> Resting(m)]
    /\ changes = 0
    /\ shrunk = FALSE

Active == {m \in Members : member[m] = "active"}

Pending == {l \in Letters : letter[l] = "waiting"}

\* usage()["used"].
Used == 1 + Cardinality(Active) + Cardinality(Pending)

Rest(p) == hand' = [hand EXCEPT ![p] = Resting(hand[p].who)]

\* A row deleted by a transaction that has not committed yet: others still
\* read it, and wait to write it.
Dropped(l) == \E p \in Processes : l \in hand[p].drops

-----------------------------------------------------------------------------
(* Inviting *)

\* Those the new invitation replaces.
Replaced(l) == {k \in Pending : To[k] = To[l]}

\* Mutant of SeatForInvitation: the waiting invitations hold no seat.
SeatForMemberOnly(l) == 1 + Cardinality(Active) < seats

\* usage()["free"] >= 1, once the waiting invitation is deleted.
SeatForInvitation(l) ==
    1 + Cardinality(Active) + Cardinality(Pending \ Replaced(l)) < seats

\* invite, up to the INSERT: why_cannot_join refuses a member.
Invite(p, l) ==
    /\ IsIdle(p)
    /\ letter[l] = "new"
    /\ \A q \in Processes : hand[q].for # l
    /\ member[To[l]] = "none"
    /\ \A k \in Replaced(l) : ~Dropped(k)
    /\ SeatForInvitation(l)
    /\ hand' = [hand EXCEPT ![p] = [doing |-> "invite", for |-> l, who |-> To[l],
                                    drops |-> Replaced(l)]]
    /\ shrunk' = FALSE
    /\ UNCHANGED <<seats, member, letter, changes>>

InviteCommit(p) ==
    /\ hand[p].doing = "invite"
    /\ letter' = [l \in Letters |-> CASE l = hand[p].for -> "waiting"
                                      [] l \in hand[p].drops -> "over"
                                      [] OTHER -> letter[l]]
    /\ Rest(p)
    /\ UNCHANGED <<seats, member, changes, shrunk>>

\* cancel, and INVITATION_DAYS.
Withdraw(l) ==
    /\ letter[l] = "waiting"
    /\ ~Dropped(l)
    /\ letter' = [letter EXCEPT ![l] = "over"]
    /\ UNCHANGED <<seats, member, hand, changes, shrunk>>

-----------------------------------------------------------------------------
(* Joining *)

\* _check_seat: the invitations of others do not count.
SeatForJoining == 1 + Cardinality(Active) < seats

\* join_as_new, join_as_existing, up to _join.
Join(p, l) ==
    /\ IsIdle(p)
    /\ letter[l] = "waiting"
    /\ member[To[l]] = "none"
    /\ SeatForJoining
    /\ hand' = [hand EXCEPT ![p] = [doing |-> "join", for |-> l, who |-> To[l],
                                    drops |-> {}]]
    /\ UNCHANGED <<seats, member, letter, changes, shrunk>>

\* The membership is unique, and the invitation must still be there: anything
\* else rolls the transaction back.
JoinCommit(p) ==
    /\ hand[p].doing = "join"
    /\ ~Dropped(hand[p].for)
    /\ \/ /\ letter[hand[p].for] = "waiting"
          /\ member[hand[p].who] = "none"
          /\ member' = [member EXCEPT ![hand[p].who] = "active"]
          /\ letter' = [letter EXCEPT ![hand[p].for] = "over"]
       \/ /\ letter[hand[p].for] # "waiting" \/ member[hand[p].who] # "none"
          /\ UNCHANGED <<member, letter>>
    /\ Rest(p)
    /\ UNCHANGED <<seats, changes, shrunk>>

-----------------------------------------------------------------------------
(* Managing *)

\* set_access(FALSE).
Pause(m) ==
    /\ member[m] = "active"
    /\ member' = [member EXCEPT ![m] = "paused"]
    /\ UNCHANGED <<seats, letter, hand, changes, shrunk>>

\* set_access(TRUE), up to the check.
Resume(p, m) ==
    /\ IsIdle(p)
    /\ member[m] = "paused"
    /\ Used < seats
    /\ hand' = [hand EXCEPT ![p] = [doing |-> "resume", for |-> NoLetter, who |-> m,
                                    drops |-> {}]]
    /\ shrunk' = FALSE
    /\ UNCHANGED <<seats, member, letter, changes>>

\* save(update_fields) of a membership that is gone raises.
ResumeCommit(p) ==
    /\ hand[p].doing = "resume"
    /\ member' = IF member[hand[p].who] = "none" THEN member
                 ELSE [member EXCEPT ![hand[p].who] = "active"]
    /\ Rest(p)
    /\ UNCHANGED <<seats, letter, changes, shrunk>>

\* remove and leave.
Remove(m) ==
    /\ member[m] # "none"
    /\ member' = [member EXCEPT ![m] = "none"]
    /\ UNCHANGED <<seats, letter, hand, changes, shrunk>>

\* The plan changes, or the trial ends: nobody is removed.
ChangePlan(s) ==
    /\ s # seats
    /\ changes < MaxPlans
    /\ changes' = changes + 1
    /\ seats' = s
    /\ shrunk' = (shrunk \/ s < seats)
    /\ UNCHANGED <<member, letter, hand>>

\* team_page, the owner's.
TeamPage(p) ==
    \/ \E l \in Letters : Invite(p, l) \/ Withdraw(l)
    \/ \E m \in Members : Pause(m) \/ Resume(p, m) \/ Remove(m)

\* team_join, and join_after_login.
JoinPage(p) == \E l \in Letters : Join(p, l)

Next ==
    \/ \E p \in Processes :
        \/ TeamPage(p) \/ JoinPage(p)
        \/ InviteCommit(p) \/ JoinCommit(p) \/ ResumeCommit(p)
    \/ \E s \in Plans : ChangePlan(s)

Spec == Init /\ [][Next]_vars

-----------------------------------------------------------------------------
TypeOK ==
    /\ seats \in Plans
    /\ member \in [Members -> MemberStates]
    /\ letter \in [Letters -> LetterStates]
    /\ hand \in [Processes -> Hand]
    /\ changes \in Nat
    /\ shrunk \in BOOLEAN

\* The seats people hold, and the invitations that are not being replaced.
Held == 1 + Cardinality(Active) + Cardinality({l \in Pending : ~Dropped(l)})

(* "The seat was held by the invitation - unless the plan shrank since"     *)
(* (team.py:279): the people and the invitations waiting never take more    *)
(* than the plan's seats - and one more for each other process that counted *)
(* the same free seat (usage, without a lock).                              *)
SeatsNotOversold == ~shrunk => Held < seats + Cardinality(Processes)

=============================================================================
