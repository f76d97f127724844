------------------------ MODULE MCAccounts_proofs ------------------------
(***************************************************************************)
(* Proofs about the seats of a team and, of an account, the files, links,  *)
(* codes and Google sign-in, for any number of people, invitations,        *)
(* documents, workers, browsers, links, codes and addresses.               *)
(*                                                                         *)
(* Files.  A row without its file and a file without its row are each the  *)
(* unfinished work of some worker (RowsOk, FilesOk); that holds because    *)
(* nobody touches the file an upload is storing (JobOk) and because the    *)
(* list a deletion made still names every row (JobOk, of "erase").         *)
(*                                                                         *)
(* Codes.  Every code that let somebody in is one that works no more       *)
(* (UsedOk), which rests on codes that were mailed or made once (RowOk,    *)
(* SetupOk).  Failures are counted with the browsers past the check of the *)
(* limit (LimitOk).                                                        *)
(*                                                                         *)
(* Links.  A link that proves the account's address names it or finds it   *)
(* proved (LinkOk); a handler under way does too (WorkOk).  While handlers *)
(* do not meet, what one read of the account is still so, and the account  *)
(* has a way in (Undisturbed).                                             *)
(*                                                                         *)
(* Seats.  Only an invitation being stored and an access being given back  *)
(* take a seat when they commit, and each process has one of them at most: *)
(* Room counts them (Taking) next to the seats held.  Joining takes the    *)
(* seat of the invitation it uses up, whatever it counted before.          *)
(*                                                                         *)
(* Google.  What a session, a page and a letter hold was earned by the     *)
(* person at that browser (EarnedBy, PageOk, LetterOk).                    *)
(***************************************************************************)
EXTENDS MCAccounts, Sequences, FiniteSetTheorems, TLAPS

-----------------------------------------------------------------------------
(* Seats *)

\* The invitations that hold a seat.
Kept == {l \in Pending : ~Dropped(l)}

\* The processes whose commit takes a seat.
Taking == {p \in Processes : hand[p].doing \in {"invite", "resume"}}

\* Only inviting deletes invitations, and it and joining have one in hand.
HandKnown ==
    \A p \in Processes :
        /\ hand[p].doing # "invite" => hand[p].drops = {}
        /\ hand[p].doing \in {"invite", "join"} => hand[p].for \in Letters

Room == ~shrunk => Held + Cardinality(Taking) < seats + Cardinality(Processes)

IInv == TypeOK /\ HandKnown /\ Room

-----------------------------------------------------------------------------
(* Counting *)

LEMMA SmallerCounts ==
    ASSUME NEW B, IsFiniteSet(B), NEW C \in SUBSET B
    PROVE  /\ Cardinality(C) <= Cardinality(B)
           /\ Cardinality(C) \in Nat /\ Cardinality(B) \in Nat
<1>1. IsFiniteSet(C) /\ Cardinality(C) <= Cardinality(B)
    BY FS_Subset
<1> QED BY <1>1, FS_CardinalityType

LEMMA OneMoreCounts ==
    ASSUME NEW B, IsFiniteSet(B), NEW x, NEW C \in SUBSET (B \cup {x})
    PROVE  Cardinality(C) <= Cardinality(B) + 1
<1>1. /\ IsFiniteSet(B \cup {x})
      /\ Cardinality(B \cup {x}) = IF x \in B THEN Cardinality(B) ELSE Cardinality(B) + 1
    BY FS_AddElement
<1>2. Cardinality(B) \in Nat
    BY FS_CardinalityType
<1>3. /\ Cardinality(C) <= Cardinality(B \cup {x})
      /\ Cardinality(C) \in Nat /\ Cardinality(B \cup {x}) \in Nat
    BY <1>1, SmallerCounts
<1> QED BY <1>1, <1>2, <1>3

LEMMA OneLessCounts ==
    ASSUME NEW B, IsFiniteSet(B), NEW x \in B
    PROVE  Cardinality(B \ {x}) + 1 = Cardinality(B)
<1>1. Cardinality(B \ {x}) = Cardinality(B) - 1
    BY FS_RemoveElement
<1>2. Cardinality(B) \in Nat
    BY FS_CardinalityType
<1> QED BY <1>1, <1>2

LEMMA FiniteParts ==
    ASSUME TeamAssumption
    PROVE  /\ IsFiniteSet(Active) /\ IsFiniteSet(Pending) /\ IsFiniteSet(Kept)
           /\ IsFiniteSet(Taking) /\ IsFiniteSet(Processes)
           /\ Cardinality(Active) \in Nat /\ Cardinality(Pending) \in Nat
           /\ Cardinality(Kept) \in Nat /\ Cardinality(Taking) \in Nat
           /\ Cardinality(Processes) \in Nat
<1>1. /\ IsFiniteSet(Members) /\ IsFiniteSet(Letters) /\ IsFiniteSet(Processes)
    BY DEF TeamAssumption
<1>2. /\ Active \in SUBSET Members /\ Pending \in SUBSET Letters
      /\ Kept \in SUBSET Letters /\ Taking \in SUBSET Processes
    BY DEF Active, Pending, Kept, Taking
<1>3. /\ IsFiniteSet(Active) /\ IsFiniteSet(Pending) /\ IsFiniteSet(Kept)
      /\ IsFiniteSet(Taking)
    BY <1>1, <1>2, FS_Subset
<1> QED BY <1>1, <1>3, FS_CardinalityType

\* The same of the next state.
LEMMA FinitePartsNext ==
    ASSUME TeamAssumption
    PROVE  /\ IsFiniteSet(Active') /\ IsFiniteSet(Pending') /\ IsFiniteSet(Kept')
           /\ IsFiniteSet(Taking')
           /\ Cardinality(Active') \in Nat /\ Cardinality(Pending') \in Nat
           /\ Cardinality(Kept') \in Nat /\ Cardinality(Taking') \in Nat
<1>1. /\ IsFiniteSet(Members) /\ IsFiniteSet(Letters) /\ IsFiniteSet(Processes)
    BY DEF TeamAssumption
<1>2. /\ Active' \in SUBSET Members /\ Pending' \in SUBSET Letters
      /\ Kept' \in SUBSET Letters /\ Taking' \in SUBSET Processes
    BY DEF Active, Pending, Kept, Taking
<1>3. /\ IsFiniteSet(Active') /\ IsFiniteSet(Pending') /\ IsFiniteSet(Kept')
      /\ IsFiniteSet(Taking')
    BY <1>1, <1>2, FS_Subset
<1> QED BY <1>3, FS_CardinalityType

LEMMA HeldSum == Held = 1 + Cardinality(Active) + Cardinality(Kept)
BY DEF Held, Kept

LEMMA HeldSumNext == Held' = 1 + Cardinality(Active') + Cardinality(Kept')
BY DEF Held, Kept

LEMMA HeldType ==
    ASSUME TeamAssumption
    PROVE  Held \in Nat /\ Held' \in Nat
BY HeldSum, HeldSumNext, FiniteParts, FinitePartsNext

(* Seats are given back at most.                                           *)
LEMMA HeldLess ==
    ASSUME TeamAssumption, Active' \in SUBSET Active, Kept' \in SUBSET Kept
    PROVE  Held' <= Held
<1>1. /\ Cardinality(Active') <= Cardinality(Active)
      /\ Cardinality(Kept') <= Cardinality(Kept)
    BY FiniteParts, SmallerCounts
<1> QED BY <1>1, HeldSum, HeldSumNext, FiniteParts, FinitePartsNext

(* One invitation more, or one person.                                     *)
LEMMA HeldInvited ==
    ASSUME TeamAssumption, Active' \in SUBSET Active,
           NEW x, Kept' \in SUBSET (Kept \cup {x})
    PROVE  Held' <= Held + 1
<1>1. Cardinality(Active') <= Cardinality(Active)
    BY FiniteParts, SmallerCounts
<1>2. Cardinality(Kept') <= Cardinality(Kept) + 1
    BY FiniteParts, OneMoreCounts
<1> QED BY <1>1, <1>2, HeldSum, HeldSumNext, FiniteParts, FinitePartsNext

LEMMA HeldResumed ==
    ASSUME TeamAssumption, Kept' \in SUBSET Kept,
           NEW x, Active' \in SUBSET (Active \cup {x})
    PROVE  Held' <= Held + 1
<1>1. Cardinality(Kept') <= Cardinality(Kept)
    BY FiniteParts, SmallerCounts
<1>2. Cardinality(Active') <= Cardinality(Active) + 1
    BY FiniteParts, OneMoreCounts
<1> QED BY <1>1, <1>2, HeldSum, HeldSumNext, FiniteParts, FinitePartsNext

(* A person for an invitation.                                             *)
LEMMA HeldJoined ==
    ASSUME TeamAssumption, NEW l \in Kept, Kept' \in SUBSET (Kept \ {l}),
           NEW x, Active' \in SUBSET (Active \cup {x})
    PROVE  Held' <= Held
<1>1. Cardinality(Kept') + 1 <= Cardinality(Kept)
    <2>1. IsFiniteSet(Kept \ {l}) /\ Cardinality(Kept \ {l}) + 1 = Cardinality(Kept)
        BY FiniteParts, OneLessCounts, FS_RemoveElement
    <2>2. Cardinality(Kept') <= Cardinality(Kept \ {l}) /\ Cardinality(Kept \ {l}) \in Nat
        BY <2>1, SmallerCounts
    <2> QED BY <2>1, <2>2, FiniteParts, FinitePartsNext
<1>2. Cardinality(Active') <= Cardinality(Active) + 1
    BY FiniteParts, OneMoreCounts
<1> QED BY <1>1, <1>2, HeldSum, HeldSumNext, FiniteParts, FinitePartsNext

(* A step that takes no seat and begins nothing that will.                 *)
LEMMA RoomKept ==
    ASSUME TeamAssumption, TypeOK, Room, Held' <= Held,
           Taking' \in SUBSET Taking, seats' = seats, shrunk' = shrunk
    PROVE  Room'
<1>1. Cardinality(Taking') <= Cardinality(Taking)
    BY FiniteParts, SmallerCounts
<1>2. seats \in Nat
    BY DEF TypeOK, TeamAssumption
<1> QED BY <1>1, <1>2, HeldType, FiniteParts, FinitePartsNext DEF Room

(* A free seat has been counted, and will be taken.                        *)
LEMMA RoomCounted ==
    ASSUME TeamAssumption, TypeOK, Held' < seats, seats' = seats
    PROVE  Room'
<1>1. Taking' \in SUBSET Processes
    BY DEF Taking
<1>2. Cardinality(Taking') <= Cardinality(Processes)
    BY <1>1, FiniteParts, SmallerCounts
<1>3. seats \in Nat
    BY DEF TypeOK, TeamAssumption
<1>4. Held' \in Nat
    BY HeldSumNext, FinitePartsNext
<1> QED BY <1>2, <1>3, <1>4, FiniteParts, FinitePartsNext DEF Room

(* A commit takes the seat its process was about to take.                  *)
LEMMA RoomTaken ==
    ASSUME TeamAssumption, TypeOK, Room, NEW p \in Taking, Held' <= Held + 1,
           Taking' = Taking \ {p}, seats' = seats, shrunk' = shrunk
    PROVE  Room'
<1>1. Cardinality(Taking') + 1 = Cardinality(Taking)
    BY FiniteParts, OneLessCounts
<1>2. seats \in Nat
    BY DEF TypeOK, TeamAssumption
<1> QED BY <1>1, <1>2, HeldType, FiniteParts, FinitePartsNext DEF Room

-----------------------------------------------------------------------------
(* Types *)

LEMMA RestType ==
    ASSUME TypeOK, HandKnown, NEW p \in Processes, Rest(p)
    PROVE  /\ hand' \in [Processes -> Hand]
           /\ HandKnown'
<1>1. hand[p].who \in Members
    BY DEF TypeOK, Hand
<1>2. Resting(hand[p].who) \in Hand
    BY <1>1 DEF Resting, Hand
<1>3. hand' \in [Processes -> Hand]
    BY <1>2 DEF Rest, TypeOK
<1>4. HandKnown'
    BY DEF Rest, HandKnown, Resting, TypeOK
<1> QED BY <1>3, <1>4

LEMMA BeginType ==
    ASSUME TypeOK, HandKnown, NEW p \in Processes, NEW h \in Hand,
           h.doing # "invite" => h.drops = {},
           h.doing \in {"invite", "join"} => h.for \in Letters,
           hand' = [hand EXCEPT ![p] = h]
    PROVE  /\ hand' \in [Processes -> Hand]
           /\ HandKnown'
BY DEF TypeOK, HandKnown

(* The page of the team, once for each of its steps.                       *)
LEMMA TypeStep ==
    ASSUME TeamAssumption, TypeOK, HandKnown, [Next]_vars
    PROVE  TypeOK' /\ HandKnown'
<1>1. ASSUME NEW p \in Processes, NEW l \in Letters, Invite(p, l)
      PROVE  TypeOK' /\ HandKnown'
    <2> DEFINE h == [doing |-> "invite", for |-> l, who |-> To[l], drops |-> Replaced(l)]
    <2>1. h \in Hand
        BY DEF Hand, Replaced, Pending, TeamAssumption
    <2>2. hand' \in [Processes -> Hand] /\ HandKnown'
        BY <1>1, <2>1, BeginType DEF Invite
    <2> QED BY <1>1, <2>2 DEF Invite, TypeOK
<1>2. ASSUME NEW p \in Processes, InviteCommit(p)
      PROVE  TypeOK' /\ HandKnown'
    <2>1. letter' \in [Letters -> LetterStates]
        BY <1>2 DEF InviteCommit, TypeOK, LetterStates
    <2> QED BY <1>2, <2>1, RestType DEF InviteCommit, TypeOK
<1>3. ASSUME NEW l \in Letters, Withdraw(l)
      PROVE  TypeOK' /\ HandKnown'
    BY <1>3 DEF Withdraw, TypeOK, LetterStates, HandKnown
<1>4. ASSUME NEW p \in Processes, NEW l \in Letters, Join(p, l)
      PROVE  TypeOK' /\ HandKnown'
    <2> DEFINE h == [doing |-> "join", for |-> l, who |-> To[l], drops |-> {}]
    <2>1. h \in Hand
        BY DEF Hand, TeamAssumption
    <2>2. hand' \in [Processes -> Hand] /\ HandKnown'
        BY <1>4, <2>1, BeginType DEF Join
    <2> QED BY <1>4, <2>2 DEF Join, TypeOK
<1>5. ASSUME NEW p \in Processes, JoinCommit(p)
      PROVE  TypeOK' /\ HandKnown'
    <2>1. member' \in [Members -> MemberStates] /\ letter' \in [Letters -> LetterStates]
        BY <1>5 DEF JoinCommit, TypeOK, LetterStates, MemberStates
    <2> QED BY <1>5, <2>1, RestType DEF JoinCommit, TypeOK
<1>6. ASSUME NEW m \in Members, Pause(m)
      PROVE  TypeOK' /\ HandKnown'
    BY <1>6 DEF Pause, TypeOK, MemberStates, HandKnown
<1>7. ASSUME NEW p \in Processes, NEW m \in Members, Resume(p, m)
      PROVE  TypeOK' /\ HandKnown'
    <2> DEFINE h == [doing |-> "resume", for |-> NoLetter, who |-> m, drops |-> {}]
    <2>1. h \in Hand
        BY DEF Hand
    <2>2. hand' \in [Processes -> Hand] /\ HandKnown'
        BY <1>7, <2>1, BeginType DEF Resume
    <2> QED BY <1>7, <2>2 DEF Resume, TypeOK
<1>8. ASSUME NEW p \in Processes, ResumeCommit(p)
      PROVE  TypeOK' /\ HandKnown'
    <2>1. member' \in [Members -> MemberStates]
        BY <1>8 DEF ResumeCommit, TypeOK, MemberStates
    <2> QED BY <1>8, <2>1, RestType DEF ResumeCommit, TypeOK
<1>9. ASSUME NEW m \in Members, Remove(m)
      PROVE  TypeOK' /\ HandKnown'
    BY <1>9 DEF Remove, TypeOK, MemberStates, HandKnown
<1>10. ASSUME NEW s \in Plans, ChangePlan(s)
       PROVE  TypeOK' /\ HandKnown'
    <2>1. shrunk' \in BOOLEAN
        BY <1>10 DEF ChangePlan, TypeOK
    <2>2. changes' \in Nat
        BY <1>10 DEF ChangePlan, TypeOK
    <2> QED BY <1>10, <2>1, <2>2 DEF ChangePlan, TypeOK, HandKnown
<1>11. CASE UNCHANGED vars
    BY <1>11 DEF vars, TypeOK, HandKnown
<1> QED BY <1>1, <1>2, <1>3, <1>4, <1>5, <1>6, <1>7, <1>8, <1>9, <1>10, <1>11
        DEF Next, TeamPage, JoinPage

-----------------------------------------------------------------------------
(* Seats *)

LEMMA InviteRoom ==
    ASSUME TeamAssumption, TypeOK, NEW p \in Processes, NEW l \in Letters, Invite(p, l)
    PROVE  Room'
<1>1. Active' = Active /\ seats' = seats
    BY DEF Invite, Active
<1>2. Kept' \in SUBSET (Pending \ Replaced(l))
    <2>1. Pending' = Pending
        BY DEF Invite, Pending
    <2>2. \A k \in Replaced(l) : Dropped(k)'
        BY DEF Invite, Dropped, TypeOK
    <2> QED BY <2>1, <2>2 DEF Kept
<1>3. Cardinality(Kept') <= Cardinality(Pending \ Replaced(l))
      /\ Cardinality(Pending \ Replaced(l)) \in Nat
    <2>1. IsFiniteSet(Pending \ Replaced(l))
        BY FiniteParts, FS_Subset, Pending \ Replaced(l) \in SUBSET Pending
    <2> QED BY <1>2, <2>1, SmallerCounts
<1>4. 1 + Cardinality(Active) + Cardinality(Pending \ Replaced(l)) < seats
    BY DEF Invite, SeatForInvitation
<1>5. seats \in Nat
    BY DEF TypeOK, TeamAssumption
<1>6. Held' < seats
    <2>1. Held' = 1 + Cardinality(Active) + Cardinality(Kept')
        BY <1>1, HeldSumNext
    <2> QED BY <1>3, <1>4, <1>5, <2>1, FiniteParts, FinitePartsNext
<1> QED BY <1>1, <1>6, RoomCounted

LEMMA InviteCommitRoom ==
    ASSUME TeamAssumption, TypeOK, HandKnown, Room, NEW p \in Processes, InviteCommit(p)
    PROVE  Room'
<1>1. p \in Taking /\ Taking' = Taking \ {p}
    BY DEF InviteCommit, Taking, Rest, Resting, TypeOK
<1>2. Active' = Active /\ seats' = seats /\ shrunk' = shrunk
    BY DEF InviteCommit, Active
<1>3. Kept' \in SUBSET (Kept \cup {hand[p].for})
    <2> SUFFICES ASSUME NEW k \in Kept', k # hand[p].for
                 PROVE  k \in Kept
        OBVIOUS
    <2>1. k \in Letters /\ letter'[k] = "waiting" /\ ~Dropped(k)'
        BY DEF Kept, Pending
    <2>2. letter[k] = "waiting" /\ k \notin hand[p].drops
        BY <2>1 DEF InviteCommit, TypeOK
    <2>3. \A q \in Processes : q # p => k \notin hand[q].drops
        BY <2>1 DEF InviteCommit, Rest, Dropped, TypeOK
    <2> QED BY <2>1, <2>2, <2>3 DEF Kept, Pending, Dropped
<1>4. Held' <= Held + 1
    BY <1>2, <1>3, HeldInvited
<1> QED BY <1>1, <1>2, <1>4, RoomTaken

LEMMA JoinCommitRoom ==
    ASSUME TeamAssumption, TypeOK, HandKnown, Room, NEW p \in Processes, JoinCommit(p)
    PROVE  Room'
<1>1. /\ Taking' = Taking
      /\ \A k : Dropped(k)' <=> Dropped(k)
    BY DEF JoinCommit, Taking, Dropped, Rest, Resting, HandKnown, TypeOK
<1>2. seats' = seats /\ shrunk' = shrunk
    BY DEF JoinCommit
<1>3. CASE UNCHANGED <<member, letter>>
    <2>1. Active' = Active /\ Kept' = Kept
        BY <1>1, <1>3 DEF Active, Kept, Pending
    <2>2. Held' <= Held
        BY <2>1, HeldLess
    <2> QED BY <1>1, <1>2, <2>2, RoomKept
<1>4. CASE ~UNCHANGED <<member, letter>>
    <2> DEFINE l == hand[p].for
               m == hand[p].who
    <2>1. /\ letter[l] = "waiting" /\ ~Dropped(l) /\ member[m] = "none"
          /\ member' = [member EXCEPT ![m] = "active"]
          /\ letter' = [letter EXCEPT ![l] = "over"]
        BY <1>4 DEF JoinCommit
    <2>2. l \in Letters
        BY DEF JoinCommit, HandKnown
    <2>3. l \in Kept
        BY <2>1, <2>2 DEF Kept, Pending
    <2>4. Kept' \in SUBSET (Kept \ {l})
        BY <1>1, <2>1 DEF Kept, Pending, TypeOK
    <2>5. Active' \in SUBSET (Active \cup {m})
        BY <2>1 DEF Active, TypeOK
    <2>6. Held' <= Held
        BY <2>3, <2>4, <2>5, HeldJoined
    <2> QED BY <1>1, <1>2, <2>6, RoomKept
<1> QED BY <1>3, <1>4

LEMMA ResumeRoom ==
    ASSUME TeamAssumption, TypeOK, NEW p \in Processes, NEW m \in Members, Resume(p, m)
    PROVE  Room'
<1>1. Active' = Active /\ Pending' = Pending /\ seats' = seats
    BY DEF Resume, Active, Pending
<1>2. Cardinality(Kept') <= Cardinality(Pending)
    BY <1>1, FiniteParts, SmallerCounts, Kept' \in SUBSET Pending' DEF Kept
<1>3. 1 + Cardinality(Active) + Cardinality(Pending) < seats
    BY DEF Resume, Used
<1>4. seats \in Nat
    BY DEF TypeOK, TeamAssumption
<1>5. Held' = 1 + Cardinality(Active) + Cardinality(Kept')
    BY <1>1, HeldSumNext
<1>6. Held' < seats
    BY <1>2, <1>3, <1>4, <1>5, FiniteParts, FinitePartsNext
<1> QED BY <1>1, <1>6, RoomCounted

LEMMA ResumeCommitRoom ==
    ASSUME TeamAssumption, TypeOK, HandKnown, Room, NEW p \in Processes, ResumeCommit(p)
    PROVE  Room'
<1>1. p \in Taking /\ Taking' = Taking \ {p}
    BY DEF ResumeCommit, Taking, Rest, Resting, TypeOK
<1>2. seats' = seats /\ shrunk' = shrunk
    BY DEF ResumeCommit
<1>3. Active' \in SUBSET (Active \cup {hand[p].who})
    BY DEF ResumeCommit, Active, TypeOK
<1>4. Kept' \in SUBSET Kept
    <2>1. Pending' = Pending
        BY DEF ResumeCommit, Pending
    <2>2. \A k : Dropped(k)' <=> Dropped(k)
        BY DEF ResumeCommit, Dropped, Rest, Resting, HandKnown, TypeOK
    <2> QED BY <2>1, <2>2 DEF Kept
<1>5. Held' <= Held + 1
    BY <1>3, <1>4, HeldResumed
<1> QED BY <1>1, <1>2, <1>5, RoomTaken

(* Withdrawing, pausing and removing give seats back; joining only counts. *)
LEMMA GiveBackRoom ==
    ASSUME TeamAssumption, TypeOK, HandKnown, Room,
           \/ \E l \in Letters : Withdraw(l)
           \/ \E m \in Members : Pause(m) \/ Remove(m)
           \/ \E p \in Processes, l \in Letters : Join(p, l)
           \/ UNCHANGED vars
    PROVE  Room'
<1>1. seats' = seats /\ shrunk' = shrunk
    BY DEF Withdraw, Pause, Remove, Join, vars
<1>2. Taking' \in SUBSET Taking /\ \A k : Dropped(k)' <=> Dropped(k)
    <2>1. CASE \E p \in Processes, l \in Letters : Join(p, l)
        BY <2>1 DEF Join, IsIdle, Taking, Dropped, HandKnown, TypeOK
    <2>2. CASE hand' = hand
        BY <2>2 DEF Taking, Dropped
    <2> QED BY <2>1, <2>2 DEF Withdraw, Pause, Remove, vars
<1>3. Active' \in SUBSET Active
    BY DEF Withdraw, Pause, Remove, Join, vars, Active, TypeOK
<1>4. Kept' \in SUBSET Kept
    <2>1. Pending' \in SUBSET Pending
        BY DEF Withdraw, Pause, Remove, Join, vars, Pending, TypeOK
    <2> QED BY <1>2, <2>1 DEF Kept
<1>5. Held' <= Held
    BY <1>3, <1>4, HeldLess
<1> QED BY <1>1, <1>2, <1>5, RoomKept

LEMMA ChangePlanRoom ==
    ASSUME TeamAssumption, TypeOK, Room, NEW s \in Plans, ChangePlan(s)
    PROVE  Room'
<1>1. /\ Active' = Active /\ Pending' = Pending
      /\ Kept' = Kept /\ Taking' = Taking
    BY DEF ChangePlan, Active, Pending, Kept, Dropped, Taking
<1>2. Held' = Held
    BY <1>1, HeldSum, HeldSumNext
<1>3. seats \in Nat /\ s \in Nat /\ seats' = s
    BY DEF ChangePlan, TypeOK, TeamAssumption
<1>4. ~shrunk' => ~shrunk /\ ~(s < seats)
    BY DEF ChangePlan
<1> QED BY <1>1, <1>2, <1>3, <1>4, HeldType, FiniteParts DEF Room

-----------------------------------------------------------------------------
(* The invariant *)

LEMMA InitInv == ASSUME TeamAssumption, Init PROVE IInv
<1>1. TypeOK
    <2>1. hand \in [Processes -> Hand]
        BY DEF Init, Resting, Hand
    <2>2. member \in [Members -> MemberStates] /\ letter \in [Letters -> LetterStates]
        BY DEF Init, MemberStates, LetterStates
    <2> QED BY <2>1, <2>2 DEF Init, TypeOK
<1>2. HandKnown
    BY DEF Init, Resting, HandKnown
<1>3. Room
    <2>1. Active = {} /\ Kept = {} /\ Taking = {}
        BY DEF Init, Active, Kept, Pending, Taking, Resting
    <2>2. Held = 1 /\ Cardinality(Taking) = 0
        BY <2>1, HeldSum, FS_EmptySet
    <2>3. seats \in Nat /\ seats > 0
        BY DEF Init, TeamAssumption
    <2>4. Cardinality(Processes) \in Nat /\ Cardinality(Processes) # 0
        BY FS_EmptySet, FS_CardinalityType DEF TeamAssumption
    <2> QED BY <2>2, <2>3, <2>4 DEF Room
<1> QED BY <1>1, <1>2, <1>3 DEF IInv

LEMMA NextInv ==
    ASSUME TeamAssumption, IInv, [Next]_vars
    PROVE  IInv'
<1> USE DEF IInv
<1>1. TypeOK' /\ HandKnown'
    BY TypeStep
<1>2. Room'
    <2>1. ASSUME NEW p \in Processes, TeamPage(p)
          PROVE  Room'
        BY <2>1, InviteRoom, ResumeRoom, GiveBackRoom DEF TeamPage
    <2>2. ASSUME NEW p \in Processes,
                 JoinPage(p) \/ InviteCommit(p) \/ JoinCommit(p) \/ ResumeCommit(p)
          PROVE  Room'
        BY <2>2, InviteCommitRoom, JoinCommitRoom, ResumeCommitRoom, GiveBackRoom
           DEF JoinPage
    <2>3. ASSUME NEW s \in Plans, ChangePlan(s)
          PROVE  Room'
        BY <2>3, ChangePlanRoom
    <2>4. CASE UNCHANGED vars
        BY <2>4, GiveBackRoom
    <2> QED BY <2>1, <2>2, <2>3, <2>4 DEF Next
<1> QED BY <1>1, <1>2

LEMMA Invariant == ASSUME TeamAssumption PROVE Spec => []IInv
<1>1. Init => IInv
    BY InitInv
<1>2. IInv /\ [Next]_vars => IInv'
    BY NextInv
<1> QED BY <1>1, <1>2, PTL DEF Spec

(* The variables of the team keep their sets.                              *)
THEOREM TypeCorrect == ASSUME TeamAssumption PROVE Spec => []TypeOK
<1>1. IInv => TypeOK
    BY DEF IInv
<1> QED BY <1>1, Invariant, PTL

(* However many people, invitations and web processes: seats are oversold  *)
(* by fewer than the processes that count them at once (team.py:210, 281). *)
THEOREM SeatsHold == ASSUME TeamAssumption PROVE Spec => []SeatsNotOversold
<1>1. ASSUME IInv
      PROVE  SeatsNotOversold
    <2>1. ~shrunk => Held + Cardinality(Taking) < seats + Cardinality(Processes)
        BY <1>1 DEF IInv, Room
    <2>2. seats \in Nat
        BY <1>1 DEF IInv, TypeOK, TeamAssumption
    <2> QED BY <2>1, <2>2, HeldType, FiniteParts DEF SeatsNotOversold
<1> QED BY <1>1, Invariant, PTL

-----------------------------------------------------------------------------
(* Files: the invariant *)

Job == [pc : {"idle", "create", "delete", "retain", "erase", "unlink"},
        docs : SUBSET Docs, todo : SUBSET Docs]

FilesTyped ==
    /\ request \in BOOLEAN /\ lost \in BOOLEAN
    /\ row \in [Docs -> {"none", "row", "anonymized"}]
    /\ disk \in SUBSET Docs /\ old \in SUBSET Docs
    /\ job \in [Workers -> Job]
    /\ crashes \in Nat

\* What every handler may rely on in the middle of its work.
JobOk(w) ==
    /\ job[w].todo \subseteq job[w].docs
    /\ job[w].pc = "create" =>
        /\ job[w].docs \subseteq disk
        /\ \A d \in job[w].docs : row[d] = "none"
        /\ \A v \in Workers : v # w => job[v].docs \cap job[w].docs = {}
    /\ job[w].pc = "delete" => job[w].docs \cap disk = {}
    /\ job[w].pc = "retain" => (job[w].docs \ job[w].todo) \cap disk = {}
    /\ job[w].pc = "erase" /\ ~lost => \A d \in Docs : row[d] = "row" => d \in job[w].todo
    /\ job[w].pc = "unlink" => ~request

GoneOk ==
    /\ ~request => \A d \in Docs : row[d] = "none"
    /\ \A d \in Docs : row[d] = "anonymized" => d \notin disk

\* A row without its file: it is being deleted or emptied.
RowsOk ==
    crashes = 0 => \A d \in Docs : row[d] = "row" /\ d \notin disk =>
        \E w \in Workers :
            \/ job[w].pc = "delete" /\ d \in job[w].docs
            \/ job[w].pc = "retain" /\ d \in job[w].docs \ job[w].todo

\* A file without its row: it is being stored or unlinked.
FilesOk ==
    crashes = 0 /\ ~lost => \A d \in disk :
        \/ row[d] = "row"
        \/ \E w \in Workers :
            \/ job[w].pc = "create" /\ d \in job[w].docs
            \/ job[w].pc = "unlink" /\ d \in job[w].todo

FilesInv ==
    /\ FilesTyped
    /\ \A w \in Workers : JobOk(w)
    /\ GoneOk /\ RowsOk /\ FilesOk
-----------------------------------------------------------------------------
(* Files: every step keeps the invariant *)

LEMMA FilesStore ==
    ASSUME FilesInv, NEW w \in Workers, NEW d \in Docs, S!StoreFile(w, d)
    PROVE  FilesInv'
<1>1. FilesTyped'
  BY DEF FilesInv, FilesTyped, Job, S!StoreFile, S!Begin, S!Set, S!Idle, S!Fresh
<1>2. ASSUME NEW v \in Workers PROVE JobOk(v)'
  BY DEF FilesInv, FilesTyped, Job, JobOk, GoneOk, S!StoreFile, S!Begin, S!Set, S!Idle, S!Fresh
<1>3. GoneOk'
  BY DEF FilesInv, FilesTyped, Job, JobOk, GoneOk, S!StoreFile, S!Begin, S!Set, S!Idle, S!Fresh
<1>4. RowsOk'
  BY DEF FilesInv, FilesTyped, Job, JobOk, GoneOk, RowsOk, S!StoreFile, S!Begin, S!Set, S!Idle, S!Fresh
<1>5. FilesOk'
  BY DEF FilesInv, FilesTyped, Job, JobOk, GoneOk, FilesOk, S!StoreFile, S!Begin, S!Set, S!Idle, S!Fresh
<1> QED BY <1>1, <1>2, <1>3, <1>4, <1>5 DEF FilesInv

LEMMA FilesCreate ==
    ASSUME FilesInv, NEW w \in Workers, S!CreateRow(w)
    PROVE  FilesInv'
<1>1. FilesTyped'
  BY DEF FilesInv, FilesTyped, Job, S!CreateRow, S!Begin, S!Set, S!Idle
<1>2. ASSUME NEW v \in Workers PROVE JobOk(v)'
  BY DEF FilesInv, FilesTyped, Job, JobOk, GoneOk, S!CreateRow, S!Begin, S!Set, S!Idle
<1>3. GoneOk'
  BY DEF FilesInv, FilesTyped, Job, JobOk, GoneOk, S!CreateRow, S!Begin, S!Set, S!Idle
<1>4. RowsOk'
  BY DEF FilesInv, FilesTyped, Job, JobOk, GoneOk, RowsOk, S!CreateRow, S!Begin, S!Set, S!Idle
<1>5. FilesOk'
  BY DEF FilesInv, FilesTyped, Job, JobOk, GoneOk, FilesOk, S!CreateRow, S!Begin, S!Set, S!Idle
<1> QED BY <1>1, <1>2, <1>3, <1>4, <1>5 DEF FilesInv

LEMMA FilesDelete ==
    ASSUME FilesInv, NEW w \in Workers, NEW d \in Docs, S!DeleteFile(w, d)
    PROVE  FilesInv'
<1>1. FilesTyped'
  BY DEF FilesInv, FilesTyped, Job, S!DeleteFile, S!Begin, S!Set, S!Idle
<1>2. ASSUME NEW v \in Workers PROVE JobOk(v)'
  BY DEF FilesInv, FilesTyped, Job, JobOk, GoneOk, S!DeleteFile, S!Begin, S!Set, S!Idle
<1>3. GoneOk'
  BY DEF FilesInv, FilesTyped, Job, JobOk, GoneOk, S!DeleteFile, S!Begin, S!Set, S!Idle
<1>4. RowsOk'
  BY DEF FilesInv, FilesTyped, Job, JobOk, GoneOk, RowsOk, S!DeleteFile, S!Begin, S!Set, S!Idle
<1>5. FilesOk'
  BY DEF FilesInv, FilesTyped, Job, JobOk, GoneOk, FilesOk, S!DeleteFile, S!Begin, S!Set, S!Idle
<1> QED BY <1>1, <1>2, <1>3, <1>4, <1>5 DEF FilesInv

LEMMA FilesDeleteRow ==
    ASSUME FilesInv, NEW w \in Workers, S!DeleteRow(w)
    PROVE  FilesInv'
<1>1. FilesTyped'
  BY DEF FilesInv, FilesTyped, Job, S!DeleteRow, S!Begin, S!Set, S!Idle
<1>2. ASSUME NEW v \in Workers PROVE JobOk(v)'
  BY DEF FilesInv, FilesTyped, Job, JobOk, GoneOk, S!DeleteRow, S!Begin, S!Set, S!Idle
<1>3. GoneOk'
  BY DEF FilesInv, FilesTyped, Job, JobOk, GoneOk, S!DeleteRow, S!Begin, S!Set, S!Idle
<1>4. RowsOk'
  BY DEF FilesInv, FilesTyped, Job, JobOk, GoneOk, RowsOk, S!DeleteRow, S!Begin, S!Set, S!Idle
<1>5. FilesOk'
  BY DEF FilesInv, FilesTyped, Job, JobOk, GoneOk, FilesOk, S!DeleteRow, S!Begin, S!Set, S!Idle
<1> QED BY <1>1, <1>2, <1>3, <1>4, <1>5 DEF FilesInv

LEMMA FilesExpire ==
    ASSUME FilesInv, NEW d \in Docs, S!Expire(d)
    PROVE  FilesInv'
<1>1. FilesTyped'
  BY DEF FilesInv, FilesTyped, Job, S!Expire
<1>2. ASSUME NEW v \in Workers PROVE JobOk(v)'
  BY DEF FilesInv, FilesTyped, Job, JobOk, GoneOk, S!Expire
<1>3. GoneOk'
  BY DEF FilesInv, FilesTyped, Job, JobOk, GoneOk, S!Expire
<1>4. RowsOk'
  BY DEF FilesInv, FilesTyped, Job, JobOk, GoneOk, RowsOk, S!Expire
<1>5. FilesOk'
  BY DEF FilesInv, FilesTyped, Job, JobOk, GoneOk, FilesOk, S!Expire
<1> QED BY <1>1, <1>2, <1>3, <1>4, <1>5 DEF FilesInv

LEMMA FilesRetain ==
    ASSUME FilesInv, NEW w \in Workers, S!Retain(w)
    PROVE  FilesInv'
<1>1. FilesTyped'
  BY DEF FilesInv, FilesTyped, Job, S!Retain, S!Begin, S!Set, S!Idle, S!ExpiredDocuments
<1>2. ASSUME NEW v \in Workers PROVE JobOk(v)'
  BY DEF FilesInv, FilesTyped, Job, JobOk, GoneOk, S!Retain, S!Begin, S!Set, S!Idle, S!ExpiredDocuments
<1>3. GoneOk'
  BY DEF FilesInv, FilesTyped, Job, JobOk, GoneOk, S!Retain, S!Begin, S!Set, S!Idle, S!ExpiredDocuments
<1>4. RowsOk'
  BY DEF FilesInv, FilesTyped, Job, JobOk, GoneOk, RowsOk, S!Retain, S!Begin, S!Set, S!Idle, S!ExpiredDocuments
<1>5. FilesOk'
  BY DEF FilesInv, FilesTyped, Job, JobOk, GoneOk, FilesOk, S!Retain, S!Begin, S!Set, S!Idle, S!ExpiredDocuments
<1> QED BY <1>1, <1>2, <1>3, <1>4, <1>5 DEF FilesInv

LEMMA FilesRetained ==
    ASSUME FilesInv, NEW w \in Workers, NEW d \in Docs, S!RetainFile(w, d)
    PROVE  FilesInv'
<1>1. FilesTyped'
  BY DEF FilesInv, FilesTyped, Job, S!RetainFile, S!Begin, S!Set, S!Idle
<1>2. ASSUME NEW v \in Workers PROVE JobOk(v)'
  BY DEF FilesInv, FilesTyped, Job, JobOk, GoneOk, S!RetainFile, S!Begin, S!Set, S!Idle
<1>3. GoneOk'
  BY DEF FilesInv, FilesTyped, Job, JobOk, GoneOk, S!RetainFile, S!Begin, S!Set, S!Idle
<1>4. RowsOk'
  BY DEF FilesInv, FilesTyped, Job, JobOk, GoneOk, RowsOk, S!RetainFile, S!Begin, S!Set, S!Idle
<1>5. FilesOk'
  BY DEF FilesInv, FilesTyped, Job, JobOk, GoneOk, FilesOk, S!RetainFile, S!Begin, S!Set, S!Idle
<1> QED BY <1>1, <1>2, <1>3, <1>4, <1>5 DEF FilesInv

LEMMA FilesCommit ==
    ASSUME FilesInv, NEW w \in Workers, S!RetainCommit(w)
    PROVE  FilesInv'
<1>1. FilesTyped'
  BY DEF FilesInv, FilesTyped, Job, S!RetainCommit, S!Begin, S!Set, S!Idle
<1>2. ASSUME NEW v \in Workers PROVE JobOk(v)'
  BY DEF FilesInv, FilesTyped, Job, JobOk, GoneOk, S!RetainCommit, S!Begin, S!Set, S!Idle
<1>3. GoneOk'
  BY DEF FilesInv, FilesTyped, Job, JobOk, GoneOk, S!RetainCommit, S!Begin, S!Set, S!Idle
<1>4. RowsOk'
  BY DEF FilesInv, FilesTyped, Job, JobOk, GoneOk, RowsOk, S!RetainCommit, S!Begin, S!Set, S!Idle
<1>5. FilesOk'
  BY DEF FilesInv, FilesTyped, Job, JobOk, GoneOk, FilesOk, S!RetainCommit, S!Begin, S!Set, S!Idle
<1> QED BY <1>1, <1>2, <1>3, <1>4, <1>5 DEF FilesInv

LEMMA FilesList ==
    ASSUME FilesInv, NEW w \in Workers, S!EraseList(w)
    PROVE  FilesInv'
<1>1. FilesTyped'
  BY DEF FilesInv, FilesTyped, Job, S!EraseList, S!Begin, S!Set, S!Idle
<1>2. ASSUME NEW v \in Workers PROVE JobOk(v)'
  BY DEF FilesInv, FilesTyped, Job, JobOk, GoneOk, S!EraseList, S!Begin, S!Set, S!Idle
<1>3. GoneOk'
  BY DEF FilesInv, FilesTyped, Job, JobOk, GoneOk, S!EraseList, S!Begin, S!Set, S!Idle
<1>4. RowsOk'
  BY DEF FilesInv, FilesTyped, Job, JobOk, GoneOk, RowsOk, S!EraseList, S!Begin, S!Set, S!Idle
<1>5. FilesOk'
  BY DEF FilesInv, FilesTyped, Job, JobOk, GoneOk, FilesOk, S!EraseList, S!Begin, S!Set, S!Idle
<1> QED BY <1>1, <1>2, <1>3, <1>4, <1>5 DEF FilesInv

LEMMA FilesErase ==
    ASSUME FilesInv, NEW w \in Workers, S!EraseRows(w)
    PROVE  FilesInv'
<1>1. FilesTyped'
  BY DEF FilesInv, FilesTyped, Job, S!EraseRows, S!Begin, S!Set, S!Idle
<1>2. ASSUME NEW v \in Workers PROVE JobOk(v)'
  BY DEF FilesInv, FilesTyped, Job, JobOk, GoneOk, S!EraseRows, S!Begin, S!Set, S!Idle
<1>3. GoneOk'
  BY DEF FilesInv, FilesTyped, Job, JobOk, GoneOk, S!EraseRows, S!Begin, S!Set, S!Idle
<1>4. RowsOk'
  BY DEF FilesInv, FilesTyped, Job, JobOk, GoneOk, RowsOk, S!EraseRows, S!Begin, S!Set, S!Idle
<1>5. FilesOk'
  BY DEF FilesInv, FilesTyped, Job, JobOk, GoneOk, FilesOk, S!EraseRows, S!Begin, S!Set, S!Idle
<1> QED BY <1>1, <1>2, <1>3, <1>4, <1>5 DEF FilesInv

LEMMA FilesUnlink ==
    ASSUME FilesInv, NEW w \in Workers, S!Unlink(w)
    PROVE  FilesInv'
<1>1. FilesTyped'
  BY DEF FilesInv, FilesTyped, Job, S!Unlink, S!Begin, S!Set, S!Idle
<1>2. ASSUME NEW v \in Workers PROVE JobOk(v)'
  BY DEF FilesInv, FilesTyped, Job, JobOk, GoneOk, S!Unlink, S!Begin, S!Set, S!Idle
<1>3. GoneOk'
  BY DEF FilesInv, FilesTyped, Job, JobOk, GoneOk, S!Unlink, S!Begin, S!Set, S!Idle
<1>4. RowsOk'
  BY DEF FilesInv, FilesTyped, Job, JobOk, GoneOk, RowsOk, S!Unlink, S!Begin, S!Set, S!Idle
<1>5. FilesOk'
  BY DEF FilesInv, FilesTyped, Job, JobOk, GoneOk, FilesOk, S!Unlink, S!Begin, S!Set, S!Idle
<1> QED BY <1>1, <1>2, <1>3, <1>4, <1>5 DEF FilesInv

LEMMA FilesNothing ==
    ASSUME FilesInv, NEW w \in Workers, S!NothingToUnlink(w)
    PROVE  FilesInv'
<1>1. FilesTyped'
  BY DEF FilesInv, FilesTyped, Job, S!NothingToUnlink, S!Begin, S!Set, S!Idle
<1>2. ASSUME NEW v \in Workers PROVE JobOk(v)'
  BY DEF FilesInv, FilesTyped, Job, JobOk, GoneOk, S!NothingToUnlink, S!Begin, S!Set, S!Idle
<1>3. GoneOk'
  BY DEF FilesInv, FilesTyped, Job, JobOk, GoneOk, S!NothingToUnlink, S!Begin, S!Set, S!Idle
<1>4. RowsOk'
  BY DEF FilesInv, FilesTyped, Job, JobOk, GoneOk, RowsOk, S!NothingToUnlink, S!Begin, S!Set, S!Idle
<1>5. FilesOk'
  BY DEF FilesInv, FilesTyped, Job, JobOk, GoneOk, FilesOk, S!NothingToUnlink, S!Begin, S!Set, S!Idle
<1> QED BY <1>1, <1>2, <1>3, <1>4, <1>5 DEF FilesInv

LEMMA FilesFails ==
    ASSUME FilesInv, NEW w \in Workers, S!EraseFails(w)
    PROVE  FilesInv'
<1>1. FilesTyped'
  BY DEF FilesInv, FilesTyped, Job, S!EraseFails, S!Begin, S!Set, S!Idle
<1>2. ASSUME NEW v \in Workers PROVE JobOk(v)'
  BY DEF FilesInv, FilesTyped, Job, JobOk, GoneOk, S!EraseFails, S!Begin, S!Set, S!Idle
<1>3. GoneOk'
  BY DEF FilesInv, FilesTyped, Job, JobOk, GoneOk, S!EraseFails, S!Begin, S!Set, S!Idle
<1>4. RowsOk'
  BY DEF FilesInv, FilesTyped, Job, JobOk, GoneOk, RowsOk, S!EraseFails, S!Begin, S!Set, S!Idle
<1>5. FilesOk'
  BY DEF FilesInv, FilesTyped, Job, JobOk, GoneOk, FilesOk, S!EraseFails, S!Begin, S!Set, S!Idle
<1> QED BY <1>1, <1>2, <1>3, <1>4, <1>5 DEF FilesInv

LEMMA FilesCrash ==
    ASSUME FilesInv, NEW w \in Workers, S!Crash(w)
    PROVE  FilesInv'
<1>1. FilesTyped'
  BY DEF FilesInv, FilesTyped, Job, S!Crash, S!Begin, S!Set, S!Idle
<1>2. ASSUME NEW v \in Workers PROVE JobOk(v)'
  BY DEF FilesInv, FilesTyped, Job, JobOk, GoneOk, S!Crash, S!Begin, S!Set, S!Idle
<1>3. GoneOk'
  BY DEF FilesInv, FilesTyped, Job, JobOk, GoneOk, S!Crash, S!Begin, S!Set, S!Idle
<1>4. RowsOk'
  BY DEF FilesInv, FilesTyped, Job, JobOk, GoneOk, RowsOk, S!Crash, S!Begin, S!Set, S!Idle
<1>5. FilesOk'
  BY DEF FilesInv, FilesTyped, Job, JobOk, GoneOk, FilesOk, S!Crash, S!Begin, S!Set, S!Idle
<1> QED BY <1>1, <1>2, <1>3, <1>4, <1>5 DEF FilesInv

LEMMA FilesStutter ==
    ASSUME FilesInv, UNCHANGED fileVars
    PROVE  FilesInv'
BY DEF FilesInv, FilesTyped, Job, JobOk, GoneOk, RowsOk, FilesOk, fileVars

LEMMA FilesInit ==
    ASSUME S!Init
    PROVE  FilesInv
BY DEF S!Init, S!Idle, FilesInv, FilesTyped, Job, JobOk, GoneOk, RowsOk, FilesOk

LEMMA FilesStep ==
    ASSUME FilesInv, S!Next
    PROVE  FilesInv'
<1>1. ASSUME NEW d \in Docs, S!Expire(d) PROVE FilesInv'
  BY <1>1, FilesExpire
<1>2. ASSUME NEW w \in Workers, S!Step(w) PROVE FilesInv'
  BY <1>2, FilesCreate, FilesDeleteRow, FilesCommit, FilesErase, FilesUnlink, FilesNothing,
     FilesRetained DEF S!Step
<1>3. ASSUME NEW w \in Workers, S!Retain(w) \/ S!EraseList(w) \/ S!EraseFails(w) \/ S!Crash(w)
      PROVE  FilesInv'
  BY <1>3, FilesRetain, FilesList, FilesFails, FilesCrash
<1>4. ASSUME NEW w \in Workers, NEW d \in Docs, S!StoreFile(w, d) \/ S!DeleteFile(w, d)
      PROVE  FilesInv'
  BY <1>4, FilesStore, FilesDelete
<1> QED BY <1>1, <1>2, <1>3, <1>4 DEF S!Next

\* "Nothing identifying remains in storage" (retention.py:25-26) of a row
\* emptied; and unless a worker was killed, a row keeps its file and a file
\* its row, but for an upload that met the deletion of its request.
THEOREM FilesOnDisk == PartSpec => []FilesKeepStep
<1>1. PartInit => FilesInv
  BY FilesInit DEF PartInit
<1>2. FilesInv /\ [PartNext]_<<part, vars, accountVars, signInVars, fileVars, googleVars>>
      => FilesInv'
  <2> SUFFICES ASSUME FilesInv, PartNext PROVE FilesInv'
    BY FilesStutter
  <2> QED BY FilesStep, FilesStutter DEF PartNext
<1>3. FilesInv => FilesKeepStep
  BY DEF FilesInv, FilesTyped, Job, JobOk, GoneOk, RowsOk, FilesOk, FilesKeepStep,
         S!FilesKeepStep, S!Orderly, S!Idle
<1> QED BY <1>1, <1>2, <1>3, PTL DEF PartSpec

-----------------------------------------------------------------------------
(* Codes: the invariant *)

Code == [kind : {"none", "wrong", "app", "email", "backup"}, of : Nat, n : Nat]

RowOfCodes == [on : BOOLEAN, method : {"app", "email"}, nonce : Nat, last : Nat,
               backup : SUBSET Code, code : Code, sent : Nat]

Setup == [method : {"none", "app", "email"}, code : Code, since : Nat, sent : Nat]

Browser == [pc : {"out", "typed", "held", "checked", "refused", "in"},
            for : {"login", "disable", "codes"}, pw : Nat, since : Nat, code : Code,
            nonce : Nat, npw : Nat, setup : Setup]

CodesTyped ==
    /\ now \in Nat \ {0} /\ password \in Nat /\ mails \in Nat /\ setups \in Nat
    /\ twofactor \in RowOfCodes
    /\ browser \in [Browsers -> Browser]
    /\ fails \in [{"password", "code"} -> Nat]
    /\ used \in SUBSET Code

\* The requests past the check of a limit whose failure is not counted yet.
Trying(key) ==
    {b \in Browsers : browser[b].pc \in IF key = "password" THEN {"typed"} ELSE {"checked", "refused"}}

LimitOk(key) ==
    fails[key] + Cardinality(Trying(key)) <= Failures + Cardinality(Browsers) - 1

\* The row: its code was mailed, its backup codes and its secret were made.
RowOk ==
    /\ twofactor.code = T!Nothing \/ \E n \in 1..mails : twofactor.code = T!Mailed(n)
    /\ \A c \in twofactor.backup : c.kind = "backup" /\ c.of <= setups
    /\ twofactor.on => twofactor.nonce \in 1..setups
    /\ twofactor.nonce <= setups

\* A setup under way: its code was mailed, or its secret is nobody else's.
SetupOk(b) ==
    LET s == browser[b].setup IN
    /\ s.method = "email" => \E n \in 1..mails : s.code = T!Mailed(n)
    /\ s.method = "none" => s = T!NoSetup
    /\ s.method = "app" =>
        /\ s.code.kind = "app" /\ s.code.of \in 1..setups /\ s.code.of # twofactor.nonce
        /\ \A d \in Browsers : d # b /\ browser[d].setup.method = "app" =>
              browser[d].setup.code.of # s.code.of

\* A code that let somebody through works no more.
UsedOk(c) ==
    /\ c.kind \in {"app", "email", "backup"}
    /\ c.kind = "email" =>
        /\ \E n \in 1..mails : c = T!Mailed(n)
        /\ c # twofactor.code
    /\ c.kind = "backup" => c.of <= setups /\ c \notin twofactor.backup
    /\ c.kind = "app" =>
        /\ c.of \in 1..setups
        /\ c.of = twofactor.nonce => c.n <= twofactor.last
        /\ \A b \in Browsers : browser[b].setup.method = "app" =>
              browser[b].setup.code.of # c.of

CodesInv ==
    /\ CodesTyped
    /\ RowOk
    /\ \A b \in Browsers : SetupOk(b)
    /\ \A c \in used : UsedOk(c)
    /\ LimitOk("password") /\ LimitOk("code")
    /\ ~reused

-----------------------------------------------------------------------------
(* Codes: counting the failures *)

\* The notions of finite sets are those of SignIn.
LEMMA SameSets ==
    ASSUME NEW X
    PROVE  (T!IsFiniteSet(X) <=> IsFiniteSet(X)) /\ T!Cardinality(X) = Cardinality(X)
<1>1. T!IsFiniteSet(X) <=> IsFiniteSet(X)
  BY DEF T!IsFiniteSet, IsFiniteSet
<1>2. T!Cardinality(X) = Cardinality(X)
  BY DEF T!Cardinality, Cardinality
<1> QED BY <1>1, <1>2

LEMMA TryingFinite ==
    ASSUME T!SignInAssumption, NEW key
    PROVE  /\ IsFiniteSet(Browsers) /\ IsFiniteSet(Trying(key)) /\ IsFiniteSet(Trying(key)')
           /\ Cardinality(Browsers) \in Nat
           /\ Cardinality(Trying(key)) \in Nat /\ Cardinality(Trying(key)') \in Nat
           /\ Cardinality(Trying(key)') <= Cardinality(Browsers)
<1>1. IsFiniteSet(Browsers)
  BY SameSets DEF T!SignInAssumption
<1>2. Trying(key) \subseteq Browsers /\ Trying(key)' \subseteq Browsers
  BY DEF Trying
<1>3. /\ IsFiniteSet(Trying(key))
      /\ IsFiniteSet(Trying(key)') /\ Cardinality(Trying(key)') <= Cardinality(Browsers)
  BY <1>1, <1>2, FS_Subset
<1> QED BY <1>1, <1>3, FS_CardinalityType

\* No failure counted and nobody new past the check.
LEMMA LimitFewer ==
    ASSUME T!SignInAssumption, CodesTyped, NEW key \in {"password", "code"}, LimitOk(key),
           fails'[key] = fails[key], Trying(key)' \subseteq Trying(key)
    PROVE  LimitOk(key)'
<1>1. Cardinality(Trying(key)') <= Cardinality(Trying(key))
  BY TryingFinite, FS_Subset
<1>2. fails[key] \in Nat /\ Failures \in Nat
  BY DEF CodesTyped, T!SignInAssumption
<1> QED BY <1>1, <1>2, TryingFinite DEF LimitOk

\* Somebody passed the check just now: one failure less than the limit.
LEMMA LimitRead ==
    ASSUME T!SignInAssumption, CodesTyped, NEW key \in {"password", "code"},
           fails'[key] = fails[key], fails[key] < Failures
    PROVE  LimitOk(key)'
<1>1. fails[key] \in Nat /\ Failures \in Nat
  BY DEF CodesTyped, T!SignInAssumption
<1> QED BY <1>1, TryingFinite DEF LimitOk

\* A failure counted is one request less on its way.
LEMMA LimitCounted ==
    ASSUME T!SignInAssumption, CodesTyped, NEW key \in {"password", "code"}, LimitOk(key),
           NEW b \in Trying(key), fails'[key] = fails[key] + 1, Trying(key)' = Trying(key) \ {b}
    PROVE  LimitOk(key)'
<1>1. Cardinality(Trying(key)') = Cardinality(Trying(key)) - 1
  BY TryingFinite, FS_RemoveElement
<1>2. fails[key] \in Nat /\ Failures \in Nat
  BY DEF CodesTyped, T!SignInAssumption
<1> QED BY <1>1, <1>2, TryingFinite DEF LimitOk

\* Somebody got through, and is on the way no longer.
LEMMA LimitCleared ==
    ASSUME T!SignInAssumption, CodesTyped, NEW key \in {"password", "code"},
           NEW b \in Browsers, fails'[key] = 0, b \notin Trying(key)'
    PROVE  LimitOk(key)'
<1>1. Trying(key)' \subseteq Browsers \ {b}
  BY DEF Trying
<1>2. /\ Cardinality(Trying(key)') <= Cardinality(Browsers \ {b})
      /\ Cardinality(Browsers \ {b}) = Cardinality(Browsers) - 1
  BY <1>1, TryingFinite, FS_Subset, FS_RemoveElement
<1>3. Failures \in Nat \ {0}
  BY DEF T!SignInAssumption
<1> QED BY <1>2, <1>3, TryingFinite DEF LimitOk

-----------------------------------------------------------------------------
(* Codes: every step keeps the invariant *)

\* A setup goes on while nobody takes its secret and nothing mailed is lost.
LEMMA SetupKept ==
    ASSUME CodesInv, NEW e \in Browsers,
           mails' \in Nat, mails <= mails', setups' \in Nat, setups <= setups',
           twofactor'.nonce \in {0, twofactor.nonce},
           \A d \in Browsers : browser'[d].setup \in {browser[d].setup, T!NoSetup}
    PROVE  SetupOk(e)'
<1>0. /\ SetupOk(e) /\ mails \in Nat /\ setups \in Nat
      /\ T!NoSetup.method = "none"
  BY DEF CodesInv, CodesTyped, T!NoSetup
<1>1. CASE browser'[e].setup = T!NoSetup
  BY <1>0, <1>1 DEF SetupOk
<1>2. CASE browser'[e].setup = browser[e].setup
  <2>1. 1..mails \subseteq 1..mails' /\ 1..setups \subseteq 1..setups'
    BY <1>0
  <2>2. ASSUME browser[e].setup.method = "app", NEW d \in Browsers, d # e,
               browser'[d].setup.method = "app"
        PROVE  browser'[d].setup.code.of # browser[e].setup.code.of
    <3>1. browser'[d].setup = browser[d].setup
      BY <1>0, <2>2
    <3> QED BY <1>0, <2>2, <3>1 DEF SetupOk
  <2>3. ASSUME browser[e].setup.method = "app"
        PROVE  browser[e].setup.code.of # twofactor'.nonce
    <3>1. browser[e].setup.code.of \in 1..setups
      BY <1>0, <2>3 DEF SetupOk
    <3>2. browser[e].setup.code.of # 0
      BY <1>0, <3>1
    <3> QED BY <1>0, <2>3, <3>2 DEF SetupOk
  <2> QED BY <1>0, <1>2, <2>1, <2>2, <2>3 DEF SetupOk
<1> QED BY <1>1, <1>2

\* A code mailed for the row is a new one, and all the row's else is kept.
LEMMA CodeMailed ==
    ASSUME CodesInv,
           \/ twofactor' = twofactor /\ mails' = mails
           \/ /\ mails' = mails + 1
              /\ twofactor' = [twofactor EXCEPT !.code = T!Mailed(mails + 1), !.sent = now]
    PROVE  /\ twofactor' \in RowOfCodes /\ twofactor'.nonce = twofactor.nonce
           /\ twofactor'.on = twofactor.on /\ twofactor'.backup = twofactor.backup
           /\ twofactor'.last = twofactor.last
           /\ mails' \in Nat /\ mails <= mails'
           /\ \/ twofactor'.code = twofactor.code
              \/ twofactor'.code = T!Mailed(mails + 1) /\ mails' = mails + 1
<1>1. T!Mailed(mails + 1) \in Code /\ twofactor \in RowOfCodes /\ now \in Nat /\ mails \in Nat
  BY DEF CodesInv, CodesTyped, T!Mailed, Code
<1>2. CASE twofactor' = twofactor /\ mails' = mails
  BY <1>1, <1>2
<1>3. CASE /\ mails' = mails + 1
           /\ twofactor' = [twofactor EXCEPT !.code = T!Mailed(mails + 1), !.sent = now]
  <2> DEFINE x == T!Mailed(mails + 1)
  <2>1. x \in Code /\ twofactor' = [twofactor EXCEPT !.code = x, !.sent = now]
    BY <1>1, <1>3
  <2> HIDE DEF x
  <2>2. twofactor' \in RowOfCodes
    BY <1>1, <2>1 DEF RowOfCodes
  <2>3. /\ twofactor'.nonce = twofactor.nonce /\ twofactor'.on = twofactor.on
        /\ twofactor'.backup = twofactor.backup /\ twofactor'.last = twofactor.last
        /\ twofactor'.code = x
    BY <1>1, <2>1 DEF RowOfCodes
  <2> QED BY <1>1, <1>3, <2>2, <2>3 DEF x
<1> QED BY <1>2, <1>3

\* A code that matches was not used, and using it up ends it.
LEMMA UsedUpRow ==
    ASSUME CodesInv, NEW c \in Code, T!Matches(c)
    PROVE  /\ T!UsedUp(c) \in RowOfCodes
           /\ T!UsedUp(c).on /\ twofactor.on
           /\ T!UsedUp(c).nonce = twofactor.nonce
           /\ T!UsedUp(c).backup \subseteq twofactor.backup
           /\ T!UsedUp(c).code \in {twofactor.code, T!Nothing}
           /\ T!UsedUp(c).last >= twofactor.last
           /\ c \notin used
           /\ c.kind \in {"app", "email", "backup"}
           /\ c.kind = "email" => (\E n \in 1..mails : c = T!Mailed(n)) /\ c # T!UsedUp(c).code
           /\ c.kind = "backup" => c.of <= setups /\ c \notin T!UsedUp(c).backup
           /\ c.kind = "app" => c.of = twofactor.nonce /\ c.n <= T!UsedUp(c).last
<1>1. /\ twofactor \in RowOfCodes /\ twofactor.on
      /\ \A k \in used : UsedOk(k)
      /\ RowOk
  BY DEF CodesInv, CodesTyped, T!Matches
<1>2. \/ c.kind = "email" /\ c = twofactor.code
      \/ c.kind = "app" /\ c.of = twofactor.nonce /\ c.n > twofactor.last
      \/ c.kind = "backup" /\ c \in twofactor.backup
  <2>1. \/ c = twofactor.code /\ c # T!Nothing
        \/ c.kind = "app" /\ c.of = twofactor.nonce /\ c.n > twofactor.last
        \/ c \in twofactor.backup
    BY DEF T!Matches, T!EmailMatches, T!StepMatches
  <2>2. c = twofactor.code /\ c # T!Nothing => c.kind = "email"
    <3>1. twofactor.code = T!Nothing \/ \E n \in 1..mails : twofactor.code = T!Mailed(n)
      BY <1>1 DEF RowOk
    <3>2. \A n : T!Mailed(n).kind = "email"
      BY DEF T!Mailed
    <3> QED BY <3>1, <3>2
  <2>3. c \in twofactor.backup => c.kind = "backup"
    BY <1>1 DEF RowOk
  <2> QED BY <2>1, <2>2, <2>3
<1>3. T!Nothing \in Code
  BY DEF T!Nothing, Code
<1>4. CASE c.kind = "email"
  <2>1. c = twofactor.code /\ T!UsedUp(c) = [twofactor EXCEPT !.code = T!Nothing]
    BY <1>2, <1>4 DEF T!UsedUp
  <2>2. (\E n \in 1..mails : c = T!Mailed(n)) /\ c # T!Nothing
    BY <1>1, <1>4, <2>1 DEF RowOk, T!Nothing
  <2>3. c \notin used
    BY <1>1, <1>4, <2>1 DEF UsedOk
  <2> QED BY <1>1, <1>3, <1>4, <2>1, <2>2, <2>3 DEF RowOfCodes
<1>5. CASE c.kind = "app"
  <2>1. /\ c.of = twofactor.nonce /\ c.n > twofactor.last
        /\ T!UsedUp(c) = [twofactor EXCEPT !.last = c.n]
    BY <1>2, <1>5 DEF T!UsedUp
  <2>2. c.n \in Nat /\ twofactor.last \in Nat
    BY <1>1 DEF Code, RowOfCodes
  <2>3. c \notin used
    BY <1>1, <1>5, <2>1, <2>2 DEF UsedOk
  <2> QED BY <1>1, <1>5, <2>1, <2>2, <2>3 DEF RowOfCodes
<1>6. CASE c.kind = "backup"
  <2>1. c \in twofactor.backup /\ T!UsedUp(c) = [twofactor EXCEPT !.backup = @ \ {c}]
    BY <1>2, <1>6 DEF T!UsedUp
  <2>2. c.of <= setups
    BY <1>1, <2>1 DEF RowOk
  <2>3. c \notin used
    BY <1>1, <1>6, <2>1 DEF UsedOk
  <2> QED BY <1>1, <1>6, <2>1, <2>2, <2>3 DEF RowOfCodes
<1> QED BY <1>2, <1>4, <1>5, <1>6

LEMMA CodesTick ==
    ASSUME T!SignInAssumption, CodesInv,
           T!Tick
    PROVE  CodesInv'
<1>1. CodesTyped'
  BY DEF T!SignInAssumption, CodesInv, CodesTyped, Code, RowOfCodes, RowOk, T!Tick
<1>2. RowOk'
  BY <1>1 DEF CodesInv, CodesTyped, Code, RowOfCodes, RowOk, SetupOk, T!Nothing, T!Mailed, T!Tick
<1>3. ASSUME NEW e \in Browsers PROVE SetupOk(e)'
  <2>1. /\ mails' \in Nat /\ mails <= mails' /\ setups' \in Nat /\ setups <= setups'
        /\ twofactor'.nonce \in {0, twofactor.nonce}
        /\ \A d \in Browsers : browser'[d].setup \in {browser[d].setup, T!NoSetup}
    BY DEF CodesInv, CodesTyped, Code, RowOfCodes, RowOk, T!Tick
  <2> QED BY <2>1, SetupKept
<1>4. ASSUME NEW k \in used' PROVE UsedOk(k)'
  BY DEF CodesInv, CodesTyped, Code, RowOfCodes, RowOk, SetupOk, UsedOk, T!NoSetup, T!Nothing, T!Mailed, T!Tick
<1>5. LimitOk("password")'
  <2>1. fails'["password"] = fails["password"] /\ Trying("password")' \subseteq Trying("password")
    BY DEF Trying, CodesInv, CodesTyped, T!Tick
  <2> QED BY <2>1, LimitFewer DEF CodesInv
<1>6. LimitOk("code")'
  <2>1. fails'["code"] = fails["code"] /\ Trying("code")' \subseteq Trying("code")
    BY DEF Trying, CodesInv, CodesTyped, T!Tick
  <2> QED BY <2>1, LimitFewer DEF CodesInv
<1>7. ~reused'
  BY DEF CodesInv, CodesTyped, Code, RowOfCodes, UsedOk, T!Tick
<1> QED BY <1>1, <1>2, <1>3, <1>4, <1>5, <1>6, <1>7 DEF CodesInv

LEMMA CodesAdminDisable ==
    ASSUME T!SignInAssumption, CodesInv,
           T!AdminDisable
    PROVE  CodesInv'
<1>1. CodesTyped'
  BY DEF T!SignInAssumption, CodesInv, CodesTyped, Code, RowOfCodes, RowOk, T!AdminDisable, T!NoRow, T!Nothing
<1>2. RowOk'
  BY <1>1 DEF CodesInv, CodesTyped, Code, RowOfCodes, RowOk, SetupOk, T!Nothing, T!Mailed, T!AdminDisable, T!NoRow, T!Nothing
<1>3. ASSUME NEW e \in Browsers PROVE SetupOk(e)'
  <2>1. /\ mails' \in Nat /\ mails <= mails' /\ setups' \in Nat /\ setups <= setups'
        /\ twofactor'.nonce \in {0, twofactor.nonce}
        /\ \A d \in Browsers : browser'[d].setup \in {browser[d].setup, T!NoSetup}
    BY DEF CodesInv, CodesTyped, Code, RowOfCodes, RowOk, T!AdminDisable, T!NoRow, T!Nothing
  <2> QED BY <2>1, SetupKept
<1>4. ASSUME NEW k \in used' PROVE UsedOk(k)'
  BY DEF CodesInv, CodesTyped, Code, RowOfCodes, RowOk, SetupOk, UsedOk, T!NoSetup, T!Nothing, T!Mailed, T!AdminDisable, T!NoRow, T!Nothing
<1>5. LimitOk("password")'
  <2>1. fails'["password"] = fails["password"] /\ Trying("password")' \subseteq Trying("password")
    BY DEF Trying, CodesInv, CodesTyped, T!AdminDisable, T!NoRow, T!Nothing
  <2> QED BY <2>1, LimitFewer DEF CodesInv
<1>6. LimitOk("code")'
  <2>1. fails'["code"] = fails["code"] /\ Trying("code")' \subseteq Trying("code")
    BY DEF Trying, CodesInv, CodesTyped, T!AdminDisable, T!NoRow, T!Nothing
  <2> QED BY <2>1, LimitFewer DEF CodesInv
<1>7. ~reused'
  BY DEF CodesInv, CodesTyped, Code, RowOfCodes, UsedOk, T!AdminDisable, T!NoRow, T!Nothing
<1> QED BY <1>1, <1>2, <1>3, <1>4, <1>5, <1>6, <1>7 DEF CodesInv

LEMMA CodesNewPassword ==
    ASSUME T!SignInAssumption, CodesInv,
           T!NewPassword
    PROVE  CodesInv'
<1>1. CodesTyped'
  BY DEF T!SignInAssumption, CodesInv, CodesTyped, Code, RowOfCodes, RowOk, T!NewPassword
<1>2. RowOk'
  BY <1>1 DEF CodesInv, CodesTyped, Code, RowOfCodes, RowOk, SetupOk, T!Nothing, T!Mailed, T!NewPassword
<1>3. ASSUME NEW e \in Browsers PROVE SetupOk(e)'
  <2>1. /\ mails' \in Nat /\ mails <= mails' /\ setups' \in Nat /\ setups <= setups'
        /\ twofactor'.nonce \in {0, twofactor.nonce}
        /\ \A d \in Browsers : browser'[d].setup \in {browser[d].setup, T!NoSetup}
    BY DEF CodesInv, CodesTyped, Code, RowOfCodes, RowOk, T!NewPassword
  <2> QED BY <2>1, SetupKept
<1>4. ASSUME NEW k \in used' PROVE UsedOk(k)'
  BY DEF CodesInv, CodesTyped, Code, RowOfCodes, RowOk, SetupOk, UsedOk, T!NoSetup, T!Nothing, T!Mailed, T!NewPassword
<1>5. LimitOk("password")'
  <2>1. fails'["password"] = fails["password"] /\ Trying("password")' \subseteq Trying("password")
    BY DEF Trying, CodesInv, CodesTyped, T!NewPassword
  <2> QED BY <2>1, LimitFewer DEF CodesInv
<1>6. LimitOk("code")'
  <2>1. fails'["code"] = fails["code"] /\ Trying("code")' \subseteq Trying("code")
    BY DEF Trying, CodesInv, CodesTyped, T!NewPassword
  <2> QED BY <2>1, LimitFewer DEF CodesInv
<1>7. ~reused'
  BY DEF CodesInv, CodesTyped, Code, RowOfCodes, UsedOk, T!NewPassword
<1> QED BY <1>1, <1>2, <1>3, <1>4, <1>5, <1>6, <1>7 DEF CodesInv

LEMMA CodesPasswordTyped ==
    ASSUME T!SignInAssumption, CodesInv, NEW b \in Browsers,
           T!PasswordTyped(b)
    PROVE  CodesInv'
<1> DEFINE r == [browser[b] EXCEPT !.pc = "typed"]
<1>r. browser[b] \in Browser
  BY DEF CodesInv, CodesTyped
<1>s. r \in Browser /\ r.pc = "typed" /\ r.setup = browser[b].setup
  BY <1>r DEF Browser, Code, CodesInv, CodesTyped
<1>b. browser' = [browser EXCEPT ![b] = r]
  BY DEF T!PasswordTyped, T!Set
<1> HIDE DEF r
<1>e. /\ browser' \in [Browsers -> Browser] /\ browser'[b] = r
      /\ \A e \in Browsers : e # b => browser'[e] = browser[e]
  BY <1>s, <1>b DEF CodesInv, CodesTyped
<1>1. CodesTyped'
  BY <1>e, <1>s DEF T!SignInAssumption, CodesInv, CodesTyped, Code, RowOfCodes, RowOk, T!PasswordTyped, T!Set, T!At
<1>2. RowOk'
  BY <1>1, <1>e, <1>s DEF CodesInv, CodesTyped, Code, RowOfCodes, RowOk, SetupOk, T!Nothing, T!Mailed, T!PasswordTyped, T!Set, T!At
<1>3. ASSUME NEW e \in Browsers PROVE SetupOk(e)'
  <2>1. /\ mails' \in Nat /\ mails <= mails' /\ setups' \in Nat /\ setups <= setups'
        /\ twofactor'.nonce \in {0, twofactor.nonce}
        /\ \A d \in Browsers : browser'[d].setup \in {browser[d].setup, T!NoSetup}
    BY <1>e, <1>s DEF CodesInv, CodesTyped, Code, RowOfCodes, RowOk, T!PasswordTyped, T!Set, T!At
  <2> QED BY <2>1, SetupKept
<1>4. ASSUME NEW k \in used' PROVE UsedOk(k)'
  BY <1>e, <1>s DEF CodesInv, CodesTyped, Code, RowOfCodes, RowOk, SetupOk, UsedOk, T!NoSetup, T!Nothing, T!Mailed, T!PasswordTyped, T!Set, T!At
<1>5. LimitOk("password")'
  <2>1. fails'["password"] = fails["password"] /\ fails["password"] < Failures
    BY DEF T!Limited, T!SignInAssumption, CodesInv, CodesTyped, T!PasswordTyped, T!Set, T!At
  <2> QED BY <2>1, LimitRead DEF CodesInv
<1>6. LimitOk("code")'
  <2>1. fails'["code"] = fails["code"] /\ Trying("code")' \subseteq Trying("code")
    BY <1>e, <1>s DEF Trying, CodesInv, CodesTyped, T!PasswordTyped, T!Set, T!At
  <2> QED BY <2>1, LimitFewer DEF CodesInv
<1>7. ~reused'
  BY DEF CodesInv, CodesTyped, Code, RowOfCodes, UsedOk, T!PasswordTyped, T!Set, T!At
<1> QED BY <1>1, <1>2, <1>3, <1>4, <1>5, <1>6, <1>7 DEF CodesInv

LEMMA CodesPasswordRefused ==
    ASSUME T!SignInAssumption, CodesInv, NEW b \in Browsers,
           T!PasswordRefused(b)
    PROVE  CodesInv'
<1> DEFINE r == [browser[b] EXCEPT !.pc = "out"]
<1>r. browser[b] \in Browser
  BY DEF CodesInv, CodesTyped
<1>s. r \in Browser /\ r.pc = "out" /\ r.setup = browser[b].setup
  BY <1>r DEF Browser, Code, CodesInv, CodesTyped
<1>b. browser' = [browser EXCEPT ![b] = r]
  BY DEF T!PasswordRefused, T!Set
<1> HIDE DEF r
<1>e. /\ browser' \in [Browsers -> Browser] /\ browser'[b] = r
      /\ \A e \in Browsers : e # b => browser'[e] = browser[e]
  BY <1>s, <1>b DEF CodesInv, CodesTyped
<1>1. CodesTyped'
  BY <1>e, <1>s DEF T!SignInAssumption, CodesInv, CodesTyped, Code, RowOfCodes, RowOk, T!PasswordRefused, T!Set, T!At
<1>2. RowOk'
  BY <1>1, <1>e, <1>s DEF CodesInv, CodesTyped, Code, RowOfCodes, RowOk, SetupOk, T!Nothing, T!Mailed, T!PasswordRefused, T!Set, T!At
<1>3. ASSUME NEW e \in Browsers PROVE SetupOk(e)'
  <2>1. /\ mails' \in Nat /\ mails <= mails' /\ setups' \in Nat /\ setups <= setups'
        /\ twofactor'.nonce \in {0, twofactor.nonce}
        /\ \A d \in Browsers : browser'[d].setup \in {browser[d].setup, T!NoSetup}
    BY <1>e, <1>s DEF CodesInv, CodesTyped, Code, RowOfCodes, RowOk, T!PasswordRefused, T!Set, T!At
  <2> QED BY <2>1, SetupKept
<1>4. ASSUME NEW k \in used' PROVE UsedOk(k)'
  BY <1>e, <1>s DEF CodesInv, CodesTyped, Code, RowOfCodes, RowOk, SetupOk, UsedOk, T!NoSetup, T!Nothing, T!Mailed, T!PasswordRefused, T!Set, T!At
<1>5. LimitOk("password")'
  <2>1. fails'["password"] = fails["password"] + 1
    BY DEF CodesInv, CodesTyped, T!PasswordRefused, T!Set, T!At
  <2>2. b \in Trying("password") /\ Trying("password")' = Trying("password") \ {b}
    BY <1>e, <1>s DEF Trying, CodesInv, CodesTyped, T!PasswordRefused, T!Set, T!At
  <2> QED BY <2>1, <2>2, LimitCounted DEF CodesInv
<1>6. LimitOk("code")'
  <2>1. fails'["code"] = fails["code"] /\ Trying("code")' \subseteq Trying("code")
    BY <1>e, <1>s DEF Trying, CodesInv, CodesTyped, T!PasswordRefused, T!Set, T!At
  <2> QED BY <2>1, LimitFewer DEF CodesInv
<1>7. ~reused'
  BY DEF CodesInv, CodesTyped, Code, RowOfCodes, UsedOk, T!PasswordRefused, T!Set, T!At
<1> QED BY <1>1, <1>2, <1>3, <1>4, <1>5, <1>6, <1>7 DEF CodesInv

LEMMA CodesPasswordHeld ==
    ASSUME T!SignInAssumption, CodesInv, NEW b \in Browsers,
           T!PasswordAccepted(b), twofactor.on /\ ~T!Remembered(b)
    PROVE  CodesInv'
<1> DEFINE r == [browser[b] EXCEPT !.pc = "held", !.for = "login", !.pw = password, !.since = now]
<1>r. browser[b] \in Browser
  BY DEF CodesInv, CodesTyped
<1>s. r \in Browser /\ r.pc = "held" /\ r.setup = browser[b].setup
  BY <1>r DEF Browser, Code, CodesInv, CodesTyped
<1>b. browser' = [browser EXCEPT ![b] = r]
  BY DEF T!PasswordAccepted, T!Set, T!Hold
<1> HIDE DEF r
<1>e. /\ browser' \in [Browsers -> Browser] /\ browser'[b] = r
      /\ \A e \in Browsers : e # b => browser'[e] = browser[e]
  BY <1>s, <1>b DEF CodesInv, CodesTyped
<1>m. \/ twofactor' = twofactor /\ mails' = mails
      \/ /\ mails' = mails + 1
         /\ twofactor' = [twofactor EXCEPT !.code = T!Mailed(mails + 1), !.sent = now]
  BY DEF T!PasswordAccepted, T!Hold, T!MailCode
<1>n. /\ twofactor' \in RowOfCodes /\ twofactor'.nonce = twofactor.nonce
      /\ twofactor'.on = twofactor.on /\ twofactor'.backup = twofactor.backup
      /\ twofactor'.last = twofactor.last
      /\ mails' \in Nat /\ mails <= mails'
      /\ \/ twofactor'.code = twofactor.code
         \/ twofactor'.code = T!Mailed(mails + 1) /\ mails' = mails + 1
  BY <1>m, CodeMailed
<1>1. CodesTyped'
  BY <1>n, <1>e, <1>s DEF T!SignInAssumption, CodesInv, CodesTyped, Code, RowOfCodes, RowOk, T!PasswordAccepted, T!Set, T!At, T!Hold
<1>2. RowOk'
  BY <1>1, <1>n, <1>e, <1>s DEF CodesInv, CodesTyped, Code, RowOfCodes, RowOk, SetupOk, T!Nothing, T!Mailed, T!PasswordAccepted, T!Set, T!At, T!Hold
<1>3. ASSUME NEW e \in Browsers PROVE SetupOk(e)'
  <2>1. /\ mails' \in Nat /\ mails <= mails' /\ setups' \in Nat /\ setups <= setups'
        /\ twofactor'.nonce \in {0, twofactor.nonce}
        /\ \A d \in Browsers : browser'[d].setup \in {browser[d].setup, T!NoSetup}
    BY <1>n, <1>e, <1>s DEF CodesInv, CodesTyped, Code, RowOfCodes, RowOk, T!PasswordAccepted, T!Set, T!At, T!Hold
  <2> QED BY <2>1, SetupKept
<1>4. ASSUME NEW k \in used' PROVE UsedOk(k)'
  BY <1>n, <1>e, <1>s DEF CodesInv, CodesTyped, Code, RowOfCodes, RowOk, SetupOk, UsedOk, T!NoSetup, T!Nothing, T!Mailed, T!PasswordAccepted, T!Set, T!At, T!Hold
<1>5. LimitOk("password")'
  <2>1. fails'["password"] = 0
    BY DEF CodesInv, CodesTyped, T!PasswordAccepted, T!Set, T!At, T!Hold
  <2>2. b \notin Trying("password")'
    BY <1>e, <1>s DEF Trying, T!PasswordAccepted, T!Set, T!At, T!Hold
  <2> QED BY <2>1, <2>2, LimitCleared DEF CodesInv
<1>6. LimitOk("code")'
  <2>1. fails'["code"] = fails["code"] /\ Trying("code")' \subseteq Trying("code")
    BY <1>e, <1>s DEF Trying, CodesInv, CodesTyped, T!PasswordAccepted, T!Set, T!At, T!Hold
  <2> QED BY <2>1, LimitFewer DEF CodesInv
<1>7. ~reused'
  BY DEF CodesInv, CodesTyped, Code, RowOfCodes, UsedOk, T!PasswordAccepted, T!Set, T!At, T!Hold
<1> QED BY <1>1, <1>2, <1>3, <1>4, <1>5, <1>6, <1>7 DEF CodesInv

LEMMA CodesPasswordLetsIn ==
    ASSUME T!SignInAssumption, CodesInv, NEW b \in Browsers,
           T!PasswordAccepted(b), ~(twofactor.on /\ ~T!Remembered(b))
    PROVE  CodesInv'
<1> DEFINE r == [browser[b] EXCEPT !.pc = "in", !.pw = password]
<1>r. browser[b] \in Browser
  BY DEF CodesInv, CodesTyped
<1>s. r \in Browser /\ r.pc = "in" /\ r.setup = browser[b].setup
  BY <1>r DEF Browser, Code, CodesInv, CodesTyped
<1>b. browser' = [browser EXCEPT ![b] = r]
  BY DEF T!PasswordAccepted, T!Set
<1> HIDE DEF r
<1>e. /\ browser' \in [Browsers -> Browser] /\ browser'[b] = r
      /\ \A e \in Browsers : e # b => browser'[e] = browser[e]
  BY <1>s, <1>b DEF CodesInv, CodesTyped
<1>1. CodesTyped'
  BY <1>e, <1>s DEF T!SignInAssumption, CodesInv, CodesTyped, Code, RowOfCodes, RowOk, T!PasswordAccepted, T!Set, T!At
<1>2. RowOk'
  BY <1>1, <1>e, <1>s DEF CodesInv, CodesTyped, Code, RowOfCodes, RowOk, SetupOk, T!Nothing, T!Mailed, T!PasswordAccepted, T!Set, T!At
<1>3. ASSUME NEW e \in Browsers PROVE SetupOk(e)'
  <2>1. /\ mails' \in Nat /\ mails <= mails' /\ setups' \in Nat /\ setups <= setups'
        /\ twofactor'.nonce \in {0, twofactor.nonce}
        /\ \A d \in Browsers : browser'[d].setup \in {browser[d].setup, T!NoSetup}
    BY <1>e, <1>s DEF CodesInv, CodesTyped, Code, RowOfCodes, RowOk, T!PasswordAccepted, T!Set, T!At
  <2> QED BY <2>1, SetupKept
<1>4. ASSUME NEW k \in used' PROVE UsedOk(k)'
  BY <1>e, <1>s DEF CodesInv, CodesTyped, Code, RowOfCodes, RowOk, SetupOk, UsedOk, T!NoSetup, T!Nothing, T!Mailed, T!PasswordAccepted, T!Set, T!At
<1>5. LimitOk("password")'
  <2>1. fails'["password"] = 0
    BY DEF CodesInv, CodesTyped, T!PasswordAccepted, T!Set, T!At
  <2>2. b \notin Trying("password")'
    BY <1>e, <1>s DEF Trying, T!PasswordAccepted, T!Set, T!At
  <2> QED BY <2>1, <2>2, LimitCleared DEF CodesInv
<1>6. LimitOk("code")'
  <2>1. fails'["code"] = fails["code"] /\ Trying("code")' \subseteq Trying("code")
    BY <1>e, <1>s DEF Trying, CodesInv, CodesTyped, T!PasswordAccepted, T!Set, T!At
  <2> QED BY <2>1, LimitFewer DEF CodesInv
<1>7. ~reused'
  BY DEF CodesInv, CodesTyped, Code, RowOfCodes, UsedOk, T!PasswordAccepted, T!Set, T!At
<1> QED BY <1>1, <1>2, <1>3, <1>4, <1>5, <1>6, <1>7 DEF CodesInv

LEMMA CodesResend ==
    ASSUME T!SignInAssumption, CodesInv, NEW b \in Browsers,
           T!Resend(b)
    PROVE  CodesInv'
<1>m. \/ twofactor' = twofactor /\ mails' = mails
      \/ /\ mails' = mails + 1
         /\ twofactor' = [twofactor EXCEPT !.code = T!Mailed(mails + 1), !.sent = now]
  BY DEF T!Resend, T!Hold, T!MailCode
<1>n. /\ twofactor' \in RowOfCodes /\ twofactor'.nonce = twofactor.nonce
      /\ twofactor'.on = twofactor.on /\ twofactor'.backup = twofactor.backup
      /\ twofactor'.last = twofactor.last
      /\ mails' \in Nat /\ mails <= mails'
      /\ \/ twofactor'.code = twofactor.code
         \/ twofactor'.code = T!Mailed(mails + 1) /\ mails' = mails + 1
  BY <1>m, CodeMailed
<1>1. CodesTyped'
  BY <1>n DEF T!SignInAssumption, CodesInv, CodesTyped, Code, RowOfCodes, RowOk, T!Resend, T!Set, T!At
<1>2. RowOk'
  BY <1>1, <1>n DEF CodesInv, CodesTyped, Code, RowOfCodes, RowOk, SetupOk, T!Nothing, T!Mailed, T!Resend, T!Set, T!At
<1>3. ASSUME NEW e \in Browsers PROVE SetupOk(e)'
  <2>1. /\ mails' \in Nat /\ mails <= mails' /\ setups' \in Nat /\ setups <= setups'
        /\ twofactor'.nonce \in {0, twofactor.nonce}
        /\ \A d \in Browsers : browser'[d].setup \in {browser[d].setup, T!NoSetup}
    BY <1>n DEF CodesInv, CodesTyped, Code, RowOfCodes, RowOk, T!Resend, T!Set, T!At
  <2> QED BY <2>1, SetupKept
<1>4. ASSUME NEW k \in used' PROVE UsedOk(k)'
  BY <1>n DEF CodesInv, CodesTyped, Code, RowOfCodes, RowOk, SetupOk, UsedOk, T!NoSetup, T!Nothing, T!Mailed, T!Resend, T!Set, T!At
<1>5. LimitOk("password")'
  <2>1. fails'["password"] = fails["password"] /\ Trying("password")' \subseteq Trying("password")
    BY DEF Trying, CodesInv, CodesTyped, T!Resend, T!Set, T!At
  <2> QED BY <2>1, LimitFewer DEF CodesInv
<1>6. LimitOk("code")'
  <2>1. fails'["code"] = fails["code"] /\ Trying("code")' \subseteq Trying("code")
    BY DEF Trying, CodesInv, CodesTyped, T!Resend, T!Set, T!At
  <2> QED BY <2>1, LimitFewer DEF CodesInv
<1>7. ~reused'
  BY DEF CodesInv, CodesTyped, Code, RowOfCodes, UsedOk, T!Resend, T!Set, T!At
<1> QED BY <1>1, <1>2, <1>3, <1>4, <1>5, <1>6, <1>7 DEF CodesInv

LEMMA CodesCodeTyped ==
    ASSUME T!SignInAssumption, CodesInv, NEW b \in Browsers, NEW c \in T!Typed, NEW for \in {"login", "disable", "codes"},
           T!CodeTyped(b, c, for)
    PROVE  CodesInv'
<1> DEFINE r == [browser[b] EXCEPT !.pc = "checked", !.for = for, !.code = c]
<1>r. browser[b] \in Browser
  BY DEF CodesInv, CodesTyped
<1>c. c \in Code
  BY DEF T!Typed, T!Wrong, T!Mailed, T!App, T!Backup, Code, CodesInv, CodesTyped, RowOfCodes,
         T!SignInAssumption
<1>s. r \in Browser /\ r.pc = "checked" /\ r.setup = browser[b].setup
  BY <1>r, <1>c DEF Browser
<1>b. browser' = [browser EXCEPT ![b] = r]
  BY DEF T!CodeTyped, T!Set
<1> HIDE DEF r
<1>e. /\ browser' \in [Browsers -> Browser] /\ browser'[b] = r
      /\ \A e \in Browsers : e # b => browser'[e] = browser[e]
  BY <1>s, <1>b DEF CodesInv, CodesTyped
<1>1. CodesTyped'
  BY <1>e, <1>s DEF T!SignInAssumption, CodesInv, CodesTyped, Code, RowOfCodes, RowOk, T!CodeTyped, T!Set, T!At
<1>2. RowOk'
  BY <1>1, <1>e, <1>s DEF CodesInv, CodesTyped, Code, RowOfCodes, RowOk, SetupOk, T!Nothing, T!Mailed, T!CodeTyped, T!Set, T!At
<1>3. ASSUME NEW e \in Browsers PROVE SetupOk(e)'
  <2>1. /\ mails' \in Nat /\ mails <= mails' /\ setups' \in Nat /\ setups <= setups'
        /\ twofactor'.nonce \in {0, twofactor.nonce}
        /\ \A d \in Browsers : browser'[d].setup \in {browser[d].setup, T!NoSetup}
    BY <1>e, <1>s DEF CodesInv, CodesTyped, Code, RowOfCodes, RowOk, T!CodeTyped, T!Set, T!At
  <2> QED BY <2>1, SetupKept
<1>4. ASSUME NEW k \in used' PROVE UsedOk(k)'
  BY <1>e, <1>s DEF CodesInv, CodesTyped, Code, RowOfCodes, RowOk, SetupOk, UsedOk, T!NoSetup, T!Nothing, T!Mailed, T!CodeTyped, T!Set, T!At
<1>5. LimitOk("password")'
  <2>1. fails'["password"] = fails["password"] /\ Trying("password")' \subseteq Trying("password")
    BY <1>e, <1>s DEF Trying, CodesInv, CodesTyped, T!CodeTyped, T!Set, T!At
  <2> QED BY <2>1, LimitFewer DEF CodesInv
<1>6. LimitOk("code")'
  <2>1. fails'["code"] = fails["code"] /\ fails["code"] < Failures
    BY DEF T!Limited, T!SignInAssumption, CodesInv, CodesTyped, T!CodeTyped, T!Set, T!At
  <2> QED BY <2>1, LimitRead DEF CodesInv
<1>7. ~reused'
  BY DEF CodesInv, CodesTyped, Code, RowOfCodes, UsedOk, T!CodeTyped, T!Set, T!At
<1> QED BY <1>1, <1>2, <1>3, <1>4, <1>5, <1>6, <1>7 DEF CodesInv

LEMMA CodesCodeAccepted ==
    ASSUME T!SignInAssumption, CodesInv, NEW b \in Browsers,
           T!CodeAccepted(b)
    PROVE  CodesInv'
<1>0. PICK remember \in BOOLEAN : T!Set(b, [browser[b] EXCEPT
                 !.pc = "in", !.code = T!Nothing,
                 !.nonce = IF browser[b].for = "disable" THEN 0
                           ELSE IF remember THEN twofactor.nonce ELSE @,
                 !.npw = IF remember THEN browser[b].pw ELSE @])
  BY DEF T!CodeAccepted
<1> DEFINE r == [browser[b] EXCEPT
                 !.pc = "in", !.code = T!Nothing,
                 !.nonce = IF browser[b].for = "disable" THEN 0
                           ELSE IF remember THEN twofactor.nonce ELSE @,
                 !.npw = IF remember THEN browser[b].pw ELSE @]
<1>r. browser[b] \in Browser
  BY DEF CodesInv, CodesTyped
<1>s. r \in Browser /\ r.pc = "in" /\ r.setup = browser[b].setup
  BY <1>r DEF Browser, Code, CodesInv, CodesTyped, T!Nothing, RowOfCodes
<1>b. browser' = [browser EXCEPT ![b] = r]
  BY <1>0 DEF T!CodeAccepted, T!Set
<1> HIDE DEF r
<1>e. /\ browser' \in [Browsers -> Browser] /\ browser'[b] = r
      /\ \A e \in Browsers : e # b => browser'[e] = browser[e]
  BY <1>s, <1>b DEF CodesInv, CodesTyped
<1> DEFINE c == browser[b].code
           u == T!UsedUp(c)
<1>c. c \in Code /\ browser[b].for \in {"login", "disable", "codes"} /\ T!Matches(c)
  BY <1>r DEF Browser, T!CodeAccepted
<1>u. /\ u \in RowOfCodes /\ u.on /\ twofactor.on
      /\ u.nonce = twofactor.nonce /\ u.last >= twofactor.last
      /\ u.backup \subseteq twofactor.backup
      /\ u.code \in {twofactor.code, T!Nothing}
      /\ c \notin used
      /\ c.kind \in {"app", "email", "backup"}
      /\ c.kind = "email" => (\E n \in 1..mails : c = T!Mailed(n)) /\ c # u.code
      /\ c.kind = "backup" => c.of <= setups /\ c \notin u.backup
      /\ c.kind = "app" => c.of = twofactor.nonce /\ c.n <= u.last
  BY <1>c, UsedUpRow
<1>p. /\ now' = now /\ password' = password /\ mails' = mails
      /\ used' = used \cup {c} /\ reused' = (reused \/ c \in used)
      /\ fails' = [fails EXCEPT !["code"] = 0]
  BY DEF T!CodeAccepted
<1>t. \/ setups' = setups /\ twofactor' = u
      \/ setups' = setups /\ twofactor' = T!NoRow
      \/ /\ setups' = setups + 1
         /\ twofactor' = [u EXCEPT !.backup = {T!Backup(setups + 1, n) : n \in 1..BackupCodes}]
  BY <1>c DEF T!CodeAccepted
<1> HIDE DEF c, u
<1>v. /\ twofactor' \in RowOfCodes /\ setups' \in Nat /\ setups <= setups'
      /\ twofactor'.code \in {twofactor.code, T!Nothing}
      /\ \/ twofactor'.on /\ twofactor'.nonce = u.nonce /\ twofactor'.last = u.last
         \/ ~twofactor'.on /\ twofactor'.nonce = 0
      /\ c # T!Nothing => twofactor'.code = u.code \/ twofactor'.code = T!Nothing
      /\ \A k \in twofactor'.backup :
            \/ k \in u.backup
            \/ k.kind = "backup" /\ k.of = setups + 1 /\ setups' = setups + 1
  <2>1. setups \in Nat /\ T!Nothing \in Code /\ BackupCodes \in Nat
    BY DEF CodesInv, CodesTyped, T!Nothing, Code, T!SignInAssumption
  <2>2. CASE setups' = setups /\ twofactor' = u
    BY <1>u, <2>1, <2>2
  <2>3. CASE setups' = setups /\ twofactor' = T!NoRow
    BY <1>u, <2>1, <2>3 DEF T!NoRow, RowOfCodes
  <2>4. CASE /\ setups' = setups + 1
             /\ twofactor' = [u EXCEPT !.backup = {T!Backup(setups + 1, n) : n \in 1..BackupCodes}]
    <3>1. /\ {T!Backup(setups + 1, n) : n \in 1..BackupCodes} \subseteq Code
          /\ \A k \in {T!Backup(setups + 1, n) : n \in 1..BackupCodes} :
                k.kind = "backup" /\ k.of = setups + 1
      BY <2>1 DEF T!Backup, Code
    <3> QED BY <1>u, <2>1, <2>4, <3>1 DEF RowOfCodes
  <2> QED BY <1>t, <2>2, <2>3, <2>4
<1>1. CodesTyped'
  BY <1>e, <1>p, <1>v, <1>c DEF CodesInv, CodesTyped
<1>o. /\ \A k \in used : UsedOk(k)
      /\ \A d \in Browsers : SetupOk(d)
      /\ RowOk /\ setups \in Nat /\ twofactor \in RowOfCodes /\ ~reused
  BY DEF CodesInv, CodesTyped
<1>2. RowOk'
  <2>1. twofactor'.code = T!Nothing \/ \E n \in 1..mails' : twofactor'.code = T!Mailed(n)
    BY <1>v, <1>p, <1>o DEF RowOk
  <2>2. \A k \in twofactor'.backup : k.kind = "backup" /\ k.of <= setups'
    <3>1. \A k \in u.backup : k.kind = "backup" /\ k.of <= setups /\ k.of \in Nat
      BY <1>u, <1>o DEF RowOk, RowOfCodes, Code
    <3> QED BY <1>v, <1>o, <3>1
  <2>3. /\ twofactor'.on => twofactor'.nonce \in 1..setups'
        /\ twofactor'.nonce <= setups'
    BY <1>u, <1>v, <1>o DEF RowOk, RowOfCodes
  <2> QED BY <2>1, <2>2, <2>3 DEF RowOk
<1>d. \A d \in Browsers : browser'[d].setup = browser[d].setup
  BY <1>e, <1>s
<1>3. ASSUME NEW e \in Browsers PROVE SetupOk(e)'
  <2>1. /\ mails' \in Nat /\ mails <= mails' /\ setups' \in Nat /\ setups <= setups'
        /\ twofactor'.nonce \in {0, twofactor.nonce}
        /\ \A d \in Browsers : browser'[d].setup \in {browser[d].setup, T!NoSetup}
    BY <1>d, <1>p, <1>u, <1>v DEF CodesInv, CodesTyped
  <2> QED BY <2>1, SetupKept
<1>4. ASSUME NEW k \in used' PROVE UsedOk(k)'
  <2>1. CASE k = c
    <3>1. c.kind = "email" => c # twofactor'.code
      BY <1>u, <1>v DEF T!Nothing
    <3>2. c.kind = "backup" => c.of <= setups' /\ c \notin twofactor'.backup
      BY <1>u, <1>v, <1>c, <1>o DEF Code
    <3>3. c.kind = "app" =>
            /\ c.of \in 1..setups'
            /\ c.of = twofactor'.nonce => c.n <= twofactor'.last
            /\ \A d \in Browsers : browser'[d].setup.method = "app" =>
                  browser'[d].setup.code.of # c.of
      BY <1>u, <1>v, <1>d, <1>o DEF RowOk, SetupOk
    <3> QED BY <1>u, <1>p, <2>1, <3>1, <3>2, <3>3 DEF UsedOk
  <2>2. CASE k \in used
    <3>1. UsedOk(k) /\ k \in Code
      BY <1>o, <2>2 DEF CodesInv, CodesTyped
    <3>2. k.kind = "email" => k # twofactor'.code
      BY <1>v, <3>1 DEF UsedOk, T!Nothing
    <3>3. k.kind = "backup" => k.of <= setups' /\ k \notin twofactor'.backup
      BY <1>u, <1>v, <1>o, <3>1 DEF UsedOk, Code
    <3>4. k.kind = "app" =>
            /\ k.of \in 1..setups'
            /\ k.of = twofactor'.nonce => k.n <= twofactor'.last
            /\ \A d \in Browsers : browser'[d].setup.method = "app" =>
                  browser'[d].setup.code.of # k.of
      BY <1>u, <1>v, <1>d, <1>o, <3>1 DEF UsedOk, Code, RowOfCodes
    <3> QED BY <1>p, <3>1, <3>2, <3>3, <3>4 DEF UsedOk
  <2> QED BY <1>p, <2>1, <2>2
<1>5. LimitOk("password")'
  <2>1. fails'["password"] = fails["password"] /\ Trying("password")' \subseteq Trying("password")
    BY <1>e, <1>s DEF Trying, CodesInv, CodesTyped, T!CodeAccepted, T!Set, T!At, T!Matches, T!EmailMatches, T!StepMatches, T!UsedUp, T!NoRow, T!Nothing, T!Backup
  <2> QED BY <2>1, LimitFewer DEF CodesInv
<1>6. LimitOk("code")'
  <2>1. fails'["code"] = 0
    BY DEF CodesInv, CodesTyped, T!CodeAccepted, T!Set, T!At, T!Matches, T!EmailMatches, T!StepMatches, T!UsedUp, T!NoRow, T!Nothing, T!Backup
  <2>2. b \notin Trying("code")'
    BY <1>e, <1>s DEF Trying, T!CodeAccepted, T!Set, T!At, T!Matches, T!EmailMatches, T!StepMatches, T!UsedUp, T!NoRow, T!Nothing, T!Backup
  <2> QED BY <2>1, <2>2, LimitCleared DEF CodesInv
<1>7. ~reused'
  BY <1>o, <1>p, <1>u
<1> QED BY <1>1, <1>2, <1>3, <1>4, <1>5, <1>6, <1>7 DEF CodesInv

LEMMA CodesCodeRefused ==
    ASSUME T!SignInAssumption, CodesInv, NEW b \in Browsers,
           T!CodeRefused(b)
    PROVE  CodesInv'
<1> DEFINE r == [browser[b] EXCEPT !.pc = "refused", !.code = T!Nothing]
<1>r. browser[b] \in Browser
  BY DEF CodesInv, CodesTyped
<1>s. r \in Browser /\ r.pc = "refused" /\ r.setup = browser[b].setup
  BY <1>r DEF Browser, Code, CodesInv, CodesTyped, T!Nothing
<1>b. browser' = [browser EXCEPT ![b] = r]
  BY DEF T!CodeRefused, T!Set
<1> HIDE DEF r
<1>e. /\ browser' \in [Browsers -> Browser] /\ browser'[b] = r
      /\ \A e \in Browsers : e # b => browser'[e] = browser[e]
  BY <1>s, <1>b DEF CodesInv, CodesTyped
<1>1. CodesTyped'
  BY <1>e, <1>s DEF T!SignInAssumption, CodesInv, CodesTyped, Code, RowOfCodes, RowOk, T!CodeRefused, T!Set, T!At, T!Nothing
<1>2. RowOk'
  BY <1>1, <1>e, <1>s DEF CodesInv, CodesTyped, Code, RowOfCodes, RowOk, SetupOk, T!Nothing, T!Mailed, T!CodeRefused, T!Set, T!At, T!Nothing
<1>3. ASSUME NEW e \in Browsers PROVE SetupOk(e)'
  <2>1. /\ mails' \in Nat /\ mails <= mails' /\ setups' \in Nat /\ setups <= setups'
        /\ twofactor'.nonce \in {0, twofactor.nonce}
        /\ \A d \in Browsers : browser'[d].setup \in {browser[d].setup, T!NoSetup}
    BY <1>e, <1>s DEF CodesInv, CodesTyped, Code, RowOfCodes, RowOk, T!CodeRefused, T!Set, T!At, T!Nothing
  <2> QED BY <2>1, SetupKept
<1>4. ASSUME NEW k \in used' PROVE UsedOk(k)'
  BY <1>e, <1>s DEF CodesInv, CodesTyped, Code, RowOfCodes, RowOk, SetupOk, UsedOk, T!NoSetup, T!Nothing, T!Mailed, T!CodeRefused, T!Set, T!At, T!Nothing
<1>5. LimitOk("password")'
  <2>1. fails'["password"] = fails["password"] /\ Trying("password")' \subseteq Trying("password")
    BY <1>e, <1>s DEF Trying, CodesInv, CodesTyped, T!CodeRefused, T!Set, T!At, T!Nothing
  <2> QED BY <2>1, LimitFewer DEF CodesInv
<1>6. LimitOk("code")'
  <2>1. fails'["code"] = fails["code"] /\ Trying("code")' \subseteq Trying("code")
    BY <1>e, <1>s DEF Trying, CodesInv, CodesTyped, T!CodeRefused, T!Set, T!At, T!Nothing
  <2> QED BY <2>1, LimitFewer DEF CodesInv
<1>7. ~reused'
  BY DEF CodesInv, CodesTyped, Code, RowOfCodes, UsedOk, T!CodeRefused, T!Set, T!At, T!Nothing
<1> QED BY <1>1, <1>2, <1>3, <1>4, <1>5, <1>6, <1>7 DEF CodesInv

LEMMA CodesFailureCounted ==
    ASSUME T!SignInAssumption, CodesInv, NEW b \in Browsers,
           T!FailureCounted(b)
    PROVE  CodesInv'
<1> DEFINE r == [browser[b] EXCEPT !.pc = IF browser[b].for = "login" THEN "held" ELSE "in"]
<1>r. browser[b] \in Browser
  BY DEF CodesInv, CodesTyped
<1>s. r \in Browser /\ r.pc \in {"held", "in"} /\ r.setup = browser[b].setup
  BY <1>r DEF Browser, Code, CodesInv, CodesTyped
<1>b. browser' = [browser EXCEPT ![b] = r]
  BY DEF T!FailureCounted, T!Set
<1> HIDE DEF r
<1>e. /\ browser' \in [Browsers -> Browser] /\ browser'[b] = r
      /\ \A e \in Browsers : e # b => browser'[e] = browser[e]
  BY <1>s, <1>b DEF CodesInv, CodesTyped
<1>1. CodesTyped'
  BY <1>e, <1>s DEF T!SignInAssumption, CodesInv, CodesTyped, Code, RowOfCodes, RowOk, T!FailureCounted, T!Set, T!At
<1>2. RowOk'
  BY <1>1, <1>e, <1>s DEF CodesInv, CodesTyped, Code, RowOfCodes, RowOk, SetupOk, T!Nothing, T!Mailed, T!FailureCounted, T!Set, T!At
<1>3. ASSUME NEW e \in Browsers PROVE SetupOk(e)'
  <2>1. /\ mails' \in Nat /\ mails <= mails' /\ setups' \in Nat /\ setups <= setups'
        /\ twofactor'.nonce \in {0, twofactor.nonce}
        /\ \A d \in Browsers : browser'[d].setup \in {browser[d].setup, T!NoSetup}
    BY <1>e, <1>s DEF CodesInv, CodesTyped, Code, RowOfCodes, RowOk, T!FailureCounted, T!Set, T!At
  <2> QED BY <2>1, SetupKept
<1>4. ASSUME NEW k \in used' PROVE UsedOk(k)'
  BY <1>e, <1>s DEF CodesInv, CodesTyped, Code, RowOfCodes, RowOk, SetupOk, UsedOk, T!NoSetup, T!Nothing, T!Mailed, T!FailureCounted, T!Set, T!At
<1>5. LimitOk("password")'
  <2>1. fails'["password"] = fails["password"] /\ Trying("password")' \subseteq Trying("password")
    BY <1>e, <1>s DEF Trying, CodesInv, CodesTyped, T!FailureCounted, T!Set, T!At
  <2> QED BY <2>1, LimitFewer DEF CodesInv
<1>6. LimitOk("code")'
  <2>1. fails'["code"] = fails["code"] + 1
    BY DEF CodesInv, CodesTyped, T!FailureCounted, T!Set, T!At
  <2>2. b \in Trying("code") /\ Trying("code")' = Trying("code") \ {b}
    BY <1>e, <1>s DEF Trying, CodesInv, CodesTyped, T!FailureCounted, T!Set, T!At
  <2> QED BY <2>1, <2>2, LimitCounted DEF CodesInv
<1>7. ~reused'
  BY DEF CodesInv, CodesTyped, Code, RowOfCodes, UsedOk, T!FailureCounted, T!Set, T!At
<1> QED BY <1>1, <1>2, <1>3, <1>4, <1>5, <1>6, <1>7 DEF CodesInv

LEMMA CodesStartSetup ==
    ASSUME T!SignInAssumption, CodesInv, NEW b \in Browsers, NEW m \in T!Methods,
           T!StartSetup(b, m)
    PROVE  CodesInv'
<1> DEFINE r == [browser[b] EXCEPT !.setup =
                 [method |-> m, since |-> now, sent |-> now,
                  code |-> IF m = "email" THEN T!Mailed(mails + 1) ELSE T!App(setups + 1, 0)]]
<1>r. browser[b] \in Browser
  BY DEF CodesInv, CodesTyped
<1>s. r \in Browser /\ r.pc = browser[b].pc /\ r.setup.method = m /\
      r.setup.code = IF m = "email" THEN T!Mailed(mails + 1) ELSE T!App(setups + 1, 0)
  BY <1>r DEF Browser, Code, CodesInv, CodesTyped, Setup, T!NoSetup, T!Nothing, T!Mailed, T!App, T!Methods
<1>b. browser' = [browser EXCEPT ![b] = r]
  BY DEF T!StartSetup, T!Set
<1> HIDE DEF r
<1>e. /\ browser' \in [Browsers -> Browser] /\ browser'[b] = r
      /\ \A e \in Browsers : e # b => browser'[e] = browser[e]
  BY <1>s, <1>b DEF CodesInv, CodesTyped
<1>1. CodesTyped'
  BY <1>e, <1>s DEF T!SignInAssumption, CodesInv, CodesTyped, Code, RowOfCodes, RowOk, T!StartSetup, T!Set, T!At, T!Methods, T!Mailed, T!App
<1>2. RowOk'
  BY <1>1, <1>e, <1>s DEF CodesInv, CodesTyped, Code, RowOfCodes, RowOk, SetupOk, T!Nothing, T!Mailed, T!StartSetup, T!Set, T!At, T!Methods, T!Mailed, T!App
<1>o. /\ \A d \in Browsers : SetupOk(d)
      /\ RowOk /\ setups \in Nat /\ mails \in Nat /\ twofactor \in RowOfCodes
  BY DEF CodesInv, CodesTyped
<1>p. /\ setups' = setups + 1 /\ twofactor' = twofactor
      /\ mails' = IF m = "email" THEN mails + 1 ELSE mails
  BY DEF T!StartSetup
<1>3. ASSUME NEW e \in Browsers PROVE SetupOk(e)'
  <2>1. CASE e = b
    <3>1. m = "email" => SetupOk(e)'
      BY <1>e, <1>s, <1>o, <1>p, <2>1 DEF SetupOk, T!Mailed
    <3>2. ASSUME m = "app" PROVE SetupOk(e)'
      <4>1. /\ browser'[e].setup.method = "app" /\ browser'[e].setup.code.kind = "app"
            /\ browser'[e].setup.code.of = setups + 1
        BY <1>e, <1>s, <2>1, <3>2 DEF T!App
      <4>2. \A d \in Browsers : d # e /\ browser'[d].setup.method = "app" =>
                browser'[d].setup.code.of \in 1..setups
        BY <1>e, <1>o, <2>1 DEF SetupOk
      <4> QED BY <1>o, <1>p, <4>1, <4>2 DEF SetupOk, RowOk, RowOfCodes
    <3> QED BY <3>1, <3>2 DEF T!Methods
  <2>2. CASE e # b
    <3>1. SetupOk(e) /\ browser'[e] = browser[e]
      BY <1>e, <1>o, <2>2
    <3>2. browser'[b].setup.method = "app" => browser'[b].setup.code.of = setups + 1
      BY <1>e, <1>s DEF T!Methods, T!App
    <3>3. /\ mails' \in Nat /\ mails <= mails' /\ setups' \in Nat /\ setups <= setups'
      BY <1>o, <1>p
    <3>4. browser[e].setup.method = "app" => \A d \in Browsers :
              d # e /\ browser'[d].setup.method = "app" =>
                browser'[d].setup.code.of # browser[e].setup.code.of
      BY <1>e, <1>o, <3>1, <3>2 DEF SetupOk
    <3> QED BY <1>o, <1>p, <3>1, <3>3, <3>4 DEF SetupOk
  <2> QED BY <2>1, <2>2
<1>4. ASSUME NEW k \in used' PROVE UsedOk(k)'
  BY <1>e, <1>s DEF CodesInv, CodesTyped, Code, RowOfCodes, RowOk, SetupOk, UsedOk, T!NoSetup, T!Nothing, T!Mailed, T!StartSetup, T!Set, T!At, T!Methods, T!Mailed, T!App
<1>5. LimitOk("password")'
  <2>1. fails'["password"] = fails["password"] /\ Trying("password")' \subseteq Trying("password")
    BY <1>e, <1>s DEF Trying, CodesInv, CodesTyped, T!StartSetup, T!Set, T!At, T!Methods, T!Mailed, T!App
  <2> QED BY <2>1, LimitFewer DEF CodesInv
<1>6. LimitOk("code")'
  <2>1. fails'["code"] = fails["code"] /\ Trying("code")' \subseteq Trying("code")
    BY <1>e, <1>s DEF Trying, CodesInv, CodesTyped, T!StartSetup, T!Set, T!At, T!Methods, T!Mailed, T!App
  <2> QED BY <2>1, LimitFewer DEF CodesInv
<1>7. ~reused'
  BY DEF CodesInv, CodesTyped, Code, RowOfCodes, UsedOk, T!StartSetup, T!Set, T!At, T!Methods, T!Mailed, T!App
<1> QED BY <1>1, <1>2, <1>3, <1>4, <1>5, <1>6, <1>7 DEF CodesInv

LEMMA CodesResendSetup ==
    ASSUME T!SignInAssumption, CodesInv, NEW b \in Browsers,
           T!ResendSetup(b)
    PROVE  CodesInv'
<1> DEFINE r == [browser[b] EXCEPT !.setup =
                 [@ EXCEPT !.code = T!Mailed(mails + 1), !.sent = now]]
<1>r. browser[b] \in Browser
  BY DEF CodesInv, CodesTyped
<1>m. T!Mailed(mails + 1) \in Code /\ now \in Nat
  BY DEF T!Mailed, Code, CodesInv, CodesTyped
<1>q. /\ browser[b].setup \in Setup /\ browser[b].setup.method = "email"
      /\ [browser[b].setup EXCEPT !.code = T!Mailed(mails + 1), !.sent = now] \in Setup
  BY <1>r, <1>m DEF Browser, Setup, T!ResendSetup
<1>s. r \in Browser /\ r.pc = browser[b].pc /\ r.setup.method = "email" /\ r.setup.code = T!Mailed(mails + 1)
  BY <1>r, <1>q DEF Browser, Setup
<1>b. browser' = [browser EXCEPT ![b] = r]
  BY DEF T!ResendSetup, T!Set
<1> HIDE DEF r
<1>e. /\ browser' \in [Browsers -> Browser] /\ browser'[b] = r
      /\ \A e \in Browsers : e # b => browser'[e] = browser[e]
  BY <1>s, <1>b DEF CodesInv, CodesTyped
<1>1. CodesTyped'
  BY <1>e, <1>s DEF T!SignInAssumption, CodesInv, CodesTyped, Code, RowOfCodes, RowOk, T!ResendSetup, T!Set, T!At, T!Mailed
<1>2. RowOk'
  BY <1>1, <1>e, <1>s DEF CodesInv, CodesTyped, Code, RowOfCodes, RowOk, SetupOk, T!Nothing, T!Mailed, T!ResendSetup, T!Set, T!At, T!Mailed
<1>o. /\ \A d \in Browsers : SetupOk(d)
      /\ mails \in Nat /\ mails' = mails + 1 /\ setups' = setups /\ twofactor' = twofactor
  BY DEF CodesInv, CodesTyped, T!ResendSetup
<1>3. ASSUME NEW e \in Browsers PROVE SetupOk(e)'
  <2>1. CASE e = b
    BY <1>e, <1>s, <1>o, <2>1 DEF SetupOk, T!Mailed
  <2>2. CASE e # b
    <3>1. SetupOk(e) /\ browser'[e] = browser[e] /\ browser'[b].setup.method = "email"
      BY <1>e, <1>s, <1>o, <2>2
    <3>2. \A d \in Browsers : browser'[d].setup.method = "app" => browser'[d] = browser[d]
      BY <1>e, <3>1
    <3> QED BY <1>o, <3>1, <3>2 DEF SetupOk
  <2> QED BY <2>1, <2>2
<1>4. ASSUME NEW k \in used' PROVE UsedOk(k)'
  BY <1>e, <1>s DEF CodesInv, CodesTyped, Code, RowOfCodes, RowOk, SetupOk, UsedOk, T!NoSetup, T!Nothing, T!Mailed, T!ResendSetup, T!Set, T!At, T!Mailed
<1>5. LimitOk("password")'
  <2>1. fails'["password"] = fails["password"] /\ Trying("password")' \subseteq Trying("password")
    BY <1>e, <1>s DEF Trying, CodesInv, CodesTyped, T!ResendSetup, T!Set, T!At, T!Mailed
  <2> QED BY <2>1, LimitFewer DEF CodesInv
<1>6. LimitOk("code")'
  <2>1. fails'["code"] = fails["code"] /\ Trying("code")' \subseteq Trying("code")
    BY <1>e, <1>s DEF Trying, CodesInv, CodesTyped, T!ResendSetup, T!Set, T!At, T!Mailed
  <2> QED BY <2>1, LimitFewer DEF CodesInv
<1>7. ~reused'
  BY DEF CodesInv, CodesTyped, Code, RowOfCodes, UsedOk, T!ResendSetup, T!Set, T!At, T!Mailed
<1> QED BY <1>1, <1>2, <1>3, <1>4, <1>5, <1>6, <1>7 DEF CodesInv

LEMMA CodesCancelSetup ==
    ASSUME T!SignInAssumption, CodesInv, NEW b \in Browsers,
           T!CancelSetup(b)
    PROVE  CodesInv'
<1> DEFINE r == [browser[b] EXCEPT !.setup = T!NoSetup]
<1>r. browser[b] \in Browser
  BY DEF CodesInv, CodesTyped
<1>s. r \in Browser /\ r.pc = browser[b].pc /\ r.setup = T!NoSetup
  BY <1>r DEF Browser, Code, CodesInv, CodesTyped, Setup, T!NoSetup, T!Nothing, T!Mailed, T!App, T!Methods
<1>b. browser' = [browser EXCEPT ![b] = r]
  BY DEF T!CancelSetup, T!Set
<1> HIDE DEF r
<1>e. /\ browser' \in [Browsers -> Browser] /\ browser'[b] = r
      /\ \A e \in Browsers : e # b => browser'[e] = browser[e]
  BY <1>s, <1>b DEF CodesInv, CodesTyped
<1>1. CodesTyped'
  BY <1>e, <1>s DEF T!SignInAssumption, CodesInv, CodesTyped, Code, RowOfCodes, RowOk, T!CancelSetup, T!Set, T!At, T!NoSetup, T!Nothing
<1>2. RowOk'
  BY <1>1, <1>e, <1>s DEF CodesInv, CodesTyped, Code, RowOfCodes, RowOk, SetupOk, T!Nothing, T!Mailed, T!CancelSetup, T!Set, T!At, T!NoSetup, T!Nothing
<1>3. ASSUME NEW e \in Browsers PROVE SetupOk(e)'
  <2>1. /\ mails' \in Nat /\ mails <= mails' /\ setups' \in Nat /\ setups <= setups'
        /\ twofactor'.nonce \in {0, twofactor.nonce}
        /\ \A d \in Browsers : browser'[d].setup \in {browser[d].setup, T!NoSetup}
    BY <1>e, <1>s DEF CodesInv, CodesTyped, Code, RowOfCodes, RowOk, T!CancelSetup, T!Set, T!At, T!NoSetup, T!Nothing
  <2> QED BY <2>1, SetupKept
<1>4. ASSUME NEW k \in used' PROVE UsedOk(k)'
  BY <1>e, <1>s DEF CodesInv, CodesTyped, Code, RowOfCodes, RowOk, SetupOk, UsedOk, T!NoSetup, T!Nothing, T!Mailed, T!CancelSetup, T!Set, T!At, T!NoSetup, T!Nothing
<1>5. LimitOk("password")'
  <2>1. fails'["password"] = fails["password"] /\ Trying("password")' \subseteq Trying("password")
    BY <1>e, <1>s DEF Trying, CodesInv, CodesTyped, T!CancelSetup, T!Set, T!At, T!NoSetup, T!Nothing
  <2> QED BY <2>1, LimitFewer DEF CodesInv
<1>6. LimitOk("code")'
  <2>1. fails'["code"] = fails["code"] /\ Trying("code")' \subseteq Trying("code")
    BY <1>e, <1>s DEF Trying, CodesInv, CodesTyped, T!CancelSetup, T!Set, T!At, T!NoSetup, T!Nothing
  <2> QED BY <2>1, LimitFewer DEF CodesInv
<1>7. ~reused'
  BY DEF CodesInv, CodesTyped, Code, RowOfCodes, UsedOk, T!CancelSetup, T!Set, T!At, T!NoSetup, T!Nothing
<1> QED BY <1>1, <1>2, <1>3, <1>4, <1>5, <1>6, <1>7 DEF CodesInv

LEMMA CodesConfirmSetup ==
    ASSUME T!SignInAssumption, CodesInv, NEW b \in Browsers,
           T!ConfirmSetup(b)
    PROVE  CodesInv'
<1> DEFINE r == [browser[b] EXCEPT !.setup = T!NoSetup]
<1>r. browser[b] \in Browser
  BY DEF CodesInv, CodesTyped
<1>s. r \in Browser /\ r.pc = browser[b].pc /\ r.setup = T!NoSetup
  BY <1>r DEF Browser, Code, CodesInv, CodesTyped, Setup, T!NoSetup, T!Nothing, T!Mailed, T!App, T!Methods
<1>b. browser' = [browser EXCEPT ![b] = r]
  BY DEF T!ConfirmSetup, T!Set
<1> HIDE DEF r
<1>e. /\ browser' \in [Browsers -> Browser] /\ browser'[b] = r
      /\ \A e \in Browsers : e # b => browser'[e] = browser[e]
  BY <1>s, <1>b DEF CodesInv, CodesTyped
<1> DEFINE s == browser[b].setup
           codes == {T!Backup(setups + 1, n) : n \in 1..BackupCodes}
           c == IF s.method = "app" THEN T!App(s.code.of, now) ELSE s.code
<1>o. /\ \A d \in Browsers : SetupOk(d)
      /\ \A k \in used : UsedOk(k)
      /\ RowOk /\ setups \in Nat /\ mails \in Nat /\ now \in Nat /\ twofactor \in RowOfCodes
      /\ BackupCodes \in Nat /\ s \in Setup
  BY <1>r DEF CodesInv, CodesTyped, T!SignInAssumption, Browser
<1>m. s.method \in {"app", "email"}
  BY <1>o DEF Setup, SetupOk, T!ConfirmSetup
<1>p. /\ setups' = setups + 1 /\ mails' = mails /\ now' = now /\ password' = password
      /\ reused' = reused /\ used' = used \cup {c} /\ fails' = [fails EXCEPT !["code"] = 0]
      /\ twofactor' = [T!NoRow EXCEPT !.on = TRUE, !.method = s.method,
                         !.nonce = IF s.method = "app" THEN s.code.of ELSE setups + 1,
                         !.last = IF s.method = "app" THEN now ELSE 0,
                         !.backup = IF s.method = "app" THEN codes ELSE {}]
  BY DEF T!ConfirmSetup
<1>k. codes \subseteq Code /\ \A k \in codes : k.kind = "backup" /\ k.of = setups + 1
  BY <1>o DEF T!Backup, Code
<1>f. /\ s.method = "app" =>
            /\ s.code.kind = "app" /\ s.code.of \in 1..setups /\ c = T!App(s.code.of, now)
            /\ \A d \in Browsers : d # b /\ browser[d].setup.method = "app" =>
                  browser[d].setup.code.of # s.code.of
      /\ s.method = "email" => c = s.code /\ \E n \in 1..mails : c = T!Mailed(n)
      /\ \A k \in used : k.kind = "app" /\ s.method = "app" => k.of # s.code.of
      /\ c \in Code
  <2>1. c \in Code
    BY <1>o, <1>m DEF Setup, T!App, Code
  <2>2. /\ s.method = "app" =>
            /\ s.code.kind = "app" /\ s.code.of \in 1..setups
            /\ \A d \in Browsers : d # b /\ browser[d].setup.method = "app" =>
                  browser[d].setup.code.of # s.code.of
        /\ s.method = "email" => \E n \in 1..mails : s.code = T!Mailed(n)
    BY <1>o DEF SetupOk
  <2>3. \A k \in used : k.kind = "app" /\ s.method = "app" => k.of # s.code.of
    BY <1>o DEF UsedOk
  <2> QED BY <2>1, <2>2, <2>3
<1> HIDE DEF codes
<1>v. /\ twofactor' \in RowOfCodes /\ twofactor'.on /\ twofactor'.code = T!Nothing
      /\ s.method = "app" =>
            twofactor'.nonce = s.code.of /\ twofactor'.last = now /\ twofactor'.backup = codes
      /\ s.method = "email" =>
            twofactor'.nonce = setups + 1 /\ twofactor'.last = 0 /\ twofactor'.backup = {}
  <2>1. T!NoRow \in RowOfCodes /\ T!NoRow.code = T!Nothing
    BY DEF T!NoRow, T!Nothing, RowOfCodes, Code
  <2>2. /\ s.method = "app" => s.code.of \in Nat
        /\ codes \in SUBSET Code /\ {} \in SUBSET Code
    BY <1>o, <1>k, <1>f
  <2> HIDE DEF s
  <2>3. CASE s.method = "app"
    <3>1. twofactor' = [T!NoRow EXCEPT !.on = TRUE, !.method = "app", !.nonce = s.code.of,
                                       !.last = now, !.backup = codes]
      BY <1>p, <2>3
    <3> QED BY <1>o, <2>1, <2>2, <2>3, <3>1 DEF RowOfCodes
  <2>4. CASE s.method = "email"
    <3>1. twofactor' = [T!NoRow EXCEPT !.on = TRUE, !.method = "email", !.nonce = setups + 1,
                                       !.last = 0, !.backup = {}]
      BY <1>p, <2>4
    <3>2. setups + 1 \in Nat /\ {} \in SUBSET Code
      BY <1>o
    <3>3. twofactor' \in RowOfCodes
      BY <2>1, <3>1, <3>2 DEF RowOfCodes
    <3>4. /\ twofactor'.on /\ twofactor'.code = T!Nothing /\ twofactor'.nonce = setups + 1
          /\ twofactor'.last = 0 /\ twofactor'.backup = {}
      BY <2>1, <3>1 DEF RowOfCodes
    <3> QED BY <2>4, <3>3, <3>4
  <2> QED BY <1>m, <2>3, <2>4
<1>d. /\ browser'[b].setup.method = "none" /\ browser'[b].setup = T!NoSetup
      /\ \A d \in Browsers : d # b => browser'[d].setup = browser[d].setup
  BY <1>e, <1>s DEF T!NoSetup
<1> HIDE DEF c, s
<1>1. CodesTyped'
  BY <1>e, <1>o, <1>p, <1>v, <1>f DEF CodesInv, CodesTyped
<1>2. RowOk'
  BY <1>o, <1>m, <1>p, <1>v, <1>k, <1>f DEF RowOk
<1>3. ASSUME NEW e \in Browsers PROVE SetupOk(e)'
  <2>1. CASE e = b
    BY <1>d, <2>1 DEF SetupOk
  <2>2. CASE e # b
    <3>1. /\ browser'[e].setup = browser[e].setup /\ SetupOk(e)
          /\ \A d \in Browsers : browser'[d].setup.method = "app" =>
                browser'[d].setup = browser[d].setup
      BY <1>d, <1>o, <2>2
    <3>2. browser[e].setup.method = "app" => browser[e].setup.code.of # twofactor'.nonce
      BY <1>o, <1>m, <1>f, <1>v, <2>2, <3>1 DEF SetupOk
    <3> QED BY <1>o, <1>p, <3>1, <3>2 DEF SetupOk
  <2> QED BY <2>1, <2>2
<1>4. ASSUME NEW k \in used' PROVE UsedOk(k)'
  <2>1. CASE k = c
    <3>1. CASE s.method = "app"
      <4>1. c.kind = "app" /\ c.of = s.code.of /\ c.n = now
        BY <1>f, <3>1 DEF T!App
      <4>2. \A d \in Browsers : browser'[d].setup.method = "app" =>
                browser'[d].setup.code.of # c.of
        BY <1>d, <1>f, <3>1, <4>1
      <4> QED BY <1>o, <1>p, <1>f, <1>v, <2>1, <3>1, <4>1, <4>2 DEF UsedOk
    <3>2. CASE s.method = "email"
      <4>1. c.kind = "email" /\ c # T!Nothing /\ \E n \in 1..mails : c = T!Mailed(n)
        BY <1>f, <3>2 DEF T!Mailed, T!Nothing
      <4> QED BY <1>p, <1>v, <2>1, <4>1 DEF UsedOk
    <3> QED BY <1>m, <3>1, <3>2
  <2>2. CASE k \in used
    <3>1. UsedOk(k) /\ k \in Code
      BY <1>o, <2>2 DEF CodesInv, CodesTyped
    <3>2. k.kind = "email" => k # twofactor'.code
      BY <1>v DEF T!Nothing
    <3>3. k.kind = "backup" => k.of <= setups' /\ k \notin twofactor'.backup
      BY <1>o, <1>m, <1>p, <1>k, <1>v, <3>1 DEF UsedOk, Code
    <3>4. k.kind = "app" =>
            /\ k.of \in 1..setups' /\ k.of # twofactor'.nonce
            /\ \A d \in Browsers : browser'[d].setup.method = "app" =>
                  browser'[d].setup.code.of # k.of
      <4>1. k.kind = "app" => k.of \in 1..setups' /\ k.of # twofactor'.nonce
        BY <1>o, <1>m, <1>p, <1>f, <1>v, <2>2, <3>1 DEF UsedOk, Code
      <4>2. k.kind = "app" => \A d \in Browsers : browser'[d].setup.method = "app" =>
                  browser'[d].setup.code.of # k.of
        BY <1>d, <3>1 DEF UsedOk
      <4> QED BY <4>1, <4>2
    <3> QED BY <1>p, <3>1, <3>2, <3>3, <3>4 DEF UsedOk
  <2> QED BY <1>p, <2>1, <2>2
<1>5. LimitOk("password")'
  <2>1. fails'["password"] = fails["password"] /\ Trying("password")' \subseteq Trying("password")
    BY <1>e, <1>s DEF Trying, CodesInv, CodesTyped, T!ConfirmSetup, T!Set, T!At, T!NoSetup, T!Nothing, T!NoRow, T!App, T!Backup
  <2> QED BY <2>1, LimitFewer DEF CodesInv
<1>6. LimitOk("code")'
  <2>1. fails'["code"] = 0
    BY DEF CodesInv, CodesTyped, T!ConfirmSetup, T!Set, T!At, T!NoSetup, T!Nothing, T!NoRow, T!App, T!Backup
  <2>2. b \notin Trying("code")'
    BY <1>e, <1>s DEF Trying, T!SignedIn, T!ConfirmSetup, T!Set, T!At, T!NoSetup, T!Nothing, T!NoRow, T!App, T!Backup
  <2> QED BY <2>1, <2>2, LimitCleared DEF CodesInv
<1>7. ~reused'
  BY DEF CodesInv, CodesTyped, Code, RowOfCodes, UsedOk, T!ConfirmSetup, T!Set, T!At, T!NoSetup, T!Nothing, T!NoRow, T!App, T!Backup
<1> QED BY <1>1, <1>2, <1>3, <1>4, <1>5, <1>6, <1>7 DEF CodesInv

LEMMA CodesLogout ==
    ASSUME T!SignInAssumption, CodesInv, NEW b \in Browsers,
           T!Logout(b)
    PROVE  CodesInv'
<1> DEFINE r == [browser[b] EXCEPT !.pc = "out", !.setup = T!NoSetup]
<1>r. browser[b] \in Browser
  BY DEF CodesInv, CodesTyped
<1>s. r \in Browser /\ r.pc = "out" /\ r.setup = T!NoSetup
  BY <1>r DEF Browser, Code, CodesInv, CodesTyped, Setup, T!NoSetup, T!Nothing, T!Mailed, T!App, T!Methods
<1>b. browser' = [browser EXCEPT ![b] = r]
  BY DEF T!Logout, T!Set
<1> HIDE DEF r
<1>e. /\ browser' \in [Browsers -> Browser] /\ browser'[b] = r
      /\ \A e \in Browsers : e # b => browser'[e] = browser[e]
  BY <1>s, <1>b DEF CodesInv, CodesTyped
<1>1. CodesTyped'
  BY <1>e, <1>s DEF T!SignInAssumption, CodesInv, CodesTyped, Code, RowOfCodes, RowOk, T!Logout, T!Set, T!At, T!NoSetup, T!Nothing
<1>2. RowOk'
  BY <1>1, <1>e, <1>s DEF CodesInv, CodesTyped, Code, RowOfCodes, RowOk, SetupOk, T!Nothing, T!Mailed, T!Logout, T!Set, T!At, T!NoSetup, T!Nothing
<1>3. ASSUME NEW e \in Browsers PROVE SetupOk(e)'
  <2>1. /\ mails' \in Nat /\ mails <= mails' /\ setups' \in Nat /\ setups <= setups'
        /\ twofactor'.nonce \in {0, twofactor.nonce}
        /\ \A d \in Browsers : browser'[d].setup \in {browser[d].setup, T!NoSetup}
    BY <1>e, <1>s DEF CodesInv, CodesTyped, Code, RowOfCodes, RowOk, T!Logout, T!Set, T!At, T!NoSetup, T!Nothing
  <2> QED BY <2>1, SetupKept
<1>4. ASSUME NEW k \in used' PROVE UsedOk(k)'
  BY <1>e, <1>s DEF CodesInv, CodesTyped, Code, RowOfCodes, RowOk, SetupOk, UsedOk, T!NoSetup, T!Nothing, T!Mailed, T!Logout, T!Set, T!At, T!NoSetup, T!Nothing
<1>5. LimitOk("password")'
  <2>1. fails'["password"] = fails["password"] /\ Trying("password")' \subseteq Trying("password")
    BY <1>e, <1>s DEF Trying, CodesInv, CodesTyped, T!Logout, T!Set, T!At, T!NoSetup, T!Nothing
  <2> QED BY <2>1, LimitFewer DEF CodesInv
<1>6. LimitOk("code")'
  <2>1. fails'["code"] = fails["code"] /\ Trying("code")' \subseteq Trying("code")
    BY <1>e, <1>s DEF Trying, CodesInv, CodesTyped, T!Logout, T!Set, T!At, T!NoSetup, T!Nothing
  <2> QED BY <2>1, LimitFewer DEF CodesInv
<1>7. ~reused'
  BY DEF CodesInv, CodesTyped, Code, RowOfCodes, UsedOk, T!Logout, T!Set, T!At, T!NoSetup, T!Nothing
<1> QED BY <1>1, <1>2, <1>3, <1>4, <1>5, <1>6, <1>7 DEF CodesInv

LEMMA CodesStutter ==
    ASSUME CodesInv, UNCHANGED signInVars
    PROVE  CodesInv'
BY DEF CodesInv, CodesTyped, RowOk, SetupOk, UsedOk, LimitOk, Trying, signInVars

LEMMA CodesInit ==
    ASSUME T!SignInAssumption, T!Init
    PROVE  CodesInv
<1>1. CodesTyped
  BY DEF CodesTyped, T!Init, T!NoRow, T!Fresh, T!NoSetup, T!Nothing, Code, RowOfCodes, Setup, Browser
<1>2. RowOk /\ (\A b \in Browsers : SetupOk(b)) /\ (\A c \in used : UsedOk(c)) /\ ~reused
  BY DEF RowOk, SetupOk, UsedOk, T!Init, T!NoRow, T!Fresh, T!NoSetup, T!Nothing
<1>3. ASSUME NEW key \in {"password", "code"} PROVE LimitOk(key)
  <2>1. fails[key] = 0 /\ Trying(key) = {}
    BY DEF T!Init, T!Fresh, Trying
  <2>2. Cardinality(Browsers) \in Nat /\ Cardinality({}) = 0 /\ Failures \in Nat \ {0}
    BY TryingFinite, FS_EmptySet DEF T!SignInAssumption
  <2> QED BY <2>1, <2>2 DEF LimitOk
<1> QED BY <1>1, <1>2, <1>3 DEF CodesInv

LEMMA CodesStep ==
    ASSUME T!SignInAssumption, CodesInv, T!Next
    PROVE  CodesInv'
<1>1. CASE T!Tick \/ T!AdminDisable \/ T!NewPassword
  BY <1>1, CodesTick, CodesAdminDisable, CodesNewPassword
<1>2. ASSUME NEW b \in Browsers, T!LoginPage(b) PROVE CodesInv'
  BY <1>2, CodesPasswordTyped, CodesPasswordRefused, CodesPasswordHeld, CodesPasswordLetsIn
     DEF T!LoginPage
<1>3. ASSUME NEW b \in Browsers, T!CodePage(b) PROVE CodesInv'
  BY <1>3, CodesResend, CodesCodeTyped DEF T!CodePage
<1>4. ASSUME NEW b \in Browsers, T!SettingsPage(b) PROVE CodesInv'
  BY <1>4, CodesStartSetup, CodesResendSetup, CodesConfirmSetup, CodesCancelSetup, CodesResend,
     CodesCodeTyped DEF T!SettingsPage
<1>5. ASSUME NEW b \in Browsers, T!CodeChecked(b) PROVE CodesInv'
  BY <1>5, CodesCodeAccepted, CodesCodeRefused, CodesFailureCounted DEF T!CodeChecked
<1>6. ASSUME NEW b \in Browsers, T!Logout(b) PROVE CodesInv'
  BY <1>6, CodesLogout
<1> QED BY <1>1, <1>2, <1>3, <1>4, <1>5, <1>6 DEF T!Next

\* "A code from the app works once", an email code and a backup code too, and
\* "wrong codes are limited per account" (two_factor.py:9-18) - passwords too
\* - but for one each of the requests that passed the check at once.
THEOREM CodesLetInOnce == ASSUME T!SignInAssumption PROVE PartSpec => []CodesHold
<1>1. PartInit => CodesInv
  BY CodesInit DEF PartInit
<1>2. CodesInv /\ [PartNext]_<<part, vars, accountVars, signInVars, fileVars, googleVars>>
      => CodesInv'
  <2> SUFFICES ASSUME CodesInv, PartNext PROVE CodesInv'
    BY CodesStutter
  <2> QED BY CodesStep, CodesStutter DEF PartNext
<1>3. CodesInv => CodesHold
  <2> SUFFICES ASSUME CodesInv PROVE CodesHold
    OBVIOUS
  <2>1. ASSUME NEW key \in {"password", "code"}
        PROVE  fails[key] <= Failures + T!Cardinality(Browsers) - 1
    <3>1. LimitOk(key) /\ fails[key] \in Nat /\ Failures \in Nat
      BY DEF CodesInv, CodesTyped, T!SignInAssumption
    <3> QED BY <3>1, SameSets, TryingFinite DEF LimitOk
  <2>2. DOMAIN fails = {"password", "code"} /\ ~reused
    BY DEF CodesInv, CodesTyped
  <2> QED BY <2>1, <2>2 DEF CodesHold, T!CodesHold, T!CodesWorkOnce, T!WrongCodesLimited
<1> QED BY <1>1, <1>2, <1>3, PTL DEF PartSpec

-----------------------------------------------------------------------------
(* Links: the invariant *)

Acct == [exists : BOOLEAN, email : Addresses, verified : BOOLEAN,
         pass : BOOLEAN, guest : BOOLEAN, google : BOOLEAN]

LinkKinds == {"verify", "reset", "password", "email", "guest", "google", "team"}

Link == [kind : LinkKinds, to : Addresses, used : BOOLEAN]

Work == [pc : LinkKinds \cup {"idle", "finish", "disconnect"},
         link : Nat, first : BOOLEAN, had : BOOLEAN]

LinksTyped ==
    /\ acct \in Acct
    /\ links \in Seq(Link)
    /\ worker \in [Workers -> Work]
    /\ taken \in SUBSET Addresses /\ proved \in SUBSET Addresses
    /\ killed \in Nat
    /\ odd \in SUBSET {"overlap", "connected", "joined"}

\* No account has no password, no link and no Google; Google is for verified.
AcctOk ==
    /\ ~acct.exists => ~(acct.verified \/ acct.pass \/ acct.guest \/ acct.google)
    /\ acct.google => acct.verified
    /\ acct.exists /\ acct.verified /\ "connected" \notin odd => acct.email \in proved

\* A link that proves the account's address names it, or nothing is left to prove.
LinkOk(i) ==
    acct.exists /\ links[i].kind \in {"verify", "reset", "password", "guest"} =>
        links[i].to = acct.email \/ acct.email \in proved

WorkOk(w) ==
    /\ worker[w].pc \in LinkKinds \cup {"finish"} => worker[w].link \in DOMAIN links
    /\ worker[w].pc = "email" => links[worker[w].link].to \in proved
    /\ worker[w].pc \in {"verify", "reset", "guest", "google", "team"} /\ acct.exists =>
        acct.email \in proved
    /\ worker[w].pc = "idle" => worker[w] = A!Idle

\* What a handler read of the account is still so while nobody else is at it.
ReadOk(w) ==
    /\ worker[w].pc \in {"finish", "disconnect"} => acct.exists /\ acct.pass
    /\ worker[w].pc = "guest" /\ acct.exists =>
        worker[w].first = ~acct.verified /\ worker[w].had = acct.pass

Undisturbed ==
    /\ \A v, w \in Workers : worker[v].pc # "idle" /\ worker[w].pc # "idle" => v = w
    /\ \A w \in Workers : ReadOk(w)
    /\ acct.exists => acct.pass \/ acct.google \/ acct.guest
    /\ "joined" \notin odd /\ killed = 0 /\ acct.guest /\ (acct.pass \/ acct.google) =>
        \E w \in Workers : worker[w].pc = "finish"

LinksInv ==
    /\ LinksTyped
    /\ AcctOk
    /\ \A i \in DOMAIN links : LinkOk(i)
    /\ \A w \in Workers : WorkOk(w)
    /\ "overlap" \notin odd => Undisturbed

-----------------------------------------------------------------------------
(* Links: what a step does to them *)

LinksKept ==
    /\ links' \in Seq(Link) /\ DOMAIN links' = DOMAIN links
    /\ \A i \in DOMAIN links : links'[i].kind = links[i].kind /\ links'[i].to = links[i].to

LinksGrow(kind, to) ==
    /\ links' \in Seq(Link) /\ DOMAIN links \subseteq DOMAIN links'
    /\ \A i \in DOMAIN links : links'[i] = links[i]
    /\ \A i \in DOMAIN links' \ DOMAIN links : links'[i].kind = kind /\ links'[i].to = to

LEMMA Mailed ==
    ASSUME LinksTyped, NEW kind \in LinkKinds, NEW to \in Addresses, A!Mail(kind, to)
    PROVE  LinksGrow(kind, to)
<1>1. [kind |-> kind, to |-> to, used |-> FALSE] \in Link
  BY DEF Link
<1> QED BY <1>1 DEF A!Mail, LinksTyped, LinksGrow

LEMMA UsedOne ==
    ASSUME LinksTyped, NEW i \in DOMAIN links, A!UseOne(i)
    PROVE  LinksKept
<1>0. links \in Seq(Link) /\ links[i] \in Link
  BY DEF LinksTyped
<1>1. links \in Seq(Link) /\ [links[i] EXCEPT !.used = TRUE] \in Link
  BY <1>0 DEF Link
<1>2. links' = [links EXCEPT ![i] = [links[i] EXCEPT !.used = TRUE]]
  BY DEF A!UseOne
<1>3. links' \in Seq(Link) /\ DOMAIN links' = DOMAIN links
  BY <1>1, <1>2
<1>4. ASSUME NEW j \in DOMAIN links
      PROVE  links'[j].kind = links[j].kind /\ links'[j].to = links[j].to
  BY <1>1, <1>2 DEF Link
<1> QED BY <1>3, <1>4 DEF LinksKept

LEMMA UsedUp ==
    ASSUME LinksTyped, NEW kind, A!UseUp(kind)
    PROVE  LinksKept
<1>1. links \in Seq(Link)
  BY DEF LinksTyped
<1>2. links' = [j \in DOMAIN links |->
                 IF links[j].kind = kind THEN [links[j] EXCEPT !.used = TRUE] ELSE links[j]]
  BY DEF A!UseUp
<1>3. ASSUME NEW j \in DOMAIN links
      PROVE  links'[j] \in Link /\ links'[j].kind = links[j].kind /\ links'[j].to = links[j].to
  <2>1. links[j] \in Link /\ links'[j] \in {links[j], [links[j] EXCEPT !.used = TRUE]}
    BY <1>1, <1>2
  <2> QED BY <2>1 DEF Link
<1>4. DOMAIN links' = DOMAIN links
  BY <1>2
<1>5. links' \in Seq(Link)
  BY <1>1, <1>2, <1>3, <1>4
<1> QED BY <1>3, <1>4, <1>5 DEF LinksKept

-----------------------------------------------------------------------------
(* Links: every step keeps the invariant *)

LEMMA LinksRegister ==
    ASSUME LinksInv, NEW e \in Addresses, A!Register(e)
    PROVE  LinksInv'
<1>t. /\ LinksTyped /\ AcctOk
      /\ \A j \in DOMAIN links : LinkOk(j)
      /\ \A v \in Workers : WorkOk(v)
      /\ "overlap" \notin odd => Undisturbed
  BY DEF LinksInv
<1>l. LinksGrow("verify", e)
  BY <1>t, Mailed DEF A!Register, LinkKinds, LinksTyped, Acct
<1>a. /\ acct' \in Acct
      /\ acct' = [A!NoAccount(e) EXCEPT !.exists = TRUE, !.pass = TRUE]
  BY <1>t DEF A!Register, A!Start, A!NoteOverlap, A!Busy, A!At, A!NoAccount, A!Linked, LinksTyped, Acct
<1>w. worker' = worker
  BY DEF A!Register
<1>1. LinksTyped'
  BY <1>t, <1>l, <1>a, <1>w DEF A!Register, A!Start, A!NoteOverlap, A!Busy, A!At, LinksKept, LinksGrow, LinksTyped, Acct, Link, Work, LinkKinds, A!Idle, A!NoAccount, A!Linked
<1>2. AcctOk'
  BY <1>t, <1>l, <1>a, <1>w DEF A!Register, A!Start, A!NoteOverlap, A!Busy, A!At, LinksKept, LinksGrow, LinksTyped, Acct, Link, Work, LinkKinds, A!Idle, A!NoAccount, A!Linked, AcctOk, WorkOk, LinkOk
<1>3. ASSUME NEW j \in DOMAIN links' PROVE LinkOk(j)'
  BY <1>t, <1>l, <1>a, <1>w DEF A!Register, A!Start, A!NoteOverlap, A!Busy, A!At, LinksKept, LinksGrow, LinksTyped, Acct, Link, Work, LinkKinds, A!Idle, A!NoAccount, A!Linked, LinkOk, WorkOk
<1>4. ASSUME NEW v \in Workers PROVE WorkOk(v)'
  BY <1>t, <1>l, <1>a, <1>w DEF A!Register, A!Start, A!NoteOverlap, A!Busy, A!At, LinksKept, LinksGrow, LinksTyped, Acct, Link, Work, LinkKinds, A!Idle, A!NoAccount, A!Linked, WorkOk, LinkOk
<1>5. ASSUME "overlap" \notin odd' PROVE Undisturbed'
  <2>1. Undisturbed /\ odd' = odd
    BY <1>t, <1>5 DEF A!Register
  <2>2. ASSUME NEW v \in Workers PROVE ReadOk(v)'
    <3>1. ReadOk(v) /\ WorkOk(v)
      BY <1>t, <2>1 DEF Undisturbed
    <3>2. acct.exists \/ links = <<>>
      BY DEF A!Register
    <3>3. worker[v].pc = "guest" => links # <<>>
      BY <3>1 DEF WorkOk, LinkKinds
    <3> QED BY <1>a, <1>w, <3>1, <3>2, <3>3 DEF ReadOk, A!Register
  <2>3. acct'.pass \/ acct'.google \/ acct'.guest
    BY <1>t, <1>a, <2>1 DEF A!NoAccount, Undisturbed, AcctOk, A!Register
  <2>4. acct' = acct \/ ~(acct'.guest /\ (acct'.pass \/ acct'.google))
    BY <1>a DEF A!NoAccount
  <2>5. killed' = killed
    BY DEF A!Register
  <2> QED BY <1>w, <2>1, <2>2, <2>3, <2>4, <2>5 DEF Undisturbed
<1> QED BY <1>1, <1>2, <1>3, <1>4, <1>5 DEF LinksInv

LEMMA LinksGuestSubmit ==
    ASSUME LinksInv, NEW e \in Addresses, A!GuestSubmit(e)
    PROVE  LinksInv'
<1>t. /\ LinksTyped /\ AcctOk
      /\ \A j \in DOMAIN links : LinkOk(j)
      /\ \A v \in Workers : WorkOk(v)
      /\ "overlap" \notin odd => Undisturbed
  BY DEF LinksInv
<1>l. LinksGrow("guest", e)
  BY <1>t, Mailed DEF A!GuestSubmit, LinkKinds, LinksTyped, Acct
<1>a. /\ acct' \in Acct
      /\ acct' = IF acct.exists THEN acct
               ELSE [A!NoAccount(e) EXCEPT !.exists = TRUE, !.guest = TRUE]
  BY <1>t DEF A!GuestSubmit, A!Start, A!NoteOverlap, A!Busy, A!At, A!NoAccount, A!Linked, LinksTyped, Acct
<1>w. worker' = worker
  BY DEF A!GuestSubmit
<1>1. LinksTyped'
  BY <1>t, <1>l, <1>a, <1>w DEF A!GuestSubmit, A!Start, A!NoteOverlap, A!Busy, A!At, LinksKept, LinksGrow, LinksTyped, Acct, Link, Work, LinkKinds, A!Idle, A!NoAccount, A!Linked
<1>2. AcctOk'
  BY <1>t, <1>l, <1>a, <1>w DEF A!GuestSubmit, A!Start, A!NoteOverlap, A!Busy, A!At, LinksKept, LinksGrow, LinksTyped, Acct, Link, Work, LinkKinds, A!Idle, A!NoAccount, A!Linked, AcctOk, WorkOk, LinkOk
<1>3. ASSUME NEW j \in DOMAIN links' PROVE LinkOk(j)'
  BY <1>t, <1>l, <1>a, <1>w DEF A!GuestSubmit, A!Start, A!NoteOverlap, A!Busy, A!At, LinksKept, LinksGrow, LinksTyped, Acct, Link, Work, LinkKinds, A!Idle, A!NoAccount, A!Linked, LinkOk, WorkOk
<1>4. ASSUME NEW v \in Workers PROVE WorkOk(v)'
  BY <1>t, <1>l, <1>a, <1>w DEF A!GuestSubmit, A!Start, A!NoteOverlap, A!Busy, A!At, LinksKept, LinksGrow, LinksTyped, Acct, Link, Work, LinkKinds, A!Idle, A!NoAccount, A!Linked, WorkOk, LinkOk
<1>5. ASSUME "overlap" \notin odd' PROVE Undisturbed'
  <2>1. Undisturbed /\ odd' = odd
    BY <1>t, <1>5 DEF A!GuestSubmit
  <2>2. ASSUME NEW v \in Workers PROVE ReadOk(v)'
    <3>1. ReadOk(v) /\ WorkOk(v)
      BY <1>t, <2>1 DEF Undisturbed
    <3>2. acct.exists \/ links = <<>>
      BY DEF A!GuestSubmit
    <3>3. worker[v].pc = "guest" => links # <<>>
      BY <3>1 DEF WorkOk, LinkKinds
    <3> QED BY <1>a, <1>w, <3>1, <3>2, <3>3 DEF ReadOk
  <2>3. acct'.pass \/ acct'.google \/ acct'.guest
    BY <1>t, <1>a, <2>1 DEF A!NoAccount, Undisturbed, AcctOk
  <2>4. acct' = acct \/ ~(acct'.guest /\ (acct'.pass \/ acct'.google))
    BY <1>a DEF A!NoAccount
  <2>5. killed' = killed
    BY DEF A!GuestSubmit
  <2> QED BY <1>w, <2>1, <2>2, <2>3, <2>4, <2>5 DEF Undisturbed
<1> QED BY <1>1, <1>2, <1>3, <1>4, <1>5 DEF LinksInv

LEMMA LinksGoogleSignup ==
    ASSUME LinksInv, NEW e \in Addresses, A!GoogleSignup(e)
    PROVE  LinksInv'
<1>t. /\ LinksTyped /\ AcctOk
      /\ \A j \in DOMAIN links : LinkOk(j)
      /\ \A v \in Workers : WorkOk(v)
      /\ "overlap" \notin odd => Undisturbed
  BY DEF LinksInv
<1>l. links' = links
  BY DEF A!GoogleSignup
<1>a. /\ acct' \in Acct
      /\ acct' = [A!NoAccount(e) EXCEPT !.exists = TRUE, !.verified = TRUE, !.google = TRUE]
  BY <1>t DEF A!GoogleSignup, A!Start, A!NoteOverlap, A!Busy, A!At, A!NoAccount, A!Linked, LinksTyped, Acct
<1>w. worker' = worker
  BY DEF A!GoogleSignup
<1>1. LinksTyped'
  BY <1>t, <1>l, <1>a, <1>w DEF A!GoogleSignup, A!Start, A!NoteOverlap, A!Busy, A!At, LinksKept, LinksGrow, LinksTyped, Acct, Link, Work, LinkKinds, A!Idle, A!NoAccount, A!Linked
<1>2. AcctOk'
  BY <1>t, <1>l, <1>a, <1>w DEF A!GoogleSignup, A!Start, A!NoteOverlap, A!Busy, A!At, LinksKept, LinksGrow, LinksTyped, Acct, Link, Work, LinkKinds, A!Idle, A!NoAccount, A!Linked, AcctOk, WorkOk, LinkOk
<1>3. ASSUME NEW j \in DOMAIN links' PROVE LinkOk(j)'
  BY <1>t, <1>l, <1>a, <1>w DEF A!GoogleSignup, A!Start, A!NoteOverlap, A!Busy, A!At, LinksKept, LinksGrow, LinksTyped, Acct, Link, Work, LinkKinds, A!Idle, A!NoAccount, A!Linked, LinkOk, WorkOk
<1>4. ASSUME NEW v \in Workers PROVE WorkOk(v)'
  BY <1>t, <1>l, <1>a, <1>w DEF A!GoogleSignup, A!Start, A!NoteOverlap, A!Busy, A!At, LinksKept, LinksGrow, LinksTyped, Acct, Link, Work, LinkKinds, A!Idle, A!NoAccount, A!Linked, WorkOk, LinkOk
<1>5. ASSUME "overlap" \notin odd' PROVE Undisturbed'
  <2>1. Undisturbed /\ odd' = odd
    BY <1>t, <1>5 DEF A!GoogleSignup
  <2>2. ASSUME NEW v \in Workers PROVE ReadOk(v)'
    <3>1. ReadOk(v) /\ WorkOk(v)
      BY <1>t, <2>1 DEF Undisturbed
    <3>2. acct.exists \/ links = <<>>
      BY DEF A!GoogleSignup
    <3>3. worker[v].pc = "guest" => links # <<>>
      BY <3>1 DEF WorkOk, LinkKinds
    <3> QED BY <1>a, <1>w, <3>1, <3>2, <3>3 DEF ReadOk, A!GoogleSignup
  <2>3. acct'.pass \/ acct'.google \/ acct'.guest
    BY <1>t, <1>a, <2>1 DEF A!NoAccount, Undisturbed, AcctOk, A!GoogleSignup
  <2>4. acct' = acct \/ ~(acct'.guest /\ (acct'.pass \/ acct'.google))
    BY <1>a DEF A!NoAccount
  <2>5. killed' = killed
    BY DEF A!GoogleSignup
  <2> QED BY <1>w, <2>1, <2>2, <2>3, <2>4, <2>5 DEF Undisturbed
<1> QED BY <1>1, <1>2, <1>3, <1>4, <1>5 DEF LinksInv

LEMMA LinksTaken ==
    ASSUME LinksInv, NEW e \in Addresses, A!Taken(e)
    PROVE  LinksInv'
<1>t. /\ LinksTyped /\ AcctOk
      /\ \A j \in DOMAIN links : LinkOk(j)
      /\ \A v \in Workers : WorkOk(v)
      /\ "overlap" \notin odd => Undisturbed
  BY DEF LinksInv
<1>l. links' = links
  BY DEF A!Taken
<1>a. acct' = acct
  BY DEF A!Taken
<1>w. worker' = worker
  BY DEF A!Taken
<1>1. LinksTyped'
  BY <1>t, <1>l, <1>a, <1>w DEF A!Taken, A!Start, A!NoteOverlap, A!Busy, A!At, LinksKept, LinksGrow, LinksTyped, Acct, Link, Work, LinkKinds, A!Idle, A!NoAccount, A!Linked
<1>2. AcctOk'
  BY <1>t, <1>l, <1>a, <1>w DEF A!Taken, A!Start, A!NoteOverlap, A!Busy, A!At, LinksKept, LinksGrow, LinksTyped, Acct, Link, Work, LinkKinds, A!Idle, A!NoAccount, A!Linked, AcctOk, WorkOk, LinkOk
<1>3. ASSUME NEW j \in DOMAIN links' PROVE LinkOk(j)'
  BY <1>t, <1>l, <1>a, <1>w DEF A!Taken, A!Start, A!NoteOverlap, A!Busy, A!At, LinksKept, LinksGrow, LinksTyped, Acct, Link, Work, LinkKinds, A!Idle, A!NoAccount, A!Linked, LinkOk, WorkOk
<1>4. ASSUME NEW v \in Workers PROVE WorkOk(v)'
  BY <1>t, <1>l, <1>a, <1>w DEF A!Taken, A!Start, A!NoteOverlap, A!Busy, A!At, LinksKept, LinksGrow, LinksTyped, Acct, Link, Work, LinkKinds, A!Idle, A!NoAccount, A!Linked, WorkOk, LinkOk
<1>5. ASSUME "overlap" \notin odd' PROVE Undisturbed'
  BY <1>t, <1>l, <1>a, <1>w, <1>5 DEF A!Taken, A!Start, A!NoteOverlap, A!Busy, A!At, LinksKept, LinksGrow, LinksTyped, Acct, Link, Work, LinkKinds, A!Idle, A!NoAccount, A!Linked, WorkOk, ReadOk, Undisturbed, AcctOk
<1> QED BY <1>1, <1>2, <1>3, <1>4, <1>5 DEF LinksInv

LEMMA LinksResend ==
    ASSUME LinksInv, A!Resend
    PROVE  LinksInv'
<1>t. /\ LinksTyped /\ AcctOk
      /\ \A j \in DOMAIN links : LinkOk(j)
      /\ \A v \in Workers : WorkOk(v)
      /\ "overlap" \notin odd => Undisturbed
  BY DEF LinksInv
<1>l. LinksGrow("verify", acct.email)
  BY <1>t, Mailed DEF A!Resend, LinkKinds, LinksTyped, Acct
<1>a. acct' = acct
  BY DEF A!Resend
<1>w. worker' = worker
  BY DEF A!Resend
<1>1. LinksTyped'
  BY <1>t, <1>l, <1>a, <1>w DEF A!Resend, A!Start, A!NoteOverlap, A!Busy, A!At, LinksKept, LinksGrow, LinksTyped, Acct, Link, Work, LinkKinds, A!Idle, A!NoAccount, A!Linked
<1>2. AcctOk'
  BY <1>t, <1>l, <1>a, <1>w DEF A!Resend, A!Start, A!NoteOverlap, A!Busy, A!At, LinksKept, LinksGrow, LinksTyped, Acct, Link, Work, LinkKinds, A!Idle, A!NoAccount, A!Linked, AcctOk, WorkOk, LinkOk
<1>3. ASSUME NEW j \in DOMAIN links' PROVE LinkOk(j)'
  BY <1>t, <1>l, <1>a, <1>w DEF A!Resend, A!Start, A!NoteOverlap, A!Busy, A!At, LinksKept, LinksGrow, LinksTyped, Acct, Link, Work, LinkKinds, A!Idle, A!NoAccount, A!Linked, LinkOk, WorkOk
<1>4. ASSUME NEW v \in Workers PROVE WorkOk(v)'
  BY <1>t, <1>l, <1>a, <1>w DEF A!Resend, A!Start, A!NoteOverlap, A!Busy, A!At, LinksKept, LinksGrow, LinksTyped, Acct, Link, Work, LinkKinds, A!Idle, A!NoAccount, A!Linked, WorkOk, LinkOk
<1>5. ASSUME "overlap" \notin odd' PROVE Undisturbed'
  BY <1>t, <1>l, <1>a, <1>w, <1>5 DEF A!Resend, A!Start, A!NoteOverlap, A!Busy, A!At, LinksKept, LinksGrow, LinksTyped, Acct, Link, Work, LinkKinds, A!Idle, A!NoAccount, A!Linked, WorkOk, ReadOk, Undisturbed, AcctOk
<1> QED BY <1>1, <1>2, <1>3, <1>4, <1>5 DEF LinksInv

LEMMA LinksRequestReset ==
    ASSUME LinksInv, A!RequestReset
    PROVE  LinksInv'
<1>t. /\ LinksTyped /\ AcctOk
      /\ \A j \in DOMAIN links : LinkOk(j)
      /\ \A v \in Workers : WorkOk(v)
      /\ "overlap" \notin odd => Undisturbed
  BY DEF LinksInv
<1>l. LinksGrow("reset", acct.email)
  BY <1>t, Mailed DEF A!RequestReset, LinkKinds, LinksTyped, Acct
<1>a. acct' = acct
  BY DEF A!RequestReset
<1>w. worker' = worker
  BY DEF A!RequestReset
<1>1. LinksTyped'
  BY <1>t, <1>l, <1>a, <1>w DEF A!RequestReset, A!Start, A!NoteOverlap, A!Busy, A!At, LinksKept, LinksGrow, LinksTyped, Acct, Link, Work, LinkKinds, A!Idle, A!NoAccount, A!Linked
<1>2. AcctOk'
  BY <1>t, <1>l, <1>a, <1>w DEF A!RequestReset, A!Start, A!NoteOverlap, A!Busy, A!At, LinksKept, LinksGrow, LinksTyped, Acct, Link, Work, LinkKinds, A!Idle, A!NoAccount, A!Linked, AcctOk, WorkOk, LinkOk
<1>3. ASSUME NEW j \in DOMAIN links' PROVE LinkOk(j)'
  BY <1>t, <1>l, <1>a, <1>w DEF A!RequestReset, A!Start, A!NoteOverlap, A!Busy, A!At, LinksKept, LinksGrow, LinksTyped, Acct, Link, Work, LinkKinds, A!Idle, A!NoAccount, A!Linked, LinkOk, WorkOk
<1>4. ASSUME NEW v \in Workers PROVE WorkOk(v)'
  BY <1>t, <1>l, <1>a, <1>w DEF A!RequestReset, A!Start, A!NoteOverlap, A!Busy, A!At, LinksKept, LinksGrow, LinksTyped, Acct, Link, Work, LinkKinds, A!Idle, A!NoAccount, A!Linked, WorkOk, LinkOk
<1>5. ASSUME "overlap" \notin odd' PROVE Undisturbed'
  BY <1>t, <1>l, <1>a, <1>w, <1>5 DEF A!RequestReset, A!Start, A!NoteOverlap, A!Busy, A!At, LinksKept, LinksGrow, LinksTyped, Acct, Link, Work, LinkKinds, A!Idle, A!NoAccount, A!Linked, WorkOk, ReadOk, Undisturbed, AcctOk
<1> QED BY <1>1, <1>2, <1>3, <1>4, <1>5 DEF LinksInv

LEMMA LinksRequestPassword ==
    ASSUME LinksInv, A!RequestPassword
    PROVE  LinksInv'
<1>t. /\ LinksTyped /\ AcctOk
      /\ \A j \in DOMAIN links : LinkOk(j)
      /\ \A v \in Workers : WorkOk(v)
      /\ "overlap" \notin odd => Undisturbed
  BY DEF LinksInv
<1>l. LinksGrow("password", acct.email)
  BY <1>t, Mailed DEF A!RequestPassword, LinkKinds, LinksTyped, Acct
<1>a. acct' = acct
  BY DEF A!RequestPassword
<1>w. worker' = worker
  BY DEF A!RequestPassword
<1>1. LinksTyped'
  BY <1>t, <1>l, <1>a, <1>w DEF A!RequestPassword, A!Start, A!NoteOverlap, A!Busy, A!At, LinksKept, LinksGrow, LinksTyped, Acct, Link, Work, LinkKinds, A!Idle, A!NoAccount, A!Linked
<1>2. AcctOk'
  BY <1>t, <1>l, <1>a, <1>w DEF A!RequestPassword, A!Start, A!NoteOverlap, A!Busy, A!At, LinksKept, LinksGrow, LinksTyped, Acct, Link, Work, LinkKinds, A!Idle, A!NoAccount, A!Linked, AcctOk, WorkOk, LinkOk
<1>3. ASSUME NEW j \in DOMAIN links' PROVE LinkOk(j)'
  BY <1>t, <1>l, <1>a, <1>w DEF A!RequestPassword, A!Start, A!NoteOverlap, A!Busy, A!At, LinksKept, LinksGrow, LinksTyped, Acct, Link, Work, LinkKinds, A!Idle, A!NoAccount, A!Linked, LinkOk, WorkOk
<1>4. ASSUME NEW v \in Workers PROVE WorkOk(v)'
  BY <1>t, <1>l, <1>a, <1>w DEF A!RequestPassword, A!Start, A!NoteOverlap, A!Busy, A!At, LinksKept, LinksGrow, LinksTyped, Acct, Link, Work, LinkKinds, A!Idle, A!NoAccount, A!Linked, WorkOk, LinkOk
<1>5. ASSUME "overlap" \notin odd' PROVE Undisturbed'
  BY <1>t, <1>l, <1>a, <1>w, <1>5 DEF A!RequestPassword, A!Start, A!NoteOverlap, A!Busy, A!At, LinksKept, LinksGrow, LinksTyped, Acct, Link, Work, LinkKinds, A!Idle, A!NoAccount, A!Linked, WorkOk, ReadOk, Undisturbed, AcctOk
<1> QED BY <1>1, <1>2, <1>3, <1>4, <1>5 DEF LinksInv

LEMMA LinksRequestEmail ==
    ASSUME LinksInv, NEW e \in Addresses, A!RequestEmail(e)
    PROVE  LinksInv'
<1>t. /\ LinksTyped /\ AcctOk
      /\ \A j \in DOMAIN links : LinkOk(j)
      /\ \A v \in Workers : WorkOk(v)
      /\ "overlap" \notin odd => Undisturbed
  BY DEF LinksInv
<1>l. LinksGrow("email", e)
  BY <1>t, Mailed DEF A!RequestEmail, LinkKinds, LinksTyped, Acct
<1>a. acct' = acct
  BY DEF A!RequestEmail
<1>w. worker' = worker
  BY DEF A!RequestEmail
<1>1. LinksTyped'
  BY <1>t, <1>l, <1>a, <1>w DEF A!RequestEmail, A!Start, A!NoteOverlap, A!Busy, A!At, LinksKept, LinksGrow, LinksTyped, Acct, Link, Work, LinkKinds, A!Idle, A!NoAccount, A!Linked
<1>2. AcctOk'
  BY <1>t, <1>l, <1>a, <1>w DEF A!RequestEmail, A!Start, A!NoteOverlap, A!Busy, A!At, LinksKept, LinksGrow, LinksTyped, Acct, Link, Work, LinkKinds, A!Idle, A!NoAccount, A!Linked, AcctOk, WorkOk, LinkOk
<1>3. ASSUME NEW j \in DOMAIN links' PROVE LinkOk(j)'
  BY <1>t, <1>l, <1>a, <1>w DEF A!RequestEmail, A!Start, A!NoteOverlap, A!Busy, A!At, LinksKept, LinksGrow, LinksTyped, Acct, Link, Work, LinkKinds, A!Idle, A!NoAccount, A!Linked, LinkOk, WorkOk
<1>4. ASSUME NEW v \in Workers PROVE WorkOk(v)'
  BY <1>t, <1>l, <1>a, <1>w DEF A!RequestEmail, A!Start, A!NoteOverlap, A!Busy, A!At, LinksKept, LinksGrow, LinksTyped, Acct, Link, Work, LinkKinds, A!Idle, A!NoAccount, A!Linked, WorkOk, LinkOk
<1>5. ASSUME "overlap" \notin odd' PROVE Undisturbed'
  <2>1. odd' = odd /\ killed' = killed
    BY DEF A!RequestEmail
  <2>2. Undisturbed
    BY <1>t, <1>5, <2>1
  <2> QED BY <1>a, <1>w, <2>1, <2>2 DEF Undisturbed, ReadOk
<1> QED BY <1>1, <1>2, <1>3, <1>4, <1>5 DEF LinksInv

LEMMA LinksAskGoogle ==
    ASSUME LinksInv, A!AskGoogle
    PROVE  LinksInv'
<1>t. /\ LinksTyped /\ AcctOk
      /\ \A j \in DOMAIN links : LinkOk(j)
      /\ \A v \in Workers : WorkOk(v)
      /\ "overlap" \notin odd => Undisturbed
  BY DEF LinksInv
<1>l. LinksGrow("google", acct.email)
  BY <1>t, Mailed DEF A!AskGoogle, LinkKinds, LinksTyped, Acct
<1>a. acct' = acct
  BY DEF A!AskGoogle
<1>w. worker' = worker
  BY DEF A!AskGoogle
<1>1. LinksTyped'
  BY <1>t, <1>l, <1>a, <1>w DEF A!AskGoogle, A!Start, A!NoteOverlap, A!Busy, A!At, LinksKept, LinksGrow, LinksTyped, Acct, Link, Work, LinkKinds, A!Idle, A!NoAccount, A!Linked
<1>2. AcctOk'
  BY <1>t, <1>l, <1>a, <1>w DEF A!AskGoogle, A!Start, A!NoteOverlap, A!Busy, A!At, LinksKept, LinksGrow, LinksTyped, Acct, Link, Work, LinkKinds, A!Idle, A!NoAccount, A!Linked, AcctOk, WorkOk, LinkOk
<1>3. ASSUME NEW j \in DOMAIN links' PROVE LinkOk(j)'
  BY <1>t, <1>l, <1>a, <1>w DEF A!AskGoogle, A!Start, A!NoteOverlap, A!Busy, A!At, LinksKept, LinksGrow, LinksTyped, Acct, Link, Work, LinkKinds, A!Idle, A!NoAccount, A!Linked, LinkOk, WorkOk
<1>4. ASSUME NEW v \in Workers PROVE WorkOk(v)'
  BY <1>t, <1>l, <1>a, <1>w DEF A!AskGoogle, A!Start, A!NoteOverlap, A!Busy, A!At, LinksKept, LinksGrow, LinksTyped, Acct, Link, Work, LinkKinds, A!Idle, A!NoAccount, A!Linked, WorkOk, LinkOk
<1>5. ASSUME "overlap" \notin odd' PROVE Undisturbed'
  BY <1>t, <1>l, <1>a, <1>w, <1>5 DEF A!AskGoogle, A!Start, A!NoteOverlap, A!Busy, A!At, LinksKept, LinksGrow, LinksTyped, Acct, Link, Work, LinkKinds, A!Idle, A!NoAccount, A!Linked, WorkOk, ReadOk, Undisturbed, AcctOk
<1> QED BY <1>1, <1>2, <1>3, <1>4, <1>5 DEF LinksInv

LEMMA LinksInvited ==
    ASSUME LinksInv, NEW e \in Addresses, A!Invited(e)
    PROVE  LinksInv'
<1>t. /\ LinksTyped /\ AcctOk
      /\ \A j \in DOMAIN links : LinkOk(j)
      /\ \A v \in Workers : WorkOk(v)
      /\ "overlap" \notin odd => Undisturbed
  BY DEF LinksInv
<1>l. LinksGrow("team", e)
  BY <1>t, Mailed DEF A!Invited, LinkKinds, LinksTyped, Acct
<1>a. acct' = acct
  BY DEF A!Invited
<1>w. worker' = worker
  BY DEF A!Invited
<1>1. LinksTyped'
  BY <1>t, <1>l, <1>a, <1>w DEF A!Invited, A!Start, A!NoteOverlap, A!Busy, A!At, LinksKept, LinksGrow, LinksTyped, Acct, Link, Work, LinkKinds, A!Idle, A!NoAccount, A!Linked
<1>2. AcctOk'
  BY <1>t, <1>l, <1>a, <1>w DEF A!Invited, A!Start, A!NoteOverlap, A!Busy, A!At, LinksKept, LinksGrow, LinksTyped, Acct, Link, Work, LinkKinds, A!Idle, A!NoAccount, A!Linked, AcctOk, WorkOk, LinkOk
<1>3. ASSUME NEW j \in DOMAIN links' PROVE LinkOk(j)'
  BY <1>t, <1>l, <1>a, <1>w DEF A!Invited, A!Start, A!NoteOverlap, A!Busy, A!At, LinksKept, LinksGrow, LinksTyped, Acct, Link, Work, LinkKinds, A!Idle, A!NoAccount, A!Linked, LinkOk, WorkOk
<1>4. ASSUME NEW v \in Workers PROVE WorkOk(v)'
  BY <1>t, <1>l, <1>a, <1>w DEF A!Invited, A!Start, A!NoteOverlap, A!Busy, A!At, LinksKept, LinksGrow, LinksTyped, Acct, Link, Work, LinkKinds, A!Idle, A!NoAccount, A!Linked, WorkOk, LinkOk
<1>5. ASSUME "overlap" \notin odd' PROVE Undisturbed'
  BY <1>t, <1>l, <1>a, <1>w, <1>5 DEF A!Invited, A!Start, A!NoteOverlap, A!Busy, A!At, LinksKept, LinksGrow, LinksTyped, Acct, Link, Work, LinkKinds, A!Idle, A!NoAccount, A!Linked, WorkOk, ReadOk, Undisturbed, AcctOk
<1> QED BY <1>1, <1>2, <1>3, <1>4, <1>5 DEF LinksInv

LEMMA LinksExpire ==
    ASSUME LinksInv, NEW i \in DOMAIN links, A!Expire(i)
    PROVE  LinksInv'
<1>t. /\ LinksTyped /\ AcctOk
      /\ \A j \in DOMAIN links : LinkOk(j)
      /\ \A v \in Workers : WorkOk(v)
      /\ "overlap" \notin odd => Undisturbed
  BY DEF LinksInv
<1>l. LinksKept
  BY <1>t, UsedOne DEF A!Expire
<1>a. acct' = acct
  BY DEF A!Expire
<1>w. worker' = worker
  BY DEF A!Expire
<1>1. LinksTyped'
  BY <1>t, <1>l, <1>a, <1>w DEF A!Expire, A!Start, A!NoteOverlap, A!Busy, A!At, LinksKept, LinksGrow, LinksTyped, Acct, Link, Work, LinkKinds, A!Idle, A!NoAccount, A!Linked
<1>2. AcctOk'
  BY <1>t, <1>l, <1>a, <1>w DEF A!Expire, A!Start, A!NoteOverlap, A!Busy, A!At, LinksKept, LinksGrow, LinksTyped, Acct, Link, Work, LinkKinds, A!Idle, A!NoAccount, A!Linked, AcctOk, WorkOk, LinkOk
<1>3. ASSUME NEW j \in DOMAIN links' PROVE LinkOk(j)'
  BY <1>t, <1>l, <1>a, <1>w DEF A!Expire, A!Start, A!NoteOverlap, A!Busy, A!At, LinksKept, LinksGrow, LinksTyped, Acct, Link, Work, LinkKinds, A!Idle, A!NoAccount, A!Linked, LinkOk, WorkOk
<1>4. ASSUME NEW v \in Workers PROVE WorkOk(v)'
  BY <1>t, <1>l, <1>a, <1>w DEF A!Expire, A!Start, A!NoteOverlap, A!Busy, A!At, LinksKept, LinksGrow, LinksTyped, Acct, Link, Work, LinkKinds, A!Idle, A!NoAccount, A!Linked, WorkOk, LinkOk
<1>5. ASSUME "overlap" \notin odd' PROVE Undisturbed'
  BY <1>t, <1>l, <1>a, <1>w, <1>5 DEF A!Expire, A!Start, A!NoteOverlap, A!Busy, A!At, LinksKept, LinksGrow, LinksTyped, Acct, Link, Work, LinkKinds, A!Idle, A!NoAccount, A!Linked, WorkOk, ReadOk, Undisturbed, AcctOk
<1> QED BY <1>1, <1>2, <1>3, <1>4, <1>5 DEF LinksInv

LEMMA LinksOpen ==
    ASSUME LinksInv, NEW w \in Workers, NEW i \in DOMAIN links, A!Open(w, i)
    PROVE  LinksInv'
<1>t. /\ LinksTyped /\ AcctOk
      /\ \A j \in DOMAIN links : LinkOk(j)
      /\ \A v \in Workers : WorkOk(v)
      /\ "overlap" \notin odd => Undisturbed
  BY DEF LinksInv
<1>l. links' = links
  BY DEF A!Open
<1>a. acct' = acct
  BY DEF A!Open
<1>r. [pc |-> links[i].kind, link |-> i,
                                           first |-> ~acct.verified, had |-> acct.pass] \in Work
  <2>1. i \in Nat /\ links[i] \in Link /\ acct \in Acct
    BY <1>t DEF LinksTyped
  <2> QED BY <2>1 DEF Link, Acct, Work
<1>i. links[i] \in Link
  BY <1>t DEF LinksTyped
<1>j. links[i].kind \in LinkKinds /\ links[i].to \in Addresses
  BY <1>i DEF Link
<1>w. /\ worker' \in [Workers -> Work]
      /\ worker' = [worker EXCEPT ![w] = [pc |-> links[i].kind, link |-> i,
                                           first |-> ~acct.verified, had |-> acct.pass]]
      /\ \A v \in Workers : v # w => worker'[v] = worker[v]
  BY <1>t, <1>r DEF A!Open, A!Start, LinksTyped
<1>x. /\ taken' = taken /\ killed' = killed /\ proved' = proved \cup {links[i].to}
      /\ odd' \in SUBSET {"overlap", "connected", "joined"}
  BY <1>t DEF A!Open, A!Start, A!NoteOverlap, LinksTyped
<1>1. LinksTyped'
  BY <1>t, <1>l, <1>a, <1>w, <1>j, <1>x DEF LinksTyped
<1>2. AcctOk'
  BY <1>t, <1>l, <1>a, <1>w DEF A!Open, A!Start, A!NoteOverlap, A!Busy, A!At, LinksKept, LinksGrow, LinksTyped, Acct, Link, Work, LinkKinds, A!Idle, A!NoAccount, A!Linked, AcctOk, WorkOk, LinkOk
<1>3. ASSUME NEW j \in DOMAIN links' PROVE LinkOk(j)'
  BY <1>t, <1>l, <1>a, <1>w DEF A!Open, A!Start, A!NoteOverlap, A!Busy, A!At, LinksKept, LinksGrow, LinksTyped, Acct, Link, Work, LinkKinds, A!Idle, A!NoAccount, A!Linked, LinkOk, WorkOk
<1>4. ASSUME NEW v \in Workers PROVE WorkOk(v)'
  <2>1. CASE v # w
    BY <1>t, <1>l, <1>a, <1>w, <1>x, <2>1 DEF WorkOk
  <2>2. CASE v = w
    <3>1. worker'[v].pc = links[i].kind /\ worker'[v].link = i /\ links[i].kind \in LinkKinds
      BY <1>t, <1>w, <1>j, <2>2 DEF LinksTyped
    <3>2. acct.exists /\ links[i].kind \in {"google", "team"} => acct.email = links[i].to
      BY DEF A!Open
    <3> QED BY <1>t, <1>l, <1>a, <1>x, <3>1, <3>2 DEF WorkOk, LinkOk, LinkKinds
  <2> QED BY <2>1, <2>2
<1>5. ASSUME "overlap" \notin odd' PROVE Undisturbed'
  <2>1. Undisturbed /\ "overlap" \notin odd /\ AcctOk /\ acct \in Acct /\ worker[w] \in Work
    BY <1>t, <1>5 DEF A!Open, A!Start, A!NoteOverlap, LinksTyped
  <2>2. \A v \in Workers : worker[v].pc = "idle"
    BY <1>5 DEF A!Open, A!Start, A!NoteOverlap, A!Busy, A!At, A!Idle
  <2>3. \A v \in Workers : v # w => worker'[v].pc = "idle"
    BY <1>w, <2>2
  <2>4. worker'[w] = [pc |-> links[i].kind, link |-> i,
                                           first |-> ~acct.verified, had |-> acct.pass]
    BY <1>w, <1>t DEF LinksTyped
  <2>5. ASSUME NEW v \in Workers PROVE ReadOk(v)'
    <3>1. CASE v # w
      BY <2>3, <3>1 DEF ReadOk
    <3>2. CASE v = w
      <4>1. worker'[v].pc \in LinkKinds /\ worker'[v].first = ~acct.verified /\ worker'[v].had = acct.pass
        BY <1>j, <2>4, <3>2
      <4> QED BY <1>a, <4>1 DEF ReadOk, LinkKinds
    <3> QED BY <3>1, <3>2
  <2>6. acct'.exists => acct'.pass \/ acct'.google \/ acct'.guest
    BY <1>a, <2>1, <2>2 DEF Undisturbed, ReadOk, Acct, A!Linked, A!Open, A!Start, A!NoteOverlap, A!Busy, A!At
  <2>7. "joined" \notin odd' /\ killed' = 0 /\ acct'.guest /\ (acct'.pass \/ acct'.google) =>
            \E v \in Workers : worker'[v].pc = "finish"
    BY <1>t, <1>a, <2>1, <2>2, <2>4 DEF LinksTyped, Undisturbed, ReadOk, AcctOk, Acct, Work, A!Linked, A!Open, A!Start, A!NoteOverlap, A!Busy, A!At
  <2> QED BY <2>3, <2>5, <2>6, <2>7 DEF Undisturbed
<1> QED BY <1>1, <1>2, <1>3, <1>4, <1>5 DEF LinksInv

LEMMA LinksVerify ==
    ASSUME LinksInv, NEW w \in Workers, A!Verify(w)
    PROVE  LinksInv'
<1>t. /\ LinksTyped /\ AcctOk
      /\ \A j \in DOMAIN links : LinkOk(j)
      /\ \A v \in Workers : WorkOk(v)
      /\ "overlap" \notin odd => Undisturbed
  BY DEF LinksInv
<1>l. LinksKept
  <2>1. worker[w].link \in DOMAIN links
    BY <1>t DEF WorkOk, LinkKinds, A!Verify, A!Start, A!NoteOverlap, A!Busy, A!At
  <2> QED BY <1>t, <2>1, UsedOne DEF A!Verify, LinksKept, LinksTyped
<1>a. /\ acct' \in Acct
      /\ acct' = [acct EXCEPT !.verified = TRUE]
  BY <1>t DEF A!Verify, A!Start, A!NoteOverlap, A!Busy, A!At, A!NoAccount, A!Linked, LinksTyped, Acct
<1>w. /\ worker' \in [Workers -> Work]
      /\ worker' = [worker EXCEPT ![w] = A!Idle]
      /\ \A v \in Workers : v # w => worker'[v] = worker[v]
  BY <1>t DEF A!Verify, A!Start, A!NoteOverlap, A!Busy, A!At, A!End, A!Idle, LinksTyped, Work, LinkKinds, Link, Acct
<1>1. LinksTyped'
  BY <1>t, <1>l, <1>a, <1>w DEF A!Verify, A!Start, A!NoteOverlap, A!Busy, A!At, LinksKept, LinksGrow, LinksTyped, Acct, Link, Work, LinkKinds, A!Idle, A!NoAccount, A!Linked
<1>2. AcctOk'
  BY <1>t, <1>l, <1>a, <1>w DEF A!Verify, A!Start, A!NoteOverlap, A!Busy, A!At, LinksKept, LinksGrow, LinksTyped, Acct, Link, Work, LinkKinds, A!Idle, A!NoAccount, A!Linked, AcctOk, WorkOk, LinkOk
<1>3. ASSUME NEW j \in DOMAIN links' PROVE LinkOk(j)'
  BY <1>t, <1>l, <1>a, <1>w DEF A!Verify, A!Start, A!NoteOverlap, A!Busy, A!At, LinksKept, LinksGrow, LinksTyped, Acct, Link, Work, LinkKinds, A!Idle, A!NoAccount, A!Linked, LinkOk, WorkOk
<1>4. ASSUME NEW v \in Workers PROVE WorkOk(v)'
  BY <1>t, <1>l, <1>a, <1>w DEF A!Verify, A!Start, A!NoteOverlap, A!Busy, A!At, LinksKept, LinksGrow, LinksTyped, Acct, Link, Work, LinkKinds, A!Idle, A!NoAccount, A!Linked, WorkOk, LinkOk
<1>5. ASSUME "overlap" \notin odd' PROVE Undisturbed'
  <2>1. Undisturbed /\ "overlap" \notin odd /\ AcctOk /\ acct \in Acct /\ worker[w] \in Work
    BY <1>t, <1>5 DEF A!Verify, A!Start, A!NoteOverlap, LinksTyped
  <2>2. /\ worker[w].pc # "idle"
        /\ \A v \in Workers : v # w => worker[v].pc = "idle"
    BY <1>t, <2>1 DEF Undisturbed, WorkOk, A!Verify, A!Start, A!NoteOverlap, A!Busy, A!At
  <2>3. \A v \in Workers : v # w => worker'[v].pc = "idle"
    BY <1>w, <2>2
  <2>4. worker'[w] = A!Idle
    BY <1>w, <1>t DEF LinksTyped
  <2>5. ASSUME NEW v \in Workers PROVE ReadOk(v)'
    <3>1. CASE v # w
      BY <2>3, <3>1 DEF ReadOk
    <3>2. CASE v = w
      <4>1. worker'[v].pc = "idle"
        BY <2>4, <3>2 DEF A!Idle
      <4> QED BY <1>a, <4>1 DEF ReadOk, LinkKinds
    <3> QED BY <3>1, <3>2
  <2>6. acct'.exists => acct'.pass \/ acct'.google \/ acct'.guest
    BY <1>a, <2>1, <2>2 DEF Undisturbed, ReadOk, Acct, A!Linked, A!Verify, A!Start, A!NoteOverlap, A!Busy, A!At
  <2>7. "joined" \notin odd' /\ killed' = 0 /\ acct'.guest /\ (acct'.pass \/ acct'.google) =>
            \E v \in Workers : worker'[v].pc = "finish"
    BY <1>t, <1>a, <2>1, <2>2, <2>4 DEF LinksTyped, Undisturbed, ReadOk, AcctOk, Acct, Work, A!Linked, A!Verify, A!Start, A!NoteOverlap, A!Busy, A!At
  <2> QED BY <2>3, <2>5, <2>6, <2>7 DEF Undisturbed
<1> QED BY <1>1, <1>2, <1>3, <1>4, <1>5 DEF LinksInv

LEMMA LinksSavePassword ==
    ASSUME LinksInv, NEW w \in Workers, A!SavePassword(w)
    PROVE  LinksInv'
<1>t. /\ LinksTyped /\ AcctOk
      /\ \A j \in DOMAIN links : LinkOk(j)
      /\ \A v \in Workers : WorkOk(v)
      /\ "overlap" \notin odd => Undisturbed
  BY DEF LinksInv
<1>l. links' = links
  BY DEF A!SavePassword
<1>a. /\ acct' \in Acct
      /\ acct' = [acct EXCEPT !.pass = TRUE, !.verified = @ \/ A!At(w, "reset")]
  BY <1>t DEF A!SavePassword, A!Start, A!NoteOverlap, A!Busy, A!At, A!NoAccount, A!Linked, LinksTyped, Acct
<1>w. /\ worker' \in [Workers -> Work]
      /\ worker' = [worker EXCEPT ![w] = [worker[w] EXCEPT !.pc = "finish"]]
      /\ \A v \in Workers : v # w => worker'[v] = worker[v]
  BY <1>t DEF A!SavePassword, A!Start, A!NoteOverlap, A!Busy, A!At, A!End, A!Idle, LinksTyped, Work, LinkKinds, Link, Acct
<1>1. LinksTyped'
  BY <1>t, <1>l, <1>a, <1>w DEF A!SavePassword, A!Start, A!NoteOverlap, A!Busy, A!At, LinksKept, LinksGrow, LinksTyped, Acct, Link, Work, LinkKinds, A!Idle, A!NoAccount, A!Linked
<1>2. AcctOk'
  BY <1>t, <1>l, <1>a, <1>w DEF A!SavePassword, A!Start, A!NoteOverlap, A!Busy, A!At, LinksKept, LinksGrow, LinksTyped, Acct, Link, Work, LinkKinds, A!Idle, A!NoAccount, A!Linked, AcctOk, WorkOk, LinkOk
<1>3. ASSUME NEW j \in DOMAIN links' PROVE LinkOk(j)'
  BY <1>t, <1>l, <1>a, <1>w DEF A!SavePassword, A!Start, A!NoteOverlap, A!Busy, A!At, LinksKept, LinksGrow, LinksTyped, Acct, Link, Work, LinkKinds, A!Idle, A!NoAccount, A!Linked, LinkOk, WorkOk
<1>4. ASSUME NEW v \in Workers PROVE WorkOk(v)'
  BY <1>t, <1>l, <1>a, <1>w DEF A!SavePassword, A!Start, A!NoteOverlap, A!Busy, A!At, LinksKept, LinksGrow, LinksTyped, Acct, Link, Work, LinkKinds, A!Idle, A!NoAccount, A!Linked, WorkOk, LinkOk
<1>5. ASSUME "overlap" \notin odd' PROVE Undisturbed'
  <2>1. Undisturbed /\ "overlap" \notin odd /\ AcctOk /\ acct \in Acct /\ worker[w] \in Work
    BY <1>t, <1>5 DEF A!SavePassword, A!Start, A!NoteOverlap, LinksTyped
  <2>2. /\ worker[w].pc # "idle"
        /\ \A v \in Workers : v # w => worker[v].pc = "idle"
    BY <1>t, <2>1 DEF Undisturbed, WorkOk, A!SavePassword, A!Start, A!NoteOverlap, A!Busy, A!At
  <2>3. \A v \in Workers : v # w => worker'[v].pc = "idle"
    BY <1>w, <2>2
  <2>4. worker'[w] = [worker[w] EXCEPT !.pc = "finish"]
    BY <1>w, <1>t DEF LinksTyped
  <2>5. ASSUME NEW v \in Workers PROVE ReadOk(v)'
    <3>1. CASE v # w
      BY <2>3, <3>1 DEF ReadOk
    <3>2. CASE v = w
      <4>1. worker'[v].pc = "finish" /\ acct'.exists /\ acct'.pass
        BY <1>a, <2>1, <2>4, <3>2 DEF Acct, Work, A!SavePassword, A!At
      <4> QED BY <1>a, <4>1 DEF ReadOk, LinkKinds
    <3> QED BY <3>1, <3>2
  <2>6. acct'.exists => acct'.pass \/ acct'.google \/ acct'.guest
    BY <1>a, <2>1, <2>2 DEF Undisturbed, ReadOk, Acct, A!Linked, A!SavePassword, A!Start, A!NoteOverlap, A!Busy, A!At
  <2>7. "joined" \notin odd' /\ killed' = 0 /\ acct'.guest /\ (acct'.pass \/ acct'.google) =>
            \E v \in Workers : worker'[v].pc = "finish"
    BY <1>t, <1>a, <2>1, <2>2, <2>4 DEF LinksTyped, Undisturbed, ReadOk, AcctOk, Acct, Work, A!Linked, A!SavePassword, A!Start, A!NoteOverlap, A!Busy, A!At
  <2> QED BY <2>3, <2>5, <2>6, <2>7 DEF Undisturbed
<1> QED BY <1>1, <1>2, <1>3, <1>4, <1>5 DEF LinksInv

LEMMA LinksFinishPassword ==
    ASSUME LinksInv, NEW w \in Workers, A!FinishPassword(w)
    PROVE  LinksInv'
<1>t. /\ LinksTyped /\ AcctOk
      /\ \A j \in DOMAIN links : LinkOk(j)
      /\ \A v \in Workers : WorkOk(v)
      /\ "overlap" \notin odd => Undisturbed
  BY DEF LinksInv
<1>l. LinksKept
  <2>1. worker[w].link \in DOMAIN links
    BY <1>t DEF WorkOk, LinkKinds, A!FinishPassword, A!Start, A!NoteOverlap, A!Busy, A!At
  <2> QED BY <1>t, UsedUp DEF A!FinishPassword
<1>a. /\ acct' \in Acct
      /\ acct' = [acct EXCEPT !.guest = FALSE]
  BY <1>t DEF A!FinishPassword, A!Start, A!NoteOverlap, A!Busy, A!At, A!NoAccount, A!Linked, LinksTyped, Acct
<1>w. /\ worker' \in [Workers -> Work]
      /\ worker' = [worker EXCEPT ![w] = A!Idle]
      /\ \A v \in Workers : v # w => worker'[v] = worker[v]
  BY <1>t DEF A!FinishPassword, A!Start, A!NoteOverlap, A!Busy, A!At, A!End, A!Idle, LinksTyped, Work, LinkKinds, Link, Acct
<1>1. LinksTyped'
  BY <1>t, <1>l, <1>a, <1>w DEF A!FinishPassword, A!Start, A!NoteOverlap, A!Busy, A!At, LinksKept, LinksGrow, LinksTyped, Acct, Link, Work, LinkKinds, A!Idle, A!NoAccount, A!Linked
<1>2. AcctOk'
  BY <1>t, <1>l, <1>a, <1>w DEF A!FinishPassword, A!Start, A!NoteOverlap, A!Busy, A!At, LinksKept, LinksGrow, LinksTyped, Acct, Link, Work, LinkKinds, A!Idle, A!NoAccount, A!Linked, AcctOk, WorkOk, LinkOk
<1>3. ASSUME NEW j \in DOMAIN links' PROVE LinkOk(j)'
  BY <1>t, <1>l, <1>a, <1>w DEF A!FinishPassword, A!Start, A!NoteOverlap, A!Busy, A!At, LinksKept, LinksGrow, LinksTyped, Acct, Link, Work, LinkKinds, A!Idle, A!NoAccount, A!Linked, LinkOk, WorkOk
<1>4. ASSUME NEW v \in Workers PROVE WorkOk(v)'
  BY <1>t, <1>l, <1>a, <1>w DEF A!FinishPassword, A!Start, A!NoteOverlap, A!Busy, A!At, LinksKept, LinksGrow, LinksTyped, Acct, Link, Work, LinkKinds, A!Idle, A!NoAccount, A!Linked, WorkOk, LinkOk
<1>5. ASSUME "overlap" \notin odd' PROVE Undisturbed'
  <2>1. Undisturbed /\ "overlap" \notin odd /\ AcctOk /\ acct \in Acct /\ worker[w] \in Work
    BY <1>t, <1>5 DEF A!FinishPassword, A!Start, A!NoteOverlap, LinksTyped
  <2>2. /\ worker[w].pc # "idle"
        /\ \A v \in Workers : v # w => worker[v].pc = "idle"
    BY <1>t, <2>1 DEF Undisturbed, WorkOk, A!FinishPassword, A!Start, A!NoteOverlap, A!Busy, A!At
  <2>3. \A v \in Workers : v # w => worker'[v].pc = "idle"
    BY <1>w, <2>2
  <2>4. worker'[w] = A!Idle
    BY <1>w, <1>t DEF LinksTyped
  <2>5. ASSUME NEW v \in Workers PROVE ReadOk(v)'
    <3>1. CASE v # w
      BY <2>3, <3>1 DEF ReadOk
    <3>2. CASE v = w
      <4>1. worker'[v].pc = "idle"
        BY <2>4, <3>2 DEF A!Idle
      <4> QED BY <1>a, <4>1 DEF ReadOk, LinkKinds
    <3> QED BY <3>1, <3>2
  <2>6. acct'.exists => acct'.pass \/ acct'.google \/ acct'.guest
    BY <1>a, <2>1, <2>2 DEF Undisturbed, ReadOk, Acct, A!Linked, A!FinishPassword, A!Start, A!NoteOverlap, A!Busy, A!At
  <2>7. "joined" \notin odd' /\ killed' = 0 /\ acct'.guest /\ (acct'.pass \/ acct'.google) =>
            \E v \in Workers : worker'[v].pc = "finish"
    BY <1>t, <1>a, <2>1, <2>2, <2>4 DEF LinksTyped, Undisturbed, ReadOk, AcctOk, Acct, Work, A!Linked, A!FinishPassword, A!Start, A!NoteOverlap, A!Busy, A!At
  <2> QED BY <2>3, <2>5, <2>6, <2>7 DEF Undisturbed
<1> QED BY <1>1, <1>2, <1>3, <1>4, <1>5 DEF LinksInv

LEMMA LinksChangeEmail ==
    ASSUME LinksInv, NEW w \in Workers, A!ChangeEmail(w)
    PROVE  LinksInv'
<1>t. /\ LinksTyped /\ AcctOk
      /\ \A j \in DOMAIN links : LinkOk(j)
      /\ \A v \in Workers : WorkOk(v)
      /\ "overlap" \notin odd => Undisturbed
  BY DEF LinksInv
<1>l. LinksKept
  <2>1. worker[w].link \in DOMAIN links
    BY <1>t DEF WorkOk, LinkKinds, A!ChangeEmail, A!Start, A!NoteOverlap, A!Busy, A!At
  <2> QED BY <1>t, UsedUp DEF A!ChangeEmail, LinksKept, LinksTyped
<1>a. /\ acct' \in Acct
      /\ acct' = IF links[worker[w].link].to \in taken THEN acct
               ELSE [acct EXCEPT !.email = links[worker[w].link].to]
  BY <1>t DEF A!ChangeEmail, A!Start, A!NoteOverlap, A!Busy, A!At, A!NoAccount, A!Linked, LinksTyped, Acct, WorkOk, Link
<1>w. /\ worker' \in [Workers -> Work]
      /\ worker' = [worker EXCEPT ![w] = A!Idle]
      /\ \A v \in Workers : v # w => worker'[v] = worker[v]
  BY <1>t DEF A!ChangeEmail, A!Start, A!NoteOverlap, A!Busy, A!At, A!End, A!Idle, LinksTyped, Work, LinkKinds, Link, Acct
<1>1. LinksTyped'
  BY <1>t, <1>l, <1>a, <1>w DEF A!ChangeEmail, A!Start, A!NoteOverlap, A!Busy, A!At, LinksKept, LinksGrow, LinksTyped, Acct, Link, Work, LinkKinds, A!Idle, A!NoAccount, A!Linked
<1>2. AcctOk'
  BY <1>t, <1>l, <1>a, <1>w DEF A!ChangeEmail, A!Start, A!NoteOverlap, A!Busy, A!At, LinksKept, LinksGrow, LinksTyped, Acct, Link, Work, LinkKinds, A!Idle, A!NoAccount, A!Linked, AcctOk, WorkOk, LinkOk
<1>3. ASSUME NEW j \in DOMAIN links' PROVE LinkOk(j)'
  BY <1>t, <1>l, <1>a, <1>w DEF A!ChangeEmail, A!Start, A!NoteOverlap, A!Busy, A!At, LinksKept, LinksGrow, LinksTyped, Acct, Link, Work, LinkKinds, A!Idle, A!NoAccount, A!Linked, LinkOk, WorkOk
<1>4. ASSUME NEW v \in Workers PROVE WorkOk(v)'
  BY <1>t, <1>l, <1>a, <1>w DEF A!ChangeEmail, A!Start, A!NoteOverlap, A!Busy, A!At, LinksKept, LinksGrow, LinksTyped, Acct, Link, Work, LinkKinds, A!Idle, A!NoAccount, A!Linked, WorkOk, LinkOk
<1>5. ASSUME "overlap" \notin odd' PROVE Undisturbed'
  <2>1. Undisturbed /\ "overlap" \notin odd /\ AcctOk /\ acct \in Acct /\ worker[w] \in Work
    BY <1>t, <1>5 DEF A!ChangeEmail, A!Start, A!NoteOverlap, LinksTyped
  <2>2. /\ worker[w].pc # "idle"
        /\ \A v \in Workers : v # w => worker[v].pc = "idle"
    BY <1>t, <2>1 DEF Undisturbed, WorkOk, A!ChangeEmail, A!Start, A!NoteOverlap, A!Busy, A!At
  <2>3. \A v \in Workers : v # w => worker'[v].pc = "idle"
    BY <1>w, <2>2
  <2>4. worker'[w] = A!Idle
    BY <1>w, <1>t DEF LinksTyped
  <2>5. ASSUME NEW v \in Workers PROVE ReadOk(v)'
    <3>1. CASE v # w
      BY <2>3, <3>1 DEF ReadOk
    <3>2. CASE v = w
      <4>1. worker'[v].pc = "idle"
        BY <2>4, <3>2 DEF A!Idle
      <4> QED BY <1>a, <4>1 DEF ReadOk, LinkKinds
    <3> QED BY <3>1, <3>2
  <2>6. acct'.exists => acct'.pass \/ acct'.google \/ acct'.guest
    BY <1>a, <2>1, <2>2 DEF Undisturbed, ReadOk, Acct, A!Linked, A!ChangeEmail, A!Start, A!NoteOverlap, A!Busy, A!At
  <2>7. "joined" \notin odd' /\ killed' = 0 /\ acct'.guest /\ (acct'.pass \/ acct'.google) =>
            \E v \in Workers : worker'[v].pc = "finish"
    BY <1>t, <1>a, <2>1, <2>2, <2>4 DEF LinksTyped, Undisturbed, ReadOk, AcctOk, Acct, Work, A!Linked, A!ChangeEmail, A!Start, A!NoteOverlap, A!Busy, A!At
  <2> QED BY <2>3, <2>5, <2>6, <2>7 DEF Undisturbed
<1> QED BY <1>1, <1>2, <1>3, <1>4, <1>5 DEF LinksInv

LEMMA LinksGuestConfirm ==
    ASSUME LinksInv, NEW w \in Workers, A!GuestConfirm(w)
    PROVE  LinksInv'
<1>t. /\ LinksTyped /\ AcctOk
      /\ \A j \in DOMAIN links : LinkOk(j)
      /\ \A v \in Workers : WorkOk(v)
      /\ "overlap" \notin odd => Undisturbed
  BY DEF LinksInv
<1>l. LinksKept
  <2>1. worker[w].link \in DOMAIN links
    BY <1>t DEF WorkOk, LinkKinds, A!GuestConfirm, A!Start, A!NoteOverlap, A!Busy, A!At
  <2> QED BY <1>t, <2>1, UsedOne DEF A!GuestConfirm, LinksKept, LinksTyped
<1>a. /\ acct' \in Acct
      /\ \/ acct' = acct
         \/ /\ worker[w].first
            /\ acct' = [acct EXCEPT !.verified = TRUE, !.pass = acct.pass /\ ~worker[w].had,
                                   !.guest = TRUE]
  BY <1>t DEF A!GuestConfirm, A!FirstProof, LinksTyped, Acct
<1>w. /\ worker' \in [Workers -> Work]
      /\ worker' = [worker EXCEPT ![w] = A!Idle]
      /\ \A v \in Workers : v # w => worker'[v] = worker[v]
  BY <1>t DEF A!GuestConfirm, A!Start, A!NoteOverlap, A!Busy, A!At, A!End, A!Idle, LinksTyped, Work, LinkKinds, Link, Acct
<1>1. LinksTyped'
  BY <1>t, <1>l, <1>a, <1>w DEF A!GuestConfirm, A!Start, A!NoteOverlap, A!Busy, A!At, LinksKept, LinksGrow, LinksTyped, Acct, Link, Work, LinkKinds, A!Idle, A!NoAccount, A!Linked
<1>2. AcctOk'
  BY <1>t, <1>l, <1>a, <1>w DEF A!GuestConfirm, A!Start, A!NoteOverlap, A!Busy, A!At, LinksKept, LinksGrow, LinksTyped, Acct, Link, Work, LinkKinds, A!Idle, A!NoAccount, A!Linked, AcctOk, WorkOk, LinkOk
<1>3. ASSUME NEW j \in DOMAIN links' PROVE LinkOk(j)'
  BY <1>t, <1>l, <1>a, <1>w DEF A!GuestConfirm, A!Start, A!NoteOverlap, A!Busy, A!At, LinksKept, LinksGrow, LinksTyped, Acct, Link, Work, LinkKinds, A!Idle, A!NoAccount, A!Linked, LinkOk, WorkOk
<1>4. ASSUME NEW v \in Workers PROVE WorkOk(v)'
  BY <1>t, <1>l, <1>a, <1>w DEF A!GuestConfirm, A!Start, A!NoteOverlap, A!Busy, A!At, LinksKept, LinksGrow, LinksTyped, Acct, Link, Work, LinkKinds, A!Idle, A!NoAccount, A!Linked, WorkOk, LinkOk
<1>5. ASSUME "overlap" \notin odd' PROVE Undisturbed'
  <2>1. Undisturbed /\ "overlap" \notin odd /\ AcctOk /\ acct \in Acct /\ worker[w] \in Work
    BY <1>t, <1>5 DEF A!GuestConfirm, A!Start, A!NoteOverlap, LinksTyped
  <2>2. /\ worker[w].pc # "idle"
        /\ \A v \in Workers : v # w => worker[v].pc = "idle"
    BY <1>t, <2>1 DEF Undisturbed, WorkOk, A!GuestConfirm, A!Start, A!NoteOverlap, A!Busy, A!At
  <2>3. \A v \in Workers : v # w => worker'[v].pc = "idle"
    BY <1>w, <2>2
  <2>4. worker'[w] = A!Idle
    BY <1>w, <1>t DEF LinksTyped
  <2>5. ASSUME NEW v \in Workers PROVE ReadOk(v)'
    <3>1. CASE v # w
      BY <2>3, <3>1 DEF ReadOk
    <3>2. CASE v = w
      <4>1. worker'[v].pc = "idle"
        BY <2>4, <3>2 DEF A!Idle
      <4> QED BY <1>a, <4>1 DEF ReadOk, LinkKinds
    <3> QED BY <3>1, <3>2
  <2>6. acct'.exists => acct'.pass \/ acct'.google \/ acct'.guest
    BY <1>a, <2>1, <2>2 DEF Undisturbed, ReadOk, Acct, A!Linked, A!GuestConfirm, A!Start, A!NoteOverlap, A!Busy, A!At
  <2>7. "joined" \notin odd' /\ killed' = 0 /\ acct'.guest /\ (acct'.pass \/ acct'.google) =>
            \E v \in Workers : worker'[v].pc = "finish"
    BY <1>t, <1>a, <2>1, <2>2, <2>4 DEF LinksTyped, Undisturbed, ReadOk, AcctOk, Acct, Work, A!Linked, A!GuestConfirm, A!Start, A!NoteOverlap, A!Busy, A!At
  <2> QED BY <2>3, <2>5, <2>6, <2>7 DEF Undisturbed
<1> QED BY <1>1, <1>2, <1>3, <1>4, <1>5 DEF LinksInv

LEMMA LinksGoogleConfirm ==
    ASSUME LinksInv, NEW w \in Workers, A!GoogleConfirm(w)
    PROVE  LinksInv'
<1>t. /\ LinksTyped /\ AcctOk
      /\ \A j \in DOMAIN links : LinkOk(j)
      /\ \A v \in Workers : WorkOk(v)
      /\ "overlap" \notin odd => Undisturbed
  BY DEF LinksInv
<1>l. LinksKept
  <2>1. worker[w].link \in DOMAIN links
    BY <1>t DEF WorkOk, LinkKinds, A!GoogleConfirm, A!Start, A!NoteOverlap, A!Busy, A!At
  <2> QED BY <1>t, <2>1, UsedOne DEF A!GoogleConfirm, LinksKept, LinksTyped
<1>a. /\ acct' \in Acct
      /\ acct' = IF acct.google THEN acct ELSE A!Linked
  BY <1>t DEF A!GoogleConfirm, A!Start, A!NoteOverlap, A!Busy, A!At, A!NoAccount, A!Linked, LinksTyped, Acct
<1>w. /\ worker' \in [Workers -> Work]
      /\ worker' = [worker EXCEPT ![w] = A!Idle]
      /\ \A v \in Workers : v # w => worker'[v] = worker[v]
  BY <1>t DEF A!GoogleConfirm, A!Start, A!NoteOverlap, A!Busy, A!At, A!End, A!Idle, LinksTyped, Work, LinkKinds, Link, Acct
<1>1. LinksTyped'
  BY <1>t, <1>l, <1>a, <1>w DEF A!GoogleConfirm, A!Start, A!NoteOverlap, A!Busy, A!At, LinksKept, LinksGrow, LinksTyped, Acct, Link, Work, LinkKinds, A!Idle, A!NoAccount, A!Linked
<1>2. AcctOk'
  BY <1>t, <1>l, <1>a, <1>w DEF A!GoogleConfirm, A!Start, A!NoteOverlap, A!Busy, A!At, LinksKept, LinksGrow, LinksTyped, Acct, Link, Work, LinkKinds, A!Idle, A!NoAccount, A!Linked, AcctOk, WorkOk, LinkOk
<1>3. ASSUME NEW j \in DOMAIN links' PROVE LinkOk(j)'
  BY <1>t, <1>l, <1>a, <1>w DEF A!GoogleConfirm, A!Start, A!NoteOverlap, A!Busy, A!At, LinksKept, LinksGrow, LinksTyped, Acct, Link, Work, LinkKinds, A!Idle, A!NoAccount, A!Linked, LinkOk, WorkOk
<1>4. ASSUME NEW v \in Workers PROVE WorkOk(v)'
  BY <1>t, <1>l, <1>a, <1>w DEF A!GoogleConfirm, A!Start, A!NoteOverlap, A!Busy, A!At, LinksKept, LinksGrow, LinksTyped, Acct, Link, Work, LinkKinds, A!Idle, A!NoAccount, A!Linked, WorkOk, LinkOk
<1>5. ASSUME "overlap" \notin odd' PROVE Undisturbed'
  <2>1. Undisturbed /\ "overlap" \notin odd /\ AcctOk /\ acct \in Acct /\ worker[w] \in Work
    BY <1>t, <1>5 DEF A!GoogleConfirm, A!Start, A!NoteOverlap, LinksTyped
  <2>2. /\ worker[w].pc # "idle"
        /\ \A v \in Workers : v # w => worker[v].pc = "idle"
    BY <1>t, <2>1 DEF Undisturbed, WorkOk, A!GoogleConfirm, A!Start, A!NoteOverlap, A!Busy, A!At
  <2>3. \A v \in Workers : v # w => worker'[v].pc = "idle"
    BY <1>w, <2>2
  <2>4. worker'[w] = A!Idle
    BY <1>w, <1>t DEF LinksTyped
  <2>5. ASSUME NEW v \in Workers PROVE ReadOk(v)'
    <3>1. CASE v # w
      BY <2>3, <3>1 DEF ReadOk
    <3>2. CASE v = w
      <4>1. worker'[v].pc = "idle"
        BY <2>4, <3>2 DEF A!Idle
      <4> QED BY <1>a, <4>1 DEF ReadOk, LinkKinds
    <3> QED BY <3>1, <3>2
  <2>6. acct'.exists => acct'.pass \/ acct'.google \/ acct'.guest
    BY <1>a, <2>1, <2>2 DEF Undisturbed, ReadOk, Acct, A!Linked, A!GoogleConfirm, A!Start, A!NoteOverlap, A!Busy, A!At
  <2>7. "joined" \notin odd' /\ killed' = 0 /\ acct'.guest /\ (acct'.pass \/ acct'.google) =>
            \E v \in Workers : worker'[v].pc = "finish"
    BY <1>t, <1>a, <2>1, <2>2, <2>4 DEF LinksTyped, Undisturbed, ReadOk, AcctOk, Acct, Work, A!Linked, A!GoogleConfirm, A!Start, A!NoteOverlap, A!Busy, A!At
  <2> QED BY <2>3, <2>5, <2>6, <2>7 DEF Undisturbed
<1> QED BY <1>1, <1>2, <1>3, <1>4, <1>5 DEF LinksInv

LEMMA LinksSignIn ==
    ASSUME LinksInv, A!GoogleSignIn
    PROVE  LinksInv'
<1>t. /\ LinksTyped /\ AcctOk
      /\ \A j \in DOMAIN links : LinkOk(j)
      /\ \A v \in Workers : WorkOk(v)
      /\ "overlap" \notin odd => Undisturbed
  BY DEF LinksInv
<1>l. links' = links
  BY DEF A!GoogleSignIn
<1>a. /\ acct' \in Acct
      /\ acct' = A!Linked
  BY <1>t DEF A!GoogleSignIn, A!Start, A!NoteOverlap, A!Busy, A!At, A!NoAccount, A!Linked, LinksTyped, Acct
<1>w. worker' = worker
  BY DEF A!GoogleSignIn
<1>1. LinksTyped'
  BY <1>t, <1>l, <1>a, <1>w DEF A!GoogleSignIn, A!Start, A!NoteOverlap, A!Busy, A!At, LinksKept, LinksGrow, LinksTyped, Acct, Link, Work, LinkKinds, A!Idle, A!NoAccount, A!Linked
<1>2. AcctOk'
  BY <1>t, <1>l, <1>a, <1>w DEF A!GoogleSignIn, A!Start, A!NoteOverlap, A!Busy, A!At, LinksKept, LinksGrow, LinksTyped, Acct, Link, Work, LinkKinds, A!Idle, A!NoAccount, A!Linked, AcctOk, WorkOk, LinkOk
<1>3. ASSUME NEW j \in DOMAIN links' PROVE LinkOk(j)'
  BY <1>t, <1>l, <1>a, <1>w DEF A!GoogleSignIn, A!Start, A!NoteOverlap, A!Busy, A!At, LinksKept, LinksGrow, LinksTyped, Acct, Link, Work, LinkKinds, A!Idle, A!NoAccount, A!Linked, LinkOk, WorkOk
<1>4. ASSUME NEW v \in Workers PROVE WorkOk(v)'
  BY <1>t, <1>l, <1>a, <1>w DEF A!GoogleSignIn, A!Start, A!NoteOverlap, A!Busy, A!At, LinksKept, LinksGrow, LinksTyped, Acct, Link, Work, LinkKinds, A!Idle, A!NoAccount, A!Linked, WorkOk, LinkOk
<1>5. ASSUME "overlap" \notin odd' PROVE Undisturbed'
  BY <1>t, <1>l, <1>a, <1>w, <1>5 DEF A!GoogleSignIn, A!Start, A!NoteOverlap, A!Busy, A!At, LinksKept, LinksGrow, LinksTyped, Acct, Link, Work, LinkKinds, A!Idle, A!NoAccount, A!Linked, WorkOk, ReadOk, Undisturbed, AcctOk
<1> QED BY <1>1, <1>2, <1>3, <1>4, <1>5 DEF LinksInv

LEMMA LinksConnect ==
    ASSUME LinksInv, A!GoogleConnect
    PROVE  LinksInv'
<1>t. /\ LinksTyped /\ AcctOk
      /\ \A j \in DOMAIN links : LinkOk(j)
      /\ \A v \in Workers : WorkOk(v)
      /\ "overlap" \notin odd => Undisturbed
  BY DEF LinksInv
<1>l. links' = links
  BY DEF A!GoogleConnect
<1>a. /\ acct' \in Acct
      /\ acct' = A!Linked
  BY <1>t DEF A!GoogleConnect, A!Start, A!NoteOverlap, A!Busy, A!At, A!NoAccount, A!Linked, LinksTyped, Acct
<1>w. worker' = worker
  BY DEF A!GoogleConnect
<1>1. LinksTyped'
  BY <1>t, <1>l, <1>a, <1>w DEF A!GoogleConnect, A!Start, A!NoteOverlap, A!Busy, A!At, LinksKept, LinksGrow, LinksTyped, Acct, Link, Work, LinkKinds, A!Idle, A!NoAccount, A!Linked
<1>2. AcctOk'
  BY <1>t, <1>l, <1>a, <1>w DEF A!GoogleConnect, A!Start, A!NoteOverlap, A!Busy, A!At, LinksKept, LinksGrow, LinksTyped, Acct, Link, Work, LinkKinds, A!Idle, A!NoAccount, A!Linked, AcctOk, WorkOk, LinkOk
<1>3. ASSUME NEW j \in DOMAIN links' PROVE LinkOk(j)'
  BY <1>t, <1>l, <1>a, <1>w DEF A!GoogleConnect, A!Start, A!NoteOverlap, A!Busy, A!At, LinksKept, LinksGrow, LinksTyped, Acct, Link, Work, LinkKinds, A!Idle, A!NoAccount, A!Linked, LinkOk, WorkOk
<1>4. ASSUME NEW v \in Workers PROVE WorkOk(v)'
  BY <1>t, <1>l, <1>a, <1>w DEF A!GoogleConnect, A!Start, A!NoteOverlap, A!Busy, A!At, LinksKept, LinksGrow, LinksTyped, Acct, Link, Work, LinkKinds, A!Idle, A!NoAccount, A!Linked, WorkOk, LinkOk
<1>5. ASSUME "overlap" \notin odd' PROVE Undisturbed'
  BY <1>t, <1>l, <1>a, <1>w, <1>5 DEF A!GoogleConnect, A!Start, A!NoteOverlap, A!Busy, A!At, LinksKept, LinksGrow, LinksTyped, Acct, Link, Work, LinkKinds, A!Idle, A!NoAccount, A!Linked, WorkOk, ReadOk, Undisturbed, AcctOk
<1> QED BY <1>1, <1>2, <1>3, <1>4, <1>5 DEF LinksInv

LEMMA LinksDisconnect ==
    ASSUME LinksInv, NEW w \in Workers, A!Disconnect(w)
    PROVE  LinksInv'
<1>t. /\ LinksTyped /\ AcctOk
      /\ \A j \in DOMAIN links : LinkOk(j)
      /\ \A v \in Workers : WorkOk(v)
      /\ "overlap" \notin odd => Undisturbed
  BY DEF LinksInv
<1>l. links' = links
  BY DEF A!Disconnect
<1>a. acct' = acct
  BY DEF A!Disconnect
<1>w. /\ worker' \in [Workers -> Work]
      /\ worker' = [worker EXCEPT ![w] = [A!Idle EXCEPT !.pc = "disconnect"]]
      /\ \A v \in Workers : v # w => worker'[v] = worker[v]
  BY <1>t DEF A!Disconnect, A!Start, A!NoteOverlap, A!Busy, A!At, A!End, A!Idle, LinksTyped, Work, LinkKinds, Link, Acct
<1>1. LinksTyped'
  BY <1>t, <1>l, <1>a, <1>w DEF A!Disconnect, A!Start, A!NoteOverlap, A!Busy, A!At, LinksKept, LinksGrow, LinksTyped, Acct, Link, Work, LinkKinds, A!Idle, A!NoAccount, A!Linked
<1>2. AcctOk'
  BY <1>t, <1>l, <1>a, <1>w DEF A!Disconnect, A!Start, A!NoteOverlap, A!Busy, A!At, LinksKept, LinksGrow, LinksTyped, Acct, Link, Work, LinkKinds, A!Idle, A!NoAccount, A!Linked, AcctOk, WorkOk, LinkOk
<1>3. ASSUME NEW j \in DOMAIN links' PROVE LinkOk(j)'
  BY <1>t, <1>l, <1>a, <1>w DEF A!Disconnect, A!Start, A!NoteOverlap, A!Busy, A!At, LinksKept, LinksGrow, LinksTyped, Acct, Link, Work, LinkKinds, A!Idle, A!NoAccount, A!Linked, LinkOk, WorkOk
<1>4. ASSUME NEW v \in Workers PROVE WorkOk(v)'
  BY <1>t, <1>l, <1>a, <1>w DEF A!Disconnect, A!Start, A!NoteOverlap, A!Busy, A!At, LinksKept, LinksGrow, LinksTyped, Acct, Link, Work, LinkKinds, A!Idle, A!NoAccount, A!Linked, WorkOk, LinkOk
<1>5. ASSUME "overlap" \notin odd' PROVE Undisturbed'
  <2>1. Undisturbed /\ "overlap" \notin odd /\ AcctOk /\ acct \in Acct /\ worker[w] \in Work
    BY <1>t, <1>5 DEF A!Disconnect, A!Start, A!NoteOverlap, LinksTyped
  <2>2. \A v \in Workers : worker[v].pc = "idle"
    BY <1>5 DEF A!Disconnect, A!Start, A!NoteOverlap, A!Busy, A!At, A!Idle
  <2>3. \A v \in Workers : v # w => worker'[v].pc = "idle"
    BY <1>w, <2>2
  <2>4. worker'[w] = [A!Idle EXCEPT !.pc = "disconnect"]
    BY <1>w, <1>t DEF LinksTyped
  <2>5. ASSUME NEW v \in Workers PROVE ReadOk(v)'
    <3>1. CASE v # w
      BY <2>3, <3>1 DEF ReadOk
    <3>2. CASE v = w
      <4>1. worker'[v].pc = "disconnect" /\ acct'.exists /\ acct'.pass
        BY <1>a, <2>4, <3>2 DEF A!Idle, A!Disconnect
      <4> QED BY <1>a, <4>1 DEF ReadOk, LinkKinds
    <3> QED BY <3>1, <3>2
  <2>6. acct'.exists => acct'.pass \/ acct'.google \/ acct'.guest
    BY <1>a, <2>1, <2>2 DEF Undisturbed, ReadOk, Acct, A!Linked, A!Disconnect, A!Start, A!NoteOverlap, A!Busy, A!At
  <2>7. "joined" \notin odd' /\ killed' = 0 /\ acct'.guest /\ (acct'.pass \/ acct'.google) =>
            \E v \in Workers : worker'[v].pc = "finish"
    BY <1>t, <1>a, <2>1, <2>2, <2>4 DEF LinksTyped, Undisturbed, ReadOk, AcctOk, Acct, Work, A!Linked, A!Disconnect, A!Start, A!NoteOverlap, A!Busy, A!At
  <2> QED BY <2>3, <2>5, <2>6, <2>7 DEF Undisturbed
<1> QED BY <1>1, <1>2, <1>3, <1>4, <1>5 DEF LinksInv

LEMMA LinksDisconnected ==
    ASSUME LinksInv, NEW w \in Workers, A!Disconnected(w)
    PROVE  LinksInv'
<1>t. /\ LinksTyped /\ AcctOk
      /\ \A j \in DOMAIN links : LinkOk(j)
      /\ \A v \in Workers : WorkOk(v)
      /\ "overlap" \notin odd => Undisturbed
  BY DEF LinksInv
<1>l. links' = links
  BY DEF A!Disconnected
<1>a. /\ acct' \in Acct
      /\ acct' = [acct EXCEPT !.google = FALSE]
  BY <1>t DEF A!Disconnected, A!Start, A!NoteOverlap, A!Busy, A!At, A!NoAccount, A!Linked, LinksTyped, Acct
<1>w. /\ worker' \in [Workers -> Work]
      /\ worker' = [worker EXCEPT ![w] = A!Idle]
      /\ \A v \in Workers : v # w => worker'[v] = worker[v]
  BY <1>t DEF A!Disconnected, A!Start, A!NoteOverlap, A!Busy, A!At, A!End, A!Idle, LinksTyped, Work, LinkKinds, Link, Acct
<1>1. LinksTyped'
  BY <1>t, <1>l, <1>a, <1>w DEF A!Disconnected, A!Start, A!NoteOverlap, A!Busy, A!At, LinksKept, LinksGrow, LinksTyped, Acct, Link, Work, LinkKinds, A!Idle, A!NoAccount, A!Linked
<1>2. AcctOk'
  BY <1>t, <1>l, <1>a, <1>w DEF A!Disconnected, A!Start, A!NoteOverlap, A!Busy, A!At, LinksKept, LinksGrow, LinksTyped, Acct, Link, Work, LinkKinds, A!Idle, A!NoAccount, A!Linked, AcctOk, WorkOk, LinkOk
<1>3. ASSUME NEW j \in DOMAIN links' PROVE LinkOk(j)'
  BY <1>t, <1>l, <1>a, <1>w DEF A!Disconnected, A!Start, A!NoteOverlap, A!Busy, A!At, LinksKept, LinksGrow, LinksTyped, Acct, Link, Work, LinkKinds, A!Idle, A!NoAccount, A!Linked, LinkOk, WorkOk
<1>4. ASSUME NEW v \in Workers PROVE WorkOk(v)'
  BY <1>t, <1>l, <1>a, <1>w DEF A!Disconnected, A!Start, A!NoteOverlap, A!Busy, A!At, LinksKept, LinksGrow, LinksTyped, Acct, Link, Work, LinkKinds, A!Idle, A!NoAccount, A!Linked, WorkOk, LinkOk
<1>5. ASSUME "overlap" \notin odd' PROVE Undisturbed'
  <2>1. Undisturbed /\ "overlap" \notin odd /\ AcctOk /\ acct \in Acct /\ worker[w] \in Work
    BY <1>t, <1>5 DEF A!Disconnected, A!Start, A!NoteOverlap, LinksTyped
  <2>2. /\ worker[w].pc # "idle"
        /\ \A v \in Workers : v # w => worker[v].pc = "idle"
    BY <1>t, <2>1 DEF Undisturbed, WorkOk, A!Disconnected, A!Start, A!NoteOverlap, A!Busy, A!At
  <2>3. \A v \in Workers : v # w => worker'[v].pc = "idle"
    BY <1>w, <2>2
  <2>4. worker'[w] = A!Idle
    BY <1>w, <1>t DEF LinksTyped
  <2>5. ASSUME NEW v \in Workers PROVE ReadOk(v)'
    <3>1. CASE v # w
      BY <2>3, <3>1 DEF ReadOk
    <3>2. CASE v = w
      <4>1. worker'[v].pc = "idle"
        BY <2>4, <3>2 DEF A!Idle
      <4> QED BY <1>a, <4>1 DEF ReadOk, LinkKinds
    <3> QED BY <3>1, <3>2
  <2>6. acct'.exists => acct'.pass \/ acct'.google \/ acct'.guest
    BY <1>a, <2>1, <2>2 DEF Undisturbed, ReadOk, Acct, A!Linked, A!Disconnected, A!Start, A!NoteOverlap, A!Busy, A!At
  <2>7. "joined" \notin odd' /\ killed' = 0 /\ acct'.guest /\ (acct'.pass \/ acct'.google) =>
            \E v \in Workers : worker'[v].pc = "finish"
    BY <1>t, <1>a, <2>1, <2>2, <2>4 DEF LinksTyped, Undisturbed, ReadOk, AcctOk, Acct, Work, A!Linked, A!Disconnected, A!Start, A!NoteOverlap, A!Busy, A!At
  <2> QED BY <2>3, <2>5, <2>6, <2>7 DEF Undisturbed
<1> QED BY <1>1, <1>2, <1>3, <1>4, <1>5 DEF LinksInv

LEMMA LinksJoinAsNew ==
    ASSUME LinksInv, NEW w \in Workers, A!JoinAsNew(w)
    PROVE  LinksInv'
<1>t. /\ LinksTyped /\ AcctOk
      /\ \A j \in DOMAIN links : LinkOk(j)
      /\ \A v \in Workers : WorkOk(v)
      /\ "overlap" \notin odd => Undisturbed
  BY DEF LinksInv
<1>l. LinksKept
  <2>1. worker[w].link \in DOMAIN links
    BY <1>t DEF WorkOk, LinkKinds, A!JoinAsNew, A!Start, A!NoteOverlap, A!Busy, A!At
  <2> QED BY <1>t, <2>1, UsedOne DEF A!JoinAsNew, LinksKept, LinksTyped
<1>a. /\ acct' \in Acct
      /\ acct' = [acct EXCEPT !.pass = TRUE, !.verified = TRUE]
  BY <1>t DEF A!JoinAsNew, A!Start, A!NoteOverlap, A!Busy, A!At, A!NoAccount, A!Linked, LinksTyped, Acct
<1>w. /\ worker' \in [Workers -> Work]
      /\ worker' = [worker EXCEPT ![w] = A!Idle]
      /\ \A v \in Workers : v # w => worker'[v] = worker[v]
  BY <1>t DEF A!JoinAsNew, A!Start, A!NoteOverlap, A!Busy, A!At, A!End, A!Idle, LinksTyped, Work, LinkKinds, Link, Acct
<1>1. LinksTyped'
  BY <1>t, <1>l, <1>a, <1>w DEF A!JoinAsNew, A!Start, A!NoteOverlap, A!Busy, A!At, LinksKept, LinksGrow, LinksTyped, Acct, Link, Work, LinkKinds, A!Idle, A!NoAccount, A!Linked
<1>2. AcctOk'
  BY <1>t, <1>l, <1>a, <1>w DEF A!JoinAsNew, A!Start, A!NoteOverlap, A!Busy, A!At, LinksKept, LinksGrow, LinksTyped, Acct, Link, Work, LinkKinds, A!Idle, A!NoAccount, A!Linked, AcctOk, WorkOk, LinkOk
<1>3. ASSUME NEW j \in DOMAIN links' PROVE LinkOk(j)'
  BY <1>t, <1>l, <1>a, <1>w DEF A!JoinAsNew, A!Start, A!NoteOverlap, A!Busy, A!At, LinksKept, LinksGrow, LinksTyped, Acct, Link, Work, LinkKinds, A!Idle, A!NoAccount, A!Linked, LinkOk, WorkOk
<1>4. ASSUME NEW v \in Workers PROVE WorkOk(v)'
  BY <1>t, <1>l, <1>a, <1>w DEF A!JoinAsNew, A!Start, A!NoteOverlap, A!Busy, A!At, LinksKept, LinksGrow, LinksTyped, Acct, Link, Work, LinkKinds, A!Idle, A!NoAccount, A!Linked, WorkOk, LinkOk
<1>5. ASSUME "overlap" \notin odd' PROVE Undisturbed'
  <2>1. Undisturbed /\ "overlap" \notin odd /\ AcctOk /\ acct \in Acct /\ worker[w] \in Work
    BY <1>t, <1>5 DEF A!JoinAsNew, A!Start, A!NoteOverlap, LinksTyped
  <2>2. /\ worker[w].pc # "idle"
        /\ \A v \in Workers : v # w => worker[v].pc = "idle"
    BY <1>t, <2>1 DEF Undisturbed, WorkOk, A!JoinAsNew, A!Start, A!NoteOverlap, A!Busy, A!At
  <2>3. \A v \in Workers : v # w => worker'[v].pc = "idle"
    BY <1>w, <2>2
  <2>4. worker'[w] = A!Idle
    BY <1>w, <1>t DEF LinksTyped
  <2>5. ASSUME NEW v \in Workers PROVE ReadOk(v)'
    <3>1. CASE v # w
      BY <2>3, <3>1 DEF ReadOk
    <3>2. CASE v = w
      <4>1. worker'[v].pc = "idle"
        BY <2>4, <3>2 DEF A!Idle
      <4> QED BY <1>a, <4>1 DEF ReadOk, LinkKinds
    <3> QED BY <3>1, <3>2
  <2>6. acct'.exists => acct'.pass \/ acct'.google \/ acct'.guest
    BY <1>a, <2>1, <2>2 DEF Undisturbed, ReadOk, Acct, A!Linked, A!JoinAsNew, A!Start, A!NoteOverlap, A!Busy, A!At
  <2>7. "joined" \notin odd' /\ killed' = 0 /\ acct'.guest /\ (acct'.pass \/ acct'.google) =>
            \E v \in Workers : worker'[v].pc = "finish"
    BY <1>t, <1>a, <2>1, <2>2, <2>4 DEF LinksTyped, Undisturbed, ReadOk, AcctOk, Acct, Work, A!Linked, A!JoinAsNew, A!Start, A!NoteOverlap, A!Busy, A!At
  <2> QED BY <2>3, <2>5, <2>6, <2>7 DEF Undisturbed
<1> QED BY <1>1, <1>2, <1>3, <1>4, <1>5 DEF LinksInv

LEMMA LinksDeleteUnconfirmed ==
    ASSUME LinksInv, A!DeleteUnconfirmed
    PROVE  LinksInv'
<1>t. /\ LinksTyped /\ AcctOk
      /\ \A j \in DOMAIN links : LinkOk(j)
      /\ \A v \in Workers : WorkOk(v)
      /\ "overlap" \notin odd => Undisturbed
  BY DEF LinksInv
<1>l. links' = links
  BY DEF A!DeleteUnconfirmed
<1>a. /\ acct' \in Acct
      /\ acct' = A!NoAccount(acct.email)
  BY <1>t DEF A!DeleteUnconfirmed, A!Start, A!NoteOverlap, A!Busy, A!At, A!NoAccount, A!Linked, LinksTyped, Acct
<1>w. worker' = worker
  BY DEF A!DeleteUnconfirmed
<1>1. LinksTyped'
  BY <1>t, <1>l, <1>a, <1>w DEF A!DeleteUnconfirmed, A!Start, A!NoteOverlap, A!Busy, A!At, LinksKept, LinksGrow, LinksTyped, Acct, Link, Work, LinkKinds, A!Idle, A!NoAccount, A!Linked
<1>2. AcctOk'
  BY <1>t, <1>l, <1>a, <1>w DEF A!DeleteUnconfirmed, A!Start, A!NoteOverlap, A!Busy, A!At, LinksKept, LinksGrow, LinksTyped, Acct, Link, Work, LinkKinds, A!Idle, A!NoAccount, A!Linked, AcctOk, WorkOk, LinkOk
<1>3. ASSUME NEW j \in DOMAIN links' PROVE LinkOk(j)'
  BY <1>t, <1>l, <1>a, <1>w DEF A!DeleteUnconfirmed, A!Start, A!NoteOverlap, A!Busy, A!At, LinksKept, LinksGrow, LinksTyped, Acct, Link, Work, LinkKinds, A!Idle, A!NoAccount, A!Linked, LinkOk, WorkOk
<1>4. ASSUME NEW v \in Workers PROVE WorkOk(v)'
  BY <1>t, <1>l, <1>a, <1>w DEF A!DeleteUnconfirmed, A!Start, A!NoteOverlap, A!Busy, A!At, LinksKept, LinksGrow, LinksTyped, Acct, Link, Work, LinkKinds, A!Idle, A!NoAccount, A!Linked, WorkOk, LinkOk
<1>5. ASSUME "overlap" \notin odd' PROVE Undisturbed'
  BY <1>t, <1>l, <1>a, <1>w, <1>5 DEF A!DeleteUnconfirmed, A!Start, A!NoteOverlap, A!Busy, A!At, LinksKept, LinksGrow, LinksTyped, Acct, Link, Work, LinkKinds, A!Idle, A!NoAccount, A!Linked, WorkOk, ReadOk, Undisturbed, AcctOk
<1> QED BY <1>1, <1>2, <1>3, <1>4, <1>5 DEF LinksInv

LEMMA LinksCrash ==
    ASSUME LinksInv, NEW w \in Workers, A!Crash(w)
    PROVE  LinksInv'
<1>t. /\ LinksTyped /\ AcctOk
      /\ \A j \in DOMAIN links : LinkOk(j)
      /\ \A v \in Workers : WorkOk(v)
      /\ "overlap" \notin odd => Undisturbed
  BY DEF LinksInv
<1>l. links' = links
  BY DEF A!Crash
<1>a. acct' = acct
  BY DEF A!Crash
<1>w. /\ worker' \in [Workers -> Work]
      /\ worker' = [worker EXCEPT ![w] = A!Idle]
      /\ \A v \in Workers : v # w => worker'[v] = worker[v]
  BY <1>t DEF A!Crash, A!Start, A!NoteOverlap, A!Busy, A!At, A!End, A!Idle, LinksTyped, Work, LinkKinds, Link, Acct
<1>1. LinksTyped'
  BY <1>t, <1>l, <1>a, <1>w DEF A!Crash, A!Start, A!NoteOverlap, A!Busy, A!At, LinksKept, LinksGrow, LinksTyped, Acct, Link, Work, LinkKinds, A!Idle, A!NoAccount, A!Linked
<1>2. AcctOk'
  BY <1>t, <1>l, <1>a, <1>w DEF A!Crash, A!Start, A!NoteOverlap, A!Busy, A!At, LinksKept, LinksGrow, LinksTyped, Acct, Link, Work, LinkKinds, A!Idle, A!NoAccount, A!Linked, AcctOk, WorkOk, LinkOk
<1>3. ASSUME NEW j \in DOMAIN links' PROVE LinkOk(j)'
  BY <1>t, <1>l, <1>a, <1>w DEF A!Crash, A!Start, A!NoteOverlap, A!Busy, A!At, LinksKept, LinksGrow, LinksTyped, Acct, Link, Work, LinkKinds, A!Idle, A!NoAccount, A!Linked, LinkOk, WorkOk
<1>4. ASSUME NEW v \in Workers PROVE WorkOk(v)'
  BY <1>t, <1>l, <1>a, <1>w DEF A!Crash, A!Start, A!NoteOverlap, A!Busy, A!At, LinksKept, LinksGrow, LinksTyped, Acct, Link, Work, LinkKinds, A!Idle, A!NoAccount, A!Linked, WorkOk, LinkOk
<1>5. ASSUME "overlap" \notin odd' PROVE Undisturbed'
  <2>1. Undisturbed /\ "overlap" \notin odd /\ AcctOk /\ acct \in Acct /\ worker[w] \in Work
    BY <1>t, <1>5 DEF A!Crash, A!Start, A!NoteOverlap, LinksTyped
  <2>2. /\ worker[w].pc # "idle"
        /\ \A v \in Workers : v # w => worker[v].pc = "idle"
    BY <1>t, <2>1 DEF Undisturbed, WorkOk, A!Crash, A!Start, A!NoteOverlap, A!Busy, A!At
  <2>3. \A v \in Workers : v # w => worker'[v].pc = "idle"
    BY <1>w, <2>2
  <2>4. worker'[w] = A!Idle
    BY <1>w, <1>t DEF LinksTyped
  <2>5. ASSUME NEW v \in Workers PROVE ReadOk(v)'
    <3>1. CASE v # w
      BY <2>3, <3>1 DEF ReadOk
    <3>2. CASE v = w
      <4>1. worker'[v].pc = "idle"
        BY <2>4, <3>2 DEF A!Idle
      <4> QED BY <1>a, <4>1 DEF ReadOk, LinkKinds
    <3> QED BY <3>1, <3>2
  <2>6. acct'.exists => acct'.pass \/ acct'.google \/ acct'.guest
    BY <1>a, <2>1, <2>2 DEF Undisturbed, ReadOk, Acct, A!Linked, A!Crash, A!Start, A!NoteOverlap, A!Busy, A!At
  <2>7. "joined" \notin odd' /\ killed' = 0 /\ acct'.guest /\ (acct'.pass \/ acct'.google) =>
            \E v \in Workers : worker'[v].pc = "finish"
    BY <1>t, <1>a, <2>1, <2>2, <2>4 DEF LinksTyped, Undisturbed, ReadOk, AcctOk, Acct, Work, A!Linked, A!Crash, A!Start, A!NoteOverlap, A!Busy, A!At
  <2> QED BY <2>3, <2>5, <2>6, <2>7 DEF Undisturbed
<1> QED BY <1>1, <1>2, <1>3, <1>4, <1>5 DEF LinksInv

LEMMA LinksStutter ==
    ASSUME LinksInv, UNCHANGED accountVars
    PROVE  LinksInv'
BY DEF LinksInv, LinksTyped, AcctOk, LinkOk, WorkOk, Undisturbed, ReadOk, accountVars

LEMMA LinksInit ==
    ASSUME A!Init
    PROVE  LinksInv
<1>1. PICK e \in Addresses : acct = A!NoAccount(e)
  BY DEF A!Init
<1>2. acct \in Acct /\ ~(acct.exists \/ acct.verified \/ acct.pass \/ acct.guest \/ acct.google)
  BY <1>1 DEF A!NoAccount, Acct
<1>3. links = <<>> /\ worker = [w \in Workers |-> A!Idle]
  BY DEF A!Init
<1>4. LinksTyped
  BY <1>2, <1>3 DEF A!Init, A!Idle, LinksTyped, Work
<1>5. \A w \in Workers : worker[w] = A!Idle /\ worker[w].pc = "idle"
  BY <1>3 DEF A!Idle
<1> QED BY <1>2, <1>3, <1>4, <1>5
        DEF LinksInv, AcctOk, LinkOk, WorkOk, LinkKinds, Undisturbed, ReadOk

LEMMA LinksStep ==
    ASSUME LinksInv, A!Next
    PROVE  LinksInv'
<1>1. CASE A!Resend \/ A!RequestReset \/ A!SettingsPage
  BY <1>1, LinksResend, LinksRequestReset, LinksRequestPassword, LinksRequestEmail, LinksDisconnect
     DEF A!SettingsPage
<1>2. CASE A!GoogleCallback \/ A!DeleteUnconfirmed
  BY <1>2, LinksAskGoogle, LinksSignIn, LinksConnect, LinksDeleteUnconfirmed DEF A!GoogleCallback
<1>3. ASSUME NEW e \in Addresses,
             A!Register(e) \/ A!GuestSubmit(e) \/ A!GoogleSignup(e) \/ A!Taken(e) \/ A!Invited(e)
      PROVE  LinksInv'
  BY <1>3, LinksRegister, LinksGuestSubmit, LinksGoogleSignup, LinksTaken, LinksInvited
<1>4. ASSUME NEW i \in DOMAIN links, A!Expire(i) PROVE LinksInv'
  BY <1>4, LinksExpire
<1>5. ASSUME NEW w \in Workers, NEW i \in DOMAIN links, A!Open(w, i) PROVE LinksInv'
  BY <1>5, LinksOpen
<1>6. ASSUME NEW w \in Workers, A!Finish(w) PROVE LinksInv'
  BY <1>6, LinksVerify, LinksSavePassword, LinksFinishPassword, LinksChangeEmail,
     LinksGuestConfirm, LinksGoogleConfirm, LinksDisconnected, LinksJoinAsNew DEF A!Finish
<1>7. ASSUME NEW w \in Workers, A!Crash(w) PROVE LinksInv'
  BY <1>7, LinksCrash
<1> QED BY <1>1, <1>2, <1>3, <1>4, <1>5, <1>6, <1>7 DEF A!Next

LEMMA LinksAlways == PartSpec => []LinksInv
<1>1. PartInit => LinksInv
  BY LinksInit DEF PartInit
<1>2. LinksInv /\ [PartNext]_<<part, vars, accountVars, signInVars, fileVars, googleVars>>
      => LinksInv'
  <2> SUFFICES ASSUME LinksInv, PartNext PROVE LinksInv'
    BY LinksStutter
  <2> QED BY LinksStep, LinksStutter DEF PartNext
<1> QED BY <1>1, <1>2, PTL DEF PartSpec

\* A confirmed address is one whose owner showed it is theirs, whichever links
\* were opened and whatever changed meanwhile, but for an unconfirmed account
\* connected to Google in its settings.
THEOREM ConfirmedByItsOwner == PartSpec => []VerifiedIsProved
<1>1. LinksInv => VerifiedIsProved
  BY DEF LinksInv, AcctOk, VerifiedIsProved, A!VerifiedIsProved
<1> QED BY <1>1, LinksAlways, PTL

\* An account keeps a password, Google or the panel's link, and its link only
\* as long as it has neither of the others, unless two requests changed it at
\* once; the link also when a worker was killed or it joined a team.
THEOREM AlwaysAWayIn == PartSpec => []WayIn
<1>1. LinksInv => WayIn
  <2> SUFFICES ASSUME LinksInv PROVE WayIn
    OBVIOUS
  <2>1. A!WayIn
    BY DEF LinksInv, Undisturbed, A!WayIn
  <2>2. A!RegularHasNoLink
    <3>1. ASSUME NEW w \in Workers, worker[w] = A!Idle PROVE worker[w].pc # "finish"
      BY <3>1 DEF A!Idle
    <3> QED BY <3>1 DEF LinksInv, Undisturbed, A!RegularHasNoLink, A!Orderly, A!Busy
  <2> QED BY <2>1, <2>2 DEF WayIn
<1> QED BY <1>1, LinksAlways, PTL

-----------------------------------------------------------------------------
(* Signing in with Google: the invariant *)

Proofs == Mailboxes \cup {NoProof, ByPassword}

User == [mail : Mailboxes \cup {NoProof}, verified : BOOLEAN, pass : BOOLEAN,
         google : GoogleIds \cup {NoGoogleId}]

Flow == [n : Nat, user : Users \cup {Nobody}, over : Proofs]

Session == [user : Users \cup {Nobody}, flow : Flow, signup : GoogleIds \cup {NoGoogleId},
            nonce : Nat, proof : Proofs]

Page == [doing : {"none", "link", "confirm", "connect"}, user : Users \cup {Nobody},
         subject : GoogleIds \cup {NoGoogleId}, over : Proofs]

Answer == [browser : Persons, n : Nat, subject : GoogleIds \cup {NoGoogleId}]

Letter == [n : Nat, user : Users \cup {Nobody}, to : Proofs, subject : GoogleIds \cup {NoGoogleId}]

GoogleTyped ==
    /\ users \in [Users -> User]
    /\ session \in [Persons -> Session]
    /\ page \in [Persons -> Page]
    /\ answers \in SUBSET Answer
    /\ posted \in SUBSET Letter
    /\ trips \in Nat

\* The person at b reads the mailbox that was proved, or typed u's password.
Proved(b, over, u) == over \in Reading[b] \/ (over = ByPassword /\ u \in Knowing[b])

\* What a session keeps, its person earned.
EarnedBy(b, s) ==
    /\ s.signup \in Holds[b] \cup {NoGoogleId}
    /\ s.proof # NoProof => s.user # Nobody /\ Proved(b, s.proof, s.user)
    /\ s.flow.user # Nobody => Proved(b, s.flow.over, s.flow.user)

SessionOk(b) ==
    EarnedBy(b, session[b]) /\ session[b].nonce <= trips

PageOk(b) ==
    page[b].doing # "none" =>
        /\ page[b].user \in Users /\ page[b].subject \in Holds[b]
        /\ Proved(b, page[b].over, page[b].user)

\* A confirmation goes to the browser that asked: nobody else has its number.
LetterOk(l) ==
    /\ l.n <= trips
    /\ l.n = 0 => l.user # Nobody
    /\ l.n # 0 => \A b \in Persons : session[b].nonce = l.n => l.subject \in Holds[b]

GoogleInv ==
    /\ GoogleTyped
    /\ \A b \in Persons : SessionOk(b) /\ PageOk(b)
    /\ \A a \in answers : a.subject \in Holds[a.browser] \cup {NoGoogleId}
    /\ \A l \in posted : LetterOk(l)

\* A step opens an account for its owner only.
Opens(b) ==
    LET u == session'[b].user IN
    /\ u \notin {session[b].user, Nobody} =>
            (users'[u].pass /\ u \in Knowing[b]) \/ users'[u].google \in Holds[b]
    /\ \A v \in Users :
            users'[v].google # users[v].google /\ page'[b] # page[b] =>
                /\ users'[v].google \in Holds[b]
                /\ page[b].over \in Reading[b] \/ (page[b].over = ByPassword /\ v \in Knowing[b])
                /\ users[v].verified \/ \A c \in Persons :
                        session'[c].user = v \/ (users'[v].pass /\ v \in Knowing[c]) =>
                            users'[v].google \in Holds[c]

\* The session of one browser becomes r; no other changes.
OneSession(b, r) ==
    /\ session' = [session EXCEPT ![b] = r]
    /\ r \in Session /\ EarnedBy(b, r)

-----------------------------------------------------------------------------
(* Signing in with Google: sessions *)

LEMMA SessionOf ==
    ASSUME GoogleInv, NEW b \in Persons
    PROVE  /\ session[b] \in Session /\ EarnedBy(b, session[b]) /\ session[b].nonce <= trips
           /\ trips \in Nat
BY DEF GoogleInv, GoogleTyped, SessionOk

LEMMA FreshSession ==
    ASSUME NEW b \in Persons
    PROVE  /\ G!Fresh \in Session /\ EarnedBy(b, G!Fresh)
           /\ G!Fresh.user = Nobody /\ G!Fresh.nonce = 0
           /\ G!Fresh.flow \in Flow /\ G!Fresh.flow.user = Nobody
BY DEF G!Fresh, Session, Flow, Proofs, EarnedBy

\* Signing in keeps a session of the same person, and empties another's.
LEMMA LogsIn ==
    ASSUME NEW b \in Persons, NEW s \in Session, EarnedBy(b, s), NEW u \in Users
    PROVE  /\ G!LoggedIn(s, u) \in Session /\ EarnedBy(b, G!LoggedIn(s, u))
           /\ G!LoggedIn(s, u).user = u
           /\ G!LoggedIn(s, u).nonce \in {0, s.nonce}
<1>1. CASE s.user \in {Nobody, u}
  <2>1. G!LoggedIn(s, u) = [s EXCEPT !.user = u]
    BY <1>1 DEF G!LoggedIn
  <2>2. [s EXCEPT !.user = u] \in Session
    BY DEF Session
  <2>3. EarnedBy(b, [s EXCEPT !.user = u])
    BY <1>1 DEF EarnedBy, Session, Proved
  <2> QED BY <2>1, <2>2, <2>3 DEF Session
<1>2. CASE s.user \notin {Nobody, u}
  <2>1. G!LoggedIn(s, u) = [G!Fresh EXCEPT !.user = u]
    BY <1>2 DEF G!LoggedIn
  <2> QED BY <2>1 DEF G!Fresh, Session, Flow, Proofs, EarnedBy
<1> QED BY <1>1, <1>2

\* A trip's answer is taken: the session knows of no trip.
LEMMA FlowGone ==
    ASSUME GoogleInv, NEW b \in Persons
    PROVE  \E f \in Session :
              /\ EarnedBy(b, f) /\ f.nonce = session[b].nonce /\ f.user = session[b].user
              /\ G!FlowTaken(b) = [session EXCEPT ![b] = f]
              /\ G!FlowTaken(b)[b] = f
<1> DEFINE f == [session[b] EXCEPT !.flow = G!Fresh.flow]
<1>1. f \in Session /\ EarnedBy(b, f) /\ f.nonce = session[b].nonce /\ f.user = session[b].user
  BY SessionOf, FreshSession DEF Session, EarnedBy
<1>2. G!FlowTaken(b) = [session EXCEPT ![b] = f]
  BY DEF G!FlowTaken
<1>3. G!FlowTaken(b)[b] = f
  BY <1>2 DEF GoogleInv, GoogleTyped
<1> QED BY <1>1, <1>2, <1>3

LEMMA SessionsHold ==
    ASSUME GoogleInv, trips' \in Nat, trips <= trips',
           \/ session' = session
           \/ \E b \in Persons : \E r : OneSession(b, r) /\ r.nonce <= trips'
    PROVE  /\ session' \in [Persons -> Session]
           /\ \A c \in Persons : SessionOk(c)'
<1>1. CASE session' = session
  BY <1>1, SessionOf DEF GoogleInv, GoogleTyped, SessionOk, Session
<1>2. ASSUME NEW b \in Persons, NEW r, OneSession(b, r), r.nonce <= trips'
      PROVE  /\ session' \in [Persons -> Session]
             /\ \A c \in Persons : SessionOk(c)'
  <2>1. /\ session' \in [Persons -> Session] /\ session'[b] = r
        /\ \A c \in Persons : c # b => session'[c] = session[c]
    BY <1>2 DEF OneSession, GoogleInv, GoogleTyped
  <2>2. ASSUME NEW c \in Persons PROVE EarnedBy(c, session'[c]) /\ session'[c].nonce <= trips'
    <3>1. CASE c = b
      BY <1>2, <2>1, <3>1 DEF OneSession
    <3>2. CASE c # b
      BY <2>1, <3>2, SessionOf DEF Session
    <3> QED BY <3>1, <3>2
  <2> QED BY <2>1, <2>2 DEF SessionOk
<1> QED BY <1>1, <1>2

\* Nobody's number is that of a sheet to come.
LEMMA LettersHold ==
    ASSUME GoogleInv, NEW b \in Persons, trips' \in Nat, trips <= trips',
           session' \in [Persons -> Session],
           \A c \in Persons : c # b => session'[c] = session[c],
           \A l \in posted' : l.n # 0 /\ session'[b].nonce = l.n => l.subject \in Holds[b],
           \A l \in posted' \ posted :
                /\ l.n \in {0, trips'} /\ (l.n = 0 => l.user # Nobody)
                /\ l.n # 0 => trips' = trips + 1
    PROVE  \A l \in posted' : LetterOk(l)'
<1>1. ASSUME NEW l \in posted', l \in posted PROVE LetterOk(l)'
  <2>1. LetterOk(l) /\ l.n \in Nat /\ trips \in Nat
    BY <1>1 DEF GoogleInv, GoogleTyped, Letter
  <2> QED BY <2>1 DEF LetterOk
<1>2. ASSUME NEW l \in posted', l \notin posted PROVE LetterOk(l)'
  <2>1. \A c \in Persons : session[c].nonce <= trips /\ session[c].nonce \in Nat /\ trips \in Nat
    BY SessionOf DEF Session
  <2>2. l.n \in {0, trips'} /\ (l.n = 0 => l.user # Nobody) /\ (l.n # 0 => trips' = trips + 1)
    BY <1>2
  <2>3. l.n # 0 => \A c \in Persons : c # b => session'[c].nonce # l.n
    BY <2>1, <2>2
  <2> QED BY <2>2, <2>3 DEF LetterOk
<1> QED BY <1>1, <1>2

-----------------------------------------------------------------------------
(* Signing in with Google: what a step changes for one person at b *)

PageStep(b) ==
    \/ page' = page
    \/ \E g \in Page :
          /\ page' = [page EXCEPT ![b] = g]
          /\ g.doing # "none" =>
                g.user \in Users /\ g.subject \in Holds[b] /\ Proved(b, g.over, g.user)

\* The session of b changes, and keeps the number of the sheet it awaits.
SessionStep(b) ==
    \/ session' = session
    \/ \E r : OneSession(b, r) /\ r.nonce \in {0, session[b].nonce}

LEMMA PagesHold ==
    ASSUME GoogleInv, NEW b \in Persons, PageStep(b)
    PROVE  page' \in [Persons -> Page] /\ \A c \in Persons : PageOk(c)'
<1>1. page \in [Persons -> Page] /\ \A c \in Persons : PageOk(c)
  BY DEF GoogleInv, GoogleTyped
<1>2. CASE page' = page
  BY <1>1, <1>2 DEF PageOk
<1>3. ASSUME NEW g \in Page, page' = [page EXCEPT ![b] = g],
             g.doing # "none" =>
                g.user \in Users /\ g.subject \in Holds[b] /\ Proved(b, g.over, g.user)
      PROVE  page' \in [Persons -> Page] /\ \A c \in Persons : PageOk(c)'
  BY <1>1, <1>3 DEF PageOk
<1> QED BY <1>2, <1>3 DEF PageStep

\* A step that mails nothing.
LEMMA GoogleKept ==
    ASSUME GoogleInv, NEW b \in Persons, trips' \in Nat, trips <= trips',
           users' \in [Users -> User], SessionStep(b), PageStep(b),
           answers' \in SUBSET Answer,
           \A a \in answers' : a.subject \in Holds[a.browser] \cup {NoGoogleId},
           posted' \in SUBSET posted
    PROVE  GoogleInv'
<1>1. /\ session' = session \/ \E r : OneSession(b, r) /\ r.nonce <= trips'
      /\ session'[b].nonce \in {0, session[b].nonce}
      /\ \A c \in Persons : c # b => session'[c] = session[c]
  <2>1. session[b].nonce <= trips /\ session[b].nonce \in Nat /\ trips \in Nat
    BY SessionOf DEF Session
  <2>2. session \in [Persons -> Session]
    BY DEF GoogleInv, GoogleTyped
  <2> QED BY <2>1, <2>2 DEF SessionStep, OneSession
<1>2. session' \in [Persons -> Session] /\ \A c \in Persons : SessionOk(c)'
  BY <1>1, SessionsHold
<1>3. page' \in [Persons -> Page] /\ \A c \in Persons : PageOk(c)'
  BY PagesHold
<1>4. \A l \in posted' : l.n # 0 /\ session'[b].nonce = l.n => l.subject \in Holds[b]
  BY <1>1 DEF GoogleInv, LetterOk
<1>5. \A l \in posted' : LetterOk(l)'
  BY <1>1, <1>2, <1>4, LettersHold
<1>6. GoogleTyped'
  BY <1>2, <1>3 DEF GoogleInv, GoogleTyped
<1> QED BY <1>2, <1>3, <1>5, <1>6 DEF GoogleInv

\* _send_confirmation: the sheet is the one the session waits for.
LEMMA ConfirmationSent ==
    ASSUME GoogleInv, NEW b \in Persons, NEW s \in Holds[b] \cap GoogleIds,
           NEW u \in Users \cup {Nobody}, NEW to \in Proofs, NEW f \in Session,
           EarnedBy(b, f), f.nonce = session[b].nonce,
           G!SendConfirmation(b, s, u, to, [session EXCEPT ![b] = f]),
           users' = users, page' = page, answers' \in SUBSET answers
    PROVE  GoogleInv' /\ (session'[b].user = f.user)
                      /\ \A c \in Persons : c # b => session'[c] = session[c]
<1>0. /\ session \in [Persons -> Session] /\ posted \in SUBSET Letter /\ trips \in Nat
      /\ users \in [Users -> User] /\ answers \in SUBSET Answer
      /\ \A a \in answers : a.subject \in Holds[a.browser] \cup {NoGoogleId}
      /\ \A l \in posted : LetterOk(l)
  BY DEF GoogleInv, GoogleTyped
<1>1. CASE posted' = posted /\ trips' = trips /\ session' = [session EXCEPT ![b] = f]
  <2>1. SessionStep(b) /\ PageStep(b)
    BY <1>1 DEF SessionStep, OneSession, PageStep
  <2>2. GoogleInv'
    BY <1>0, <1>1, <2>1, GoogleKept
  <2> QED BY <1>0, <1>1, <2>2
<1>2. CASE /\ trips' = trips + 1
           /\ posted' = posted \cup {[n |-> trips + 1, user |-> u, to |-> to, subject |-> s]}
           /\ session' = [[session EXCEPT ![b] = f] EXCEPT ![b].nonce = trips + 1]
  <2> DEFINE sheet == [n |-> trips + 1, user |-> u, to |-> to, subject |-> s]
             r == [f EXCEPT !.nonce = trips + 1]
  <2>1. sheet \in Letter /\ sheet.n = trips + 1 /\ sheet.subject = s
    BY <1>0 DEF Letter
  <2>2. r \in Session /\ EarnedBy(b, r) /\ r.nonce = trips + 1 /\ r.user = f.user
    BY <1>0 DEF Session, EarnedBy
  <2>3. session' = [session EXCEPT ![b] = r]
    BY <1>0, <1>2
  <2>4. posted' = posted \cup {sheet}
    BY <1>2
  <2> HIDE DEF sheet, r
  <2>5. /\ session'[b] = r
        /\ \A c \in Persons : c # b => session'[c] = session[c]
    BY <1>0, <2>3
  <2>6. trips' \in Nat /\ trips <= trips' /\ r.nonce <= trips'
    BY <1>0, <1>2, <2>2
  <2>7. OneSession(b, r)
    BY <2>2, <2>3 DEF OneSession
  <2>8. session' \in [Persons -> Session] /\ \A c \in Persons : SessionOk(c)'
    BY <2>6, <2>7, SessionsHold
  <2>9. ASSUME NEW l \in posted', l.n # 0, session'[b].nonce = l.n PROVE l.subject \in Holds[b]
    <3>1. CASE l \in posted
      BY <1>0, <2>2, <2>5, <2>9, <3>1 DEF LetterOk, Letter
    <3>2. CASE l = sheet
      BY <2>1, <3>2
    <3> QED BY <2>4, <3>1, <3>2
  <2>10. \A l \in posted' \ posted : /\ l.n \in {0, trips'} /\ (l.n = 0 => l.user # Nobody)
                                     /\ l.n # 0 => trips' = trips + 1
    BY <1>0, <1>2, <2>1, <2>4
  <2>11. \A l \in posted' : LetterOk(l)'
    BY <2>5, <2>6, <2>8, <2>9, <2>10, LettersHold
  <2>12. page' \in [Persons -> Page] /\ \A c \in Persons : PageOk(c)'
    BY PagesHold DEF PageStep
  <2>13. GoogleTyped'
    BY <1>0, <2>1, <2>4, <2>6, <2>8, <2>12 DEF GoogleTyped
  <2>14. GoogleInv'
    BY <1>0, <2>8, <2>11, <2>12, <2>13 DEF GoogleInv
  <2> QED BY <2>2, <2>5, <2>14
<1> QED BY <1>1, <1>2 DEF G!SendConfirmation

\* A step that mails nothing may also end sessions of others.
LEMMA GoogleEnded ==
    ASSUME GoogleInv, NEW b \in Persons, trips' = trips,
           users' \in [Users -> User], PageStep(b), answers' = answers, posted' = posted,
           session' \in [Persons -> Session],
           \A c \in Persons : /\ EarnedBy(c, session'[c])
                             /\ session'[c].nonce \in {0, session[c].nonce}
    PROVE  GoogleInv'
<1>1. /\ trips \in Nat /\ posted \in SUBSET Letter /\ answers \in SUBSET Answer
      /\ \A a \in answers : a.subject \in Holds[a.browser] \cup {NoGoogleId}
      /\ \A l \in posted : LetterOk(l)
  BY DEF GoogleInv, GoogleTyped
<1>2. \A c \in Persons : SessionOk(c)'
  BY <1>1, SessionOf DEF SessionOk
<1>3. page' \in [Persons -> Page] /\ \A c \in Persons : PageOk(c)'
  BY PagesHold
<1>4. \A l \in posted' : LetterOk(l)'
  BY <1>1 DEF LetterOk
<1>5. GoogleTyped'
  BY <1>1, <1>3 DEF GoogleTyped
<1> QED BY <1>1, <1>2, <1>3, <1>4, <1>5 DEF GoogleInv

\* Nobody gets in anywhere, and no page links anything.
LEMMA OpensNothing ==
    ASSUME NEW c \in Persons, session'[c].user \in {session[c].user, Nobody},
           users' = users \/ page'[c] = page[c] \/ \A v \in Users : users'[v].google = users[v].google
    PROVE  Opens(c)
BY DEF Opens

LEMMA OpensElsewhere ==
    ASSUME GoogleInv, NEW b \in Persons, Opens(b), PageStep(b),
           \A c \in Persons : c # b => session'[c].user \in {session[c].user, Nobody}
    PROVE  \A c \in Persons : Opens(c)
<1>1. \A c \in Persons : c # b => page'[c] = page[c]
  BY DEF PageStep, GoogleInv, GoogleTyped
<1>2. ASSUME NEW c \in Persons, c # b PROVE Opens(c)
  BY <1>1, <1>2, OpensNothing
<1> QED BY <1>2

LEMMA StepElsewhere ==
    ASSUME GoogleInv, NEW b \in Persons, SessionStep(b)
    PROVE  \A c \in Persons : c # b => session'[c] = session[c]
BY DEF SessionStep, OneSession, GoogleInv, GoogleTyped

\* No account, page or sheet is touched, and an answer is its person's.
RestKept ==
    /\ users' = users /\ page' = page /\ posted' \in SUBSET posted
    /\ trips' \in Nat /\ trips <= trips' /\ answers' \in SUBSET Answer
    /\ \A a \in answers' : a.subject \in Holds[a.browser] \cup {NoGoogleId}

\* A step on one session only, of a person who gets in nowhere.
LEMMA OwnSession ==
    ASSUME GoogleInv, NEW b \in Persons, NEW r \in Session, EarnedBy(b, r),
           r.nonce \in {0, session[b].nonce}, r.user \in {session[b].user, Nobody},
           session' = [session EXCEPT ![b] = r], RestKept
    PROVE  GoogleInv' /\ \A c \in Persons : Opens(c)
<1>0. SessionStep(b)
  BY DEF SessionStep, OneSession
<1>1. SessionStep(b) /\ PageStep(b)
  BY <1>0 DEF PageStep, RestKept
<1>2. users' \in [Users -> User] /\ session'[b] = r
  BY DEF GoogleInv, GoogleTyped, RestKept
<1>3. GoogleInv'
  BY <1>1, <1>2, GoogleKept DEF RestKept
<1>4. Opens(b)
  BY <1>2, OpensNothing DEF RestKept
<1> QED BY <1>1, <1>3, <1>4, StepElsewhere, OpensElsewhere

-----------------------------------------------------------------------------
(* Signing in with Google: every step keeps the invariant and opens for its owner *)

\* What holds of the answers and the letters before a step.
LEMMA Before ==
    ASSUME GoogleInv
    PROVE  /\ users \in [Users -> User] /\ answers \in SUBSET Answer /\ posted \in SUBSET Letter
           /\ session \in [Persons -> Session] /\ page \in [Persons -> Page] /\ trips \in Nat
           /\ \A a \in answers : a.subject \in Holds[a.browser] \cup {NoGoogleId}
           /\ \A l \in posted : LetterOk(l)
           /\ \A b \in Persons : PageOk(b)
BY DEF GoogleInv, GoogleTyped

LEMMA GoogleChangeEmail ==
    ASSUME GoogleInv, NEW u \in Users, NEW m \in Mailboxes, G!ChangeEmail(u, m)
    PROVE  GoogleInv' /\ \A c \in Persons : Opens(c)
<1>1. /\ users' = [users EXCEPT ![u].mail = m]
      /\ session' = session /\ answers' = answers /\ posted' = posted /\ page' = page
      /\ trips' = trips
  BY DEF G!ChangeEmail
<1>2. users[u] \in User
  BY Before
<1>3. [users[u] EXCEPT !.mail = m] \in User
  BY <1>2 DEF User
<1>4. users' \in [Users -> User]
  BY <1>1, <1>3, Before
<1>5. GoogleInv'
  BY <1>1, <1>4 DEF GoogleInv, GoogleTyped, SessionOk, EarnedBy, PageOk, LetterOk
<1> QED BY <1>1, <1>5, OpensNothing

LEMMA GoogleLinkExpires ==
    ASSUME GoogleInv, NEW l, G!LinkExpires(l)
    PROVE  GoogleInv' /\ \A c \in Persons : Opens(c)
<1>1. /\ posted' \in SUBSET posted
      /\ session' = session /\ answers' = answers /\ users' = users /\ page' = page
      /\ trips' = trips
  BY DEF G!LinkExpires
<1>2. GoogleInv'
  BY <1>1 DEF GoogleInv, GoogleTyped, SessionOk, EarnedBy, PageOk, LetterOk
<1> QED BY <1>1, <1>2, OpensNothing

LEMMA GoogleSignsIn ==
    ASSUME GoogleInv, NEW b \in Persons, NEW u \in Users, G!SignIn(b, u)
    PROVE  GoogleInv' /\ \A c \in Persons : Opens(c)
<1> DEFINE r == G!LoggedIn(session[b], u)
<1>1. /\ session' = [session EXCEPT ![b] = r]
      /\ u \in Knowing[b] /\ users[u].pass
      /\ users' = users /\ answers' = answers /\ posted' = posted /\ page' = page /\ trips' = trips
  BY DEF G!SignIn, G!Login
<1>2. r \in Session /\ EarnedBy(b, r) /\ r.user = u /\ r.nonce \in {0, session[b].nonce}
  BY SessionOf, LogsIn
<1> HIDE DEF r
<1>3. SessionStep(b) /\ PageStep(b)
  BY <1>1, <1>2 DEF SessionStep, OneSession, PageStep
<1>4. GoogleInv'
  BY <1>1, <1>3, Before, GoogleKept
<1>5. session'[b].user = u
  BY <1>1, <1>2, Before
<1>6. Opens(b)
  BY <1>1, <1>5 DEF Opens
<1> QED BY <1>3, <1>4, <1>6, StepElsewhere, OpensElsewhere

\* Who registers knows the password they chose.
LEMMA GoogleRegister ==
    ASSUME GoogleInv, NEW b \in Persons, NEW u \in Users, NEW m \in Mailboxes,
           G!Register(b, u, m)
    PROVE  GoogleInv' /\ \A c \in Persons : Opens(c)
<1> DEFINE r == G!LoggedIn(session[b], u)
           new == [mail |-> m, verified |-> FALSE, pass |-> TRUE, google |-> NoGoogleId]
<1>1. /\ session' = [session EXCEPT ![b] = r] /\ users' = [users EXCEPT ![u] = new]
      /\ u \in Knowing[b]
      /\ answers' = answers /\ posted' = posted /\ page' = page /\ trips' = trips
  BY DEF G!Register, G!Login
<1>2. r \in Session /\ EarnedBy(b, r) /\ r.user = u /\ r.nonce \in {0, session[b].nonce}
  BY SessionOf, LogsIn
<1>3. new \in User /\ new.pass
  BY DEF User
<1> HIDE DEF r, new
<1>4. users' \in [Users -> User] /\ users'[u].pass
  BY <1>1, <1>3, Before
<1>5. SessionStep(b) /\ PageStep(b)
  BY <1>1, <1>2 DEF SessionStep, OneSession, PageStep
<1>6. GoogleInv'
  BY <1>1, <1>4, <1>5, Before, GoogleKept
<1>7. session'[b].user = u
  BY <1>1, <1>2, Before
<1>8. Opens(b)
  BY <1>1, <1>4, <1>7 DEF Opens
<1> QED BY <1>5, <1>6, <1>8, StepElsewhere, OpensElsewhere

LEMMA GoogleSignOut ==
    ASSUME GoogleInv, NEW b \in Persons, G!SignOut(b)
    PROVE  GoogleInv' /\ \A c \in Persons : Opens(c)
<1>1. RestKept /\ session' = [session EXCEPT ![b] = G!Fresh]
  BY Before DEF G!SignOut, RestKept
<1>2. G!Fresh.nonce \in {0, session[b].nonce} /\ G!Fresh.user \in {session[b].user, Nobody}
  BY FreshSession
<1> QED BY <1>1, <1>2, FreshSession, OwnSession

LEMMA GoogleExpire ==
    ASSUME GoogleInv, NEW b \in Persons, G!Expire(b)
    PROVE  GoogleInv' /\ \A c \in Persons : Opens(c)
<1>1. PICK r \in {[session[b] EXCEPT !.proof = NoProof], [session[b] EXCEPT !.signup = NoGoogleId]} :
          session' = [session EXCEPT ![b] = r]
  BY DEF G!Expire
<1>2. r \in Session /\ EarnedBy(b, r) /\ r.nonce = session[b].nonce /\ r.user = session[b].user
  BY SessionOf DEF Session, Proofs, EarnedBy
<1>3. RestKept
  BY Before DEF G!Expire, RestKept
<1> QED BY <1>1, <1>2, <1>3, OwnSession

\* To Google for u, whose proof the trip takes along, or to sign in.
LEMMA GoogleTrip ==
    ASSUME G!GoogleAssumption, GoogleInv, NEW b \in Persons, NEW u \in {session[b].user, Nobody},
           u # Nobody => session[b].proof # NoProof,
           G!AuthorizationUrl(b, u), UNCHANGED <<users, posted, page>>
    PROVE  GoogleInv' /\ \A c \in Persons : Opens(c)
<1> DEFINE flow == [n |-> trips + 1, user |-> u, over |-> session[b].proof]
           r == [session[b] EXCEPT !.flow = flow, !.proof = NoProof]
<1>1. session' = [session EXCEPT ![b] = r] /\ trips' = trips + 1
  BY DEF G!AuthorizationUrl
<1>2. flow \in Flow /\ (u # Nobody => Proved(b, flow.over, flow.user))
  BY SessionOf DEF Flow, Session, EarnedBy
<1>3. flow.user = u
  OBVIOUS
<1> HIDE DEF flow
<1>4. r \in Session /\ EarnedBy(b, r) /\ r.nonce = session[b].nonce /\ r.user = session[b].user
  BY <1>2, <1>3, SessionOf DEF Session, Proofs, EarnedBy
<1> HIDE DEF r
<1>5. PICK s \in Holds[b] \cup {NoGoogleId} :
          answers' = answers \cup {[browser |-> b, n |-> trips + 1, subject |-> s]}
  BY DEF G!AuthorizationUrl
<1>6. s \in GoogleIds \cup {NoGoogleId}
  BY DEF G!GoogleAssumption
<1>7. /\ answers' \in SUBSET Answer
      /\ \A a \in answers' : a.subject \in Holds[a.browser] \cup {NoGoogleId}
  BY <1>5, <1>6, Before DEF Answer
<1>8. RestKept
  BY <1>1, <1>7, Before DEF RestKept
<1> QED BY <1>1, <1>4, <1>8, OwnSession

LEMMA GoogleConnects ==
    ASSUME G!GoogleAssumption, GoogleInv, NEW b \in Persons,
           G!GoogleStart(b) \/ G!GoogleConnect(b)
    PROVE  GoogleInv' /\ \A c \in Persons : Opens(c)
BY GoogleTrip DEF G!GoogleStart, G!GoogleConnect

LEMMA GoogleConfirmPassword ==
    ASSUME GoogleInv, NEW b \in Persons, G!ConfirmPassword(b)
    PROVE  GoogleInv' /\ \A c \in Persons : Opens(c)
<1> DEFINE r == [session[b] EXCEPT !.proof = ByPassword]
<1>1. session' = [session EXCEPT ![b] = r]
  BY DEF G!ConfirmPassword
<1>2. r \in Session /\ EarnedBy(b, r) /\ r.nonce = session[b].nonce /\ r.user = session[b].user
  BY SessionOf DEF Session, Proofs, EarnedBy, Proved, G!ConfirmPassword
<1> HIDE DEF r
<1>3. RestKept
  BY Before DEF G!ConfirmPassword, RestKept
<1> QED BY <1>1, <1>2, <1>3, OwnSession

LEMMA GoogleConfirmLink ==
    ASSUME GoogleInv, NEW b \in Persons, NEW l, G!ConfirmLink(b, l)
    PROVE  GoogleInv' /\ \A c \in Persons : Opens(c)
<1> DEFINE r == [session[b] EXCEPT !.proof = l.to]
<1>1. session' = [session EXCEPT ![b] = r]
  BY DEF G!ConfirmLink
<1>2. l \in posted /\ l \in Letter /\ l.n = 0 /\ l.to \in Reading[b] /\ session[b].user = l.user
  BY Before DEF G!ConfirmLink
<1>3. l.user # Nobody /\ l.to \in Proofs
  BY <1>2, Before DEF LetterOk, Letter
<1>4. r \in Session /\ EarnedBy(b, r) /\ r.nonce = session[b].nonce /\ r.user = session[b].user
  BY <1>2, <1>3, SessionOf DEF Session, EarnedBy, Proved
<1> HIDE DEF r
<1>5. RestKept
  BY Before DEF G!ConfirmLink, RestKept
<1> QED BY <1>1, <1>4, <1>5, OwnSession

\* The sheet of a connection has no number: no session waits for it.
LEMMA GoogleSendLink ==
    ASSUME GoogleInv, NEW b \in Persons, G!SendLink(b)
    PROVE  GoogleInv' /\ \A c \in Persons : Opens(c)
<1> DEFINE u == session[b].user
           sheet == [n |-> 0, user |-> u, to |-> users[u].mail, subject |-> NoGoogleId]
<1>1. /\ u # Nobody /\ posted' = posted \cup {sheet}
      /\ session' = session /\ answers' = answers /\ users' = users /\ page' = page /\ trips' = trips
  BY DEF G!SendLink
<1>2. u \in Users
  BY <1>1, SessionOf DEF Session
<1>3. users[u].mail \in Proofs
  BY <1>2, Before DEF User, Proofs
<1>4. sheet \in Letter /\ sheet.n = 0 /\ sheet.user = u
  BY <1>2, <1>3 DEF Letter
<1> HIDE DEF sheet, u
<1>5. \A l \in posted' : LetterOk(l)'
  BY <1>1, <1>4, Before DEF LetterOk
<1>6. GoogleInv'
  BY <1>1, <1>4, <1>5 DEF GoogleInv, GoogleTyped, SessionOk, EarnedBy, PageOk
<1> QED BY <1>1, <1>6, OpensNothing

LEMMA GoogleRefused ==
    ASSUME GoogleInv, NEW b \in Persons, NEW a, G!CallbackRefused(b, a)
    PROVE  GoogleInv' /\ \A c \in Persons : Opens(c)
<1>1. PICK f \in Session :
        /\ EarnedBy(b, f) /\ f.nonce = session[b].nonce /\ f.user = session[b].user
        /\ session' = [session EXCEPT ![b] = f]
  BY FlowGone DEF G!CallbackRefused
<1>2. RestKept
  BY Before DEF G!CallbackRefused, RestKept
<1> QED BY <1>1, <1>2, OwnSession

\* The answer to the session's own trip names an account its person holds.
LEMMA StateIsMine ==
    ASSUME GoogleInv, NEW b \in Persons, NEW a, G!StateMatches(b, a)
    PROVE  a \in answers /\ a.subject \in Holds[b] /\ a.subject \in GoogleIds
BY Before DEF G!StateMatches, Answer

LEMMA GoogleKnownIn ==
    ASSUME GoogleInv, NEW b \in Persons, NEW a, G!GoogleKnown(b, a)
    PROVE  GoogleInv' /\ \A c \in Persons : Opens(c)
<1>1. PICK f \in Session :
        /\ EarnedBy(b, f) /\ f.nonce = session[b].nonce
        /\ G!FlowTaken(b)[b] = f
  BY FlowGone
<1>2. PICK u \in G!Taken(a.subject) :
          session' = [session EXCEPT ![b] = G!LoggedIn(G!FlowTaken(b)[b], u)]
  BY DEF G!GoogleKnown
<1>3. u \in Users /\ users[u].google \in Holds[b]
  BY StateIsMine DEF G!GoogleKnown, G!Taken, G!Rows
<1> DEFINE r == G!LoggedIn(f, u)
<1>4. session' = [session EXCEPT ![b] = r]
  BY <1>1, <1>2
<1>5. r \in Session /\ EarnedBy(b, r) /\ r.user = u /\ r.nonce \in {0, session[b].nonce}
  BY <1>1, <1>3, LogsIn
<1> HIDE DEF r
<1>6. SessionStep(b)
  BY <1>4, <1>5 DEF SessionStep, OneSession
<1>7. /\ users' = users /\ page' = page /\ posted' = posted /\ trips' = trips
      /\ answers' \in SUBSET answers
  BY DEF G!GoogleKnown
<1>8. PageStep(b)
  BY <1>7 DEF PageStep
<1>9. GoogleInv'
  BY <1>6, <1>7, <1>8, Before, GoogleKept
<1>10. session'[b].user = u
  BY <1>4, <1>5, Before
<1>11. Opens(b)
  BY <1>3, <1>7, <1>10 DEF Opens
<1> QED BY <1>6, <1>8, <1>9, <1>11, StepElsewhere, OpensElsewhere

\* A page now waits to link; nobody is in yet.
LEMMA GoogleWaits ==
    ASSUME GoogleInv, NEW b \in Persons, SessionStep(b), session'[b].user = session[b].user,
           NEW doing \in {"link", "confirm", "connect"}, NEW u \in Users,
           NEW s \in Holds[b] \cap GoogleIds, NEW over \in Proofs, Proved(b, over, u),
           G!Waits(b, doing, u, s, over),
           users' = users, posted' = posted, trips' = trips, answers' \in SUBSET answers
    PROVE  GoogleInv' /\ \A c \in Persons : Opens(c)
<1> DEFINE g == [doing |-> doing, user |-> u, subject |-> s, over |-> over]
<1>1. page' = [page EXCEPT ![b] = g]
  BY DEF G!Waits
<1>2. g \in Page /\ g.user = u /\ g.subject = s /\ g.over = over
  BY DEF Page
<1> HIDE DEF g
<1>3. PageStep(b)
  BY <1>1, <1>2 DEF PageStep
<1>4. GoogleInv'
  BY <1>3, Before, GoogleKept
<1>5. Opens(b)
  BY OpensNothing
<1> QED BY <1>3, <1>4, <1>5, StepElsewhere, OpensElsewhere

LEMMA GoogleNewcomer ==
    ASSUME G!GoogleAssumption, GoogleInv, NEW b \in Persons, NEW a, G!GoogleNew(b, a)
    PROVE  GoogleInv' /\ \A c \in Persons : Opens(c)
<1> DEFINE s == a.subject
<1>1. s \in Holds[b] /\ s \in GoogleIds /\ s \in Holds[b] \cap GoogleIds
  BY StateIsMine DEF G!GoogleNew
<1>2. PICK f \in Session :
        /\ EarnedBy(b, f) /\ f.nonce = session[b].nonce /\ f.user = session[b].user
        /\ G!FlowTaken(b) = [session EXCEPT ![b] = f]
  BY FlowGone
<1>3. users' = users /\ answers' \in SUBSET answers
  BY DEF G!GoogleNew
<1>4. CASE session' = [G!FlowTaken(b) EXCEPT ![b].signup = s] /\ UNCHANGED <<posted, page, trips>>
  <2> DEFINE r == [f EXCEPT !.signup = s]
  <2>1. session' = [session EXCEPT ![b] = r]
    BY <1>2, <1>4, Before
  <2>2. r \in Session /\ EarnedBy(b, r) /\ r.nonce = session[b].nonce /\ r.user = session[b].user
    BY <1>1, <1>2 DEF Session, EarnedBy
  <2> HIDE DEF r
  <2>3. RestKept
    BY <1>3, <1>4, Before DEF RestKept
  <2> QED BY <2>1, <2>2, <2>3, OwnSession
<1>5. ASSUME NEW u \in Users, s \in KeptByGoogle, G!Waits(b, "link", u, s, AddressAt[s]),
             session' = G!FlowTaken(b), UNCHANGED <<posted, trips>>
      PROVE  GoogleInv' /\ \A c \in Persons : Opens(c)
  <2>1. AddressAt[s] \in Proofs /\ Proved(b, AddressAt[s], u)
    BY <1>1, <1>5 DEF G!GoogleAssumption, Proofs, Proved
  <2>2. SessionStep(b)
    BY <1>2, <1>5 DEF SessionStep, OneSession
  <2>3. session'[b].user = session[b].user
    BY <1>2, <1>5, Before
  <2> HIDE DEF s
  <2> QED BY <1>1, <1>3, <1>5, <2>1, <2>2, <2>3, GoogleWaits
<1>6. ASSUME NEW u \in Users, G!SendConfirmation(b, s, u, users[u].mail, G!FlowTaken(b)),
             UNCHANGED page
      PROVE  GoogleInv' /\ \A c \in Persons : Opens(c)
  <2>1. users[u].mail \in Proofs
    BY Before DEF User, Proofs
  <2>2. G!SendConfirmation(b, s, u, users[u].mail, [session EXCEPT ![b] = f])
    BY <1>2, <1>6
  <2> HIDE DEF s
  <2>3. /\ GoogleInv' /\ session'[b].user = f.user
        /\ \A c \in Persons : c # b => session'[c] = session[c]
    BY <1>1, <1>2, <1>3, <1>6, <2>1, <2>2, ConfirmationSent
  <2>4. Opens(b) /\ PageStep(b)
    BY <1>2, <1>3, <1>6, <2>3, OpensNothing DEF PageStep
  <2> QED BY <2>3, <2>4, OpensElsewhere
<1> QED BY <1>4, <1>5, <1>6 DEF G!GoogleNew, G!Rows

LEMMA GoogleConnected ==
    ASSUME GoogleInv, NEW b \in Persons, NEW a, G!Connect(b, a)
    PROVE  GoogleInv' /\ \A c \in Persons : Opens(c)
<1> DEFINE u == session[b].flow.user
           over == session[b].flow.over
<1>1. a.subject \in Holds[b] \cap GoogleIds /\ u # Nobody
  BY StateIsMine DEF G!Connect
<1>2. u \in Users /\ over \in Proofs /\ Proved(b, over, u)
  BY <1>1, SessionOf DEF Session, Flow, EarnedBy
<1>3. PICK f \in Session :
        /\ EarnedBy(b, f) /\ f.nonce = session[b].nonce /\ f.user = session[b].user
        /\ session' = [session EXCEPT ![b] = f]
  BY FlowGone DEF G!Connect
<1>4. SessionStep(b) /\ session'[b].user = session[b].user
  BY <1>3, Before DEF SessionStep, OneSession
<1>5. /\ G!Waits(b, "connect", u, a.subject, over)
      /\ users' = users /\ posted' = posted /\ trips' = trips /\ answers' \in SUBSET answers
  BY DEF G!Connect
<1> HIDE DEF u, over
<1> QED BY <1>1, <1>2, <1>4, <1>5, GoogleWaits

\* _link: the page's person holds the Google account and proved the address.
LEMMA GoogleLinks ==
    ASSUME G!GoogleAssumption, GoogleInv, NEW b \in Persons, G!Link(b)
    PROVE  GoogleInv' /\ \A c \in Persons : Opens(c)
<1> DEFINE u == page[b].user
           s == page[b].subject
<1>1. /\ u \in Users /\ s \in Holds[b] /\ Proved(b, page[b].over, u)
      /\ s \in GoogleIds \cup {NoGoogleId}
  BY Before DEF G!Link, PageOk, Page
<1>2. page' = [page EXCEPT ![b] = G!NoPage] /\ G!NoPage \in Page /\ G!NoPage.doing = "none"
  BY DEF G!Link, G!NoPage, Page, Proofs
<1>3. PageStep(b)
  BY <1>2 DEF PageStep
<1>4. answers' = answers /\ posted' = posted /\ trips' = trips
  BY DEF G!Link
<1>5. CASE users' = users /\ session' = session
  <2>1. SessionStep(b)
    BY <1>5 DEF SessionStep
  <2>2. GoogleInv'
    BY <1>3, <1>4, <1>5, <2>1, Before, GoogleKept
  <2>3. Opens(b)
    BY <1>5, OpensNothing
  <2> QED BY <1>3, <1>5, <2>2, <2>3, OpensElsewhere
<1> DEFINE before == IF page[b].doing = "confirm" THEN G!Confirmed(b) ELSE session
           left == IF users[u].verified THEN before ELSE G!SignedOut(u, before)
           new == [users[u] EXCEPT !.google = s, !.verified = TRUE,
                                   !.pass = @ /\ users[u].verified]
<1>6. CASE users[u].google = NoGoogleId /\ G!Taken(s) = {}
  <2>1. /\ users' = [users EXCEPT ![u] = new]
        /\ session' = IF page[b].doing = "connect" THEN left
                      ELSE [left EXCEPT ![b] = G!LoggedIn(@, u)]
    BY <1>6 DEF G!Link
  <2>2. users[u] \in User
    BY <1>1, Before
  <2>3. /\ new \in User /\ new.google = s
        /\ new.pass => users[u].verified
    BY <1>1, <2>2 DEF User
  <2>4. /\ before \in [Persons -> Session]
        /\ \A c \in Persons : /\ EarnedBy(c, before[c])
                              /\ before[c].nonce \in {0, session[c].nonce}
                              /\ before[c].user = session[c].user
                              /\ c # b => before[c] = session[c]
    <3>1. CASE before = session
      BY <3>1, Before, SessionOf
    <3>2. CASE before = G!Confirmed(b)
      <4> DEFINE f == [session[b] EXCEPT !.nonce = 0]
      <4>1. f \in Session /\ EarnedBy(b, f) /\ f.nonce = 0 /\ f.user = session[b].user
        BY SessionOf DEF Session, EarnedBy
      <4>2. before = [session EXCEPT ![b] = f]
        BY <3>2 DEF G!Confirmed
      <4> HIDE DEF f, before
      <4> QED BY <4>1, <4>2, Before, SessionOf
    <3> QED BY <3>1, <3>2
  <2> HIDE DEF before
  <2>5. /\ left \in [Persons -> Session]
        /\ \A c \in Persons : /\ EarnedBy(c, left[c])
                              /\ left[c].nonce \in {0, session[c].nonce}
                              /\ left[c].user \in {session[c].user, Nobody}
                              /\ users[u].verified \/ left[c].user # u
    <3>1. CASE users[u].verified
      BY <2>4, <3>1
    <3>2. CASE ~users[u].verified
      <4>1. left = [c \in Persons |-> IF before[c].user = u THEN G!Fresh ELSE before[c]]
        BY <3>2 DEF G!SignedOut
      <4> HIDE DEF left
      <4>2. u # Nobody
        BY <1>1 DEF G!GoogleAssumption
      <4> QED BY <2>4, <4>1, <4>2, FreshSession
    <3> QED BY <3>1, <3>2
  <2> HIDE DEF new, left, u, s
  <2>6. /\ G!LoggedIn(left[b], u) \in Session /\ EarnedBy(b, G!LoggedIn(left[b], u))
        /\ G!LoggedIn(left[b], u).user = u
        /\ G!LoggedIn(left[b], u).nonce \in {0, left[b].nonce}
    BY <1>1, <2>5, LogsIn
  <2>7. /\ session' \in [Persons -> Session]
        /\ \A c \in Persons : /\ EarnedBy(c, session'[c])
                              /\ session'[c].nonce \in {0, session[c].nonce}
        /\ session'[b].user \in {session[b].user, Nobody, u}
        /\ \A c \in Persons : c # b => /\ session'[c].user \in {session[c].user, Nobody}
                                       /\ users[u].verified \/ session'[c].user # u
    BY <2>1, <2>5, <2>6
  <2>8. /\ users' \in [Users -> User] /\ users'[u].google = s
        /\ users'[u].pass => users[u].verified
        /\ \A v \in Users : v # u => users'[v] = users[v]
    BY <1>1, <2>1, <2>3, Before
  <2>9. GoogleInv'
    BY <1>3, <1>4, <2>7, <2>8, GoogleEnded
  <2>10. Opens(b)
    <3>1. session'[b].user \notin {session[b].user, Nobody} => users'[u].google \in Holds[b]
      BY <1>1, <2>8
    <3>2. ASSUME NEW v \in Users, users'[v].google # users[v].google
          PROVE  v = u
      BY <2>8, <3>2
    <3>3. users[u].verified \/ \A c \in Persons :
            session'[c].user = u \/ (users'[u].pass /\ u \in Knowing[c]) => c = b
      BY <2>7, <2>8
    <3> QED BY <1>1, <2>7, <2>8, <3>1, <3>2, <3>3 DEF Opens, Proved, u
  <2> QED BY <1>3, <2>7, <2>9, <2>10, OpensElsewhere
<1> QED BY <1>5, <1>6 DEF G!Link

\* _create_account for who holds s: the new account is linked to s.
LEMMA AccountCreated ==
    ASSUME G!GoogleAssumption, GoogleInv, NEW b \in Persons, NEW s \in Holds[b] \cap GoogleIds,
           NEW f \in Session, EarnedBy(b, f), f.nonce \in {0, session[b].nonce},
           G!CreateAccount(b, s, [session EXCEPT ![b] = f]),
           page' = page, answers' = answers, posted' = posted, trips' = trips
    PROVE  GoogleInv' /\ \A c \in Persons : Opens(c)
<1> DEFINE new == [mail |-> AddressAt[s], verified |-> TRUE, pass |-> FALSE, google |-> s]
           after == [session EXCEPT ![b] = f]
<1>1. PICK u \in Users :
        users' = [users EXCEPT ![u] = new] /\ session' = [after EXCEPT ![b] = G!LoggedIn(@, u)]
  BY DEF G!CreateAccount
<1>2. new \in User /\ new.google = s
  BY DEF User, G!GoogleAssumption
<1> HIDE DEF new
<1>3. users' \in [Users -> User] /\ users'[u].google = s
  BY <1>1, <1>2, Before
<1> DEFINE r == G!LoggedIn(f, u)
<1>4. session' = [session EXCEPT ![b] = r]
  BY <1>1, Before
<1>5. r \in Session /\ EarnedBy(b, r) /\ r.user = u /\ r.nonce \in {0, session[b].nonce}
  BY LogsIn, SessionOf DEF Session
<1> HIDE DEF r, after
<1>6. SessionStep(b) /\ PageStep(b)
  BY <1>4, <1>5 DEF SessionStep, OneSession, PageStep
<1>7. GoogleInv'
  BY <1>3, <1>6, Before, GoogleKept
<1>8. session'[b].user = u
  BY <1>4, <1>5, Before
<1>9. Opens(b)
  BY <1>3, <1>8 DEF Opens
<1> QED BY <1>6, <1>7, <1>9, StepElsewhere, OpensElsewhere

LEMMA GoogleSignup ==
    ASSUME G!GoogleAssumption, GoogleInv, NEW b \in Persons, G!CompleteSignup(b)
    PROVE  GoogleInv' /\ \A c \in Persons : Opens(c)
<1> DEFINE s == session[b].signup
           f == [session[b] EXCEPT !.signup = NoGoogleId]
           after == [session EXCEPT ![b].signup = NoGoogleId]
<1>1. s \in Holds[b] \cap GoogleIds
  BY SessionOf DEF Session, EarnedBy, G!CompleteSignup
<1>2. f \in Session /\ EarnedBy(b, f) /\ f.nonce = session[b].nonce /\ f.user = session[b].user
  BY SessionOf DEF Session, EarnedBy
<1>3. after = [session EXCEPT ![b] = f]
  OBVIOUS
<1>4. answers' = answers /\ page' = page
  BY DEF G!CompleteSignup
<1>5. \/ G!CreateAccount(b, s, after) /\ UNCHANGED <<posted, trips>>
      \/ session' = after /\ UNCHANGED <<users, posted, trips>>
      \/ G!SendConfirmation(b, s, Nobody, AddressAt[s], after) /\ users' = users
  BY DEF G!CompleteSignup
<1>6. AddressAt[s] \in Proofs
  BY <1>1 DEF G!GoogleAssumption, Proofs
<1> HIDE DEF s, f, after
<1>7. CASE G!CreateAccount(b, s, after) /\ UNCHANGED <<posted, trips>>
  BY <1>1, <1>2, <1>3, <1>4, <1>7, AccountCreated
<1>8. CASE session' = after /\ UNCHANGED <<users, posted, trips>>
  <2>1. RestKept
    BY <1>4, <1>8, Before DEF RestKept
  <2> QED BY <1>2, <1>3, <1>8, <2>1, OwnSession
<1>9. CASE G!SendConfirmation(b, s, Nobody, AddressAt[s], after) /\ users' = users
  <2>1. /\ GoogleInv' /\ session'[b].user = f.user
        /\ \A c \in Persons : c # b => session'[c] = session[c]
    BY <1>1, <1>2, <1>3, <1>4, <1>6, <1>9, Before, ConfirmationSent
  <2>2. Opens(b) /\ PageStep(b)
    BY <1>2, <1>4, <1>9, <2>1, OpensNothing DEF PageStep
  <2> QED BY <2>1, <2>2, OpensElsewhere
<1> QED BY <1>5, <1>7, <1>8, <1>9

LEMMA GoogleConfirm ==
    ASSUME G!GoogleAssumption, GoogleInv, NEW b \in Persons, NEW l, G!Confirm(b, l)
    PROVE  GoogleInv' /\ \A c \in Persons : Opens(c)
<1>1. l \in posted /\ l \in Letter /\ l.n # 0 /\ l.to \in Reading[b] /\ l.n = session[b].nonce
  BY Before DEF G!Confirm, G!SameBrowser
<1>2. l.subject \in Holds[b] /\ l.subject \in Holds[b] \cap GoogleIds /\ l.to \in Proofs
  BY <1>1, Before DEF LetterOk, Letter, G!GoogleAssumption
<1>3. answers' = answers /\ posted' = posted /\ trips' = trips
  BY DEF G!Confirm
<1> DEFINE f == [session[b] EXCEPT !.nonce = 0]
<1>4. f \in Session /\ EarnedBy(b, f) /\ f.nonce = 0
  BY SessionOf DEF Session, EarnedBy
<1>5. G!Confirmed(b) = [session EXCEPT ![b] = f] /\ G!Confirmed(b)[b] = f
  BY Before DEF G!Confirmed
<1> HIDE DEF f
<1>6. CASE G!CreateAccount(b, l.subject, G!Confirmed(b)) /\ UNCHANGED page
  BY <1>2, <1>3, <1>4, <1>5, <1>6, AccountCreated
<1>7. CASE /\ l.user # Nobody /\ G!Waits(b, "confirm", l.user, l.subject, l.to)
           /\ UNCHANGED session /\ UNCHANGED users
  <2>1. l.user \in Users /\ Proved(b, l.to, l.user) /\ SessionStep(b)
    BY <1>1, <1>7 DEF Letter, Proved, SessionStep
  <2> QED BY <1>2, <1>3, <1>7, <2>1, GoogleWaits
<1>8. CASE /\ l.user # Nobody /\ users[l.user].google = l.subject
           /\ session' = [session EXCEPT ![b] = G!LoggedIn(G!Confirmed(b)[b], l.user)]
           /\ UNCHANGED page /\ UNCHANGED users
  <2>1. l.user \in Users
    BY <1>1, <1>8 DEF Letter
  <2> DEFINE r == G!LoggedIn(f, l.user)
  <2>2. session' = [session EXCEPT ![b] = r]
    BY <1>5, <1>8
  <2>3. r \in Session /\ EarnedBy(b, r) /\ r.user = l.user /\ r.nonce = 0
    BY <1>4, <2>1, LogsIn
  <2> HIDE DEF r
  <2>4. SessionStep(b) /\ PageStep(b)
    BY <1>8, <2>2, <2>3 DEF SessionStep, OneSession, PageStep
  <2>5. GoogleInv'
    BY <1>3, <1>8, <2>4, Before, GoogleKept
  <2>6. session'[b].user = l.user
    BY <2>2, <2>3, Before
  <2>7. Opens(b)
    BY <1>2, <1>8, <2>6 DEF Opens
  <2> QED BY <2>4, <2>5, <2>7, StepElsewhere, OpensElsewhere
<1> QED BY <1>6, <1>7, <1>8 DEF G!Confirm

LEMMA GoogleDisconnect ==
    ASSUME GoogleInv, NEW b \in Persons, G!Disconnect(b)
    PROVE  GoogleInv' /\ \A c \in Persons : Opens(c)
<1> DEFINE u == session[b].user
<1>1. /\ u # Nobody /\ users' = [users EXCEPT ![u].google = NoGoogleId]
      /\ session' = session /\ answers' = answers /\ posted' = posted /\ page' = page
      /\ trips' = trips
  BY DEF G!Disconnect
<1>2. u \in Users /\ users[u] \in User
  BY <1>1, SessionOf, Before DEF Session
<1> HIDE DEF u
<1>3. [users[u] EXCEPT !.google = NoGoogleId] \in User
  BY <1>2 DEF User
<1>4. users' \in [Users -> User]
  BY <1>1, <1>3, Before
<1>5. SessionStep(b) /\ PageStep(b)
  BY <1>1 DEF SessionStep, PageStep
<1>6. GoogleInv'
  BY <1>1, <1>4, <1>5, Before, GoogleKept
<1> QED BY <1>1, <1>6, OpensNothing

LEMMA GoogleStep ==
    ASSUME G!GoogleAssumption, GoogleInv, G!Next
    PROVE  GoogleInv' /\ \A c \in Persons : Opens(c)
<1>1. ASSUME NEW u \in Users, NEW m \in Mailboxes, G!ChangeEmail(u, m)
      PROVE  GoogleInv' /\ \A c \in Persons : Opens(c)
  BY <1>1, GoogleChangeEmail
<1>2. ASSUME NEW l \in posted, G!LinkExpires(l)
      PROVE  GoogleInv' /\ \A c \in Persons : Opens(c)
  BY <1>2, GoogleLinkExpires
<1>3. ASSUME NEW b \in Persons, NEW u \in Users, G!SignIn(b, u)
      PROVE  GoogleInv' /\ \A c \in Persons : Opens(c)
  BY <1>3, GoogleSignsIn
<1>7. ASSUME NEW b \in Persons, NEW u \in Users, NEW m \in Mailboxes, G!Register(b, u, m)
      PROVE  GoogleInv' /\ \A c \in Persons : Opens(c)
  BY <1>7, GoogleRegister
<1>4. ASSUME NEW b \in Persons,
             \/ G!SignOut(b) \/ G!Expire(b) \/ G!GoogleStart(b) \/ G!GoogleConnect(b)
             \/ G!ConfirmPassword(b) \/ G!SendLink(b) \/ G!Disconnect(b)
             \/ G!Link(b) \/ G!CompleteSignup(b)
      PROVE  GoogleInv' /\ \A c \in Persons : Opens(c)
  BY <1>4, GoogleSignOut, GoogleExpire, GoogleConnects, GoogleConfirmPassword, GoogleSendLink,
     GoogleDisconnect, GoogleLinks, GoogleSignup
<1>5. ASSUME NEW b \in Persons, NEW a \in answers, G!GoogleCallback(b, a)
      PROVE  GoogleInv' /\ \A c \in Persons : Opens(c)
  BY <1>5, GoogleRefused, GoogleKnownIn, GoogleNewcomer, GoogleConnected DEF G!GoogleCallback
<1>6. ASSUME NEW b \in Persons, NEW l \in posted, G!ConfirmLink(b, l) \/ G!Confirm(b, l)
      PROVE  GoogleInv' /\ \A c \in Persons : Opens(c)
  BY <1>6, GoogleConfirmLink, GoogleConfirm
<1> QED BY <1>1, <1>2, <1>3, <1>4, <1>5, <1>6, <1>7 DEF G!Next

LEMMA GoogleStutter ==
    ASSUME GoogleInv, UNCHANGED googleVars
    PROVE  GoogleInv' /\ \A c \in Persons : Opens(c)
<1>1. GoogleInv'
  BY DEF googleVars, GoogleInv, GoogleTyped, SessionOk, EarnedBy, PageOk, LetterOk
<1> QED BY <1>1, OpensNothing DEF googleVars

LEMMA GoogleInit ==
    ASSUME G!Init
    PROVE  GoogleInv
<1>1. users \in [Users -> User]
  <2>1. \A r \in [mail : Mailboxes, verified : BOOLEAN, pass : BOOLEAN, google : {NoGoogleId}] :
            r \in User
    BY DEF User
  <2>2. G!NoRow \in User
    BY DEF G!NoRow, User
  <2> QED BY <2>1, <2>2 DEF G!Init
<1>2. session = [b \in Persons |-> G!Fresh] /\ page = [b \in Persons |-> G!NoPage]
  BY DEF G!Init
<1>3. G!NoPage \in Page /\ G!NoPage.doing = "none"
  BY DEF G!NoPage, Page, Proofs
<1>4. \A b \in Persons : session[b] = G!Fresh /\ page[b] = G!NoPage
  BY <1>2
<1>5. /\ session \in [Persons -> Session] /\ page \in [Persons -> Page]
      /\ \A b \in Persons : SessionOk(b) /\ PageOk(b)
  BY <1>2, <1>3, <1>4, FreshSession DEF G!Init, SessionOk, PageOk
<1>6. answers = {} /\ posted = {} /\ trips = 0
  BY DEF G!Init
<1> QED BY <1>1, <1>5, <1>6 DEF GoogleInv, GoogleTyped

\* "Never opens an account for the wrong person" (google_auth.py:3-4): who gets
\* into an account knows its password or holds the Google account linked to it;
\* who links one holds it and proved the address or typed the password; and a
\* link to an account registered and never confirmed leaves nobody else in it,
\* nor with a password of it - in whichever tabs, browsers and links the steps
\* were taken.
THEOREM GoogleOpensForItsOwner == ASSUME G!GoogleAssumption PROVE PartSpec => OpensForItsOwner
<1> DEFINE P == \A b \in Persons :
                  LET u == session'[b].user IN
                  /\ u \notin {session[b].user, Nobody} =>
                        (users'[u].pass /\ u \in Knowing[b]) \/ users'[u].google \in Holds[b]
                  /\ \A v \in Users :
                        users'[v].google # users[v].google /\ page'[b] # page[b] =>
                            /\ users'[v].google \in Holds[b]
                            /\ page[b].over \in Reading[b] \/ (page[b].over = ByPassword /\ v \in Knowing[b])
                            /\ users[v].verified \/ \A c \in Persons :
                                  session'[c].user = v \/ (users'[v].pass /\ v \in Knowing[c]) =>
                                      users'[v].google \in Holds[c]
<1>1. PartInit => GoogleInv
  BY GoogleInit DEF PartInit
<1>2. GoogleInv /\ [PartNext]_<<part, vars, accountVars, signInVars, fileVars, googleVars>>
      => GoogleInv' /\ [P]_G!vars
  <2> SUFFICES ASSUME GoogleInv,
                      [PartNext]_<<part, vars, accountVars, signInVars, fileVars, googleVars>>
               PROVE  GoogleInv' /\ \A c \in Persons : Opens(c)
    BY DEF Opens
  <2>1. UNCHANGED googleVars \/ G!Next
    BY DEF PartNext
  <2> QED BY <2>1, GoogleStep, GoogleStutter
<1> QED BY <1>1, <1>2, PTL DEF PartSpec, OpensForItsOwner, G!OpensForItsOwner

=============================================================================
