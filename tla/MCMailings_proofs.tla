------------------------- MODULE MCMailings_proofs -------------------------
(***************************************************************************)
(* Proofs about the timed emails, each for every value of its constants:   *)
(* what there is to tell gets through and is told once, a client gets one  *)
(* scheduled reminder a day, and the planned reminders are the ones that   *)
(* go out. Every part has its inductive invariant, the state its workers   *)
(* may be in between two statements; the parts move one at a time, so that *)
(* a step of PartNext is a step or a stutter of each.                      *)
(***************************************************************************)
EXTENDS MCMailings, FiniteSetTheorems, WellFoundedInduction, TLAPS

-----------------------------------------------------------------------------
(* The workers and the recipients are finitely many *)

LEMMA NewsSets ==
    ASSUME NEW X
    PROVE  (N!IsFiniteSet(X) <=> IsFiniteSet(X)) /\ N!Cardinality(X) = Cardinality(X)
<1>1. N!IsFiniteSet(X) <=> IsFiniteSet(X)
  BY DEF N!IsFiniteSet, IsFiniteSet
<1>2. N!Cardinality(X) = Cardinality(X)
  BY DEF N!Cardinality, Cardinality
<1> QED BY <1>1, <1>2

LEMMA NewsFinite ==
    ASSUME N!NoticeAssumption
    PROVE  IsFiniteSet(Workers) /\ IsFiniteSet(Recipients) /\ Cardinality(Recipients) \in Nat
           /\ Files \cap Answers = {} /\ NewsTime \in Nat \ {0}
BY NewsSets, FS_CardinalityType DEF N!NoticeAssumption

-----------------------------------------------------------------------------
(* Reviews: the invariant *)

Mailing(w, u) == asking[w].pc = "count" /\ asking[w].user = {u}

\* The workers that have the account on their list, and those of them that
\* have not mailed it yet.
Holders(u) == {w \in Workers : u \in asking[w].list}
Unmailed(u) == {w \in Workers : u \in asking[w].list /\ asking[w].user # {u}}

InviteType == [made : BOOLEAN, count : Nat, last : Nat, clicked : BOOLEAN, declined : BOOLEAN]
TaskType == [pc : {"idle", "next", "count"}, list : SUBSET People, user : SUBSET People,
             count : Nat, stopped : SUBSET People]

ReviewsTyped ==
    /\ day \in Nat /\ 1 <= day /\ breaks \in Nat
    /\ invite \in [People -> InviteType]
    /\ asking \in [Workers -> TaskType]
    /\ asked \in [People -> Seq(Nat)]
    /\ doubled \in [People -> Nat]
    /\ opened \in SUBSET People

\* A list holds nobody who had said no.
ListOk(w) ==
    /\ asking[w].pc = "idle" => asking[w] = V!NoTask
    /\ asking[w].pc = "next" => asking[w].user = {}
    /\ asking[w].pc = "count" => \E u \in asking[w].list : asking[w].user = {u}
    /\ asking[w].list \cap asking[w].stopped = {}

\* A row comes before its link.
RowOk(u) ==
    /\ u \in opened \/ asked[u] # <<>> \/ invite[u].clicked \/ invite[u].declined => invite[u].made
    /\ ~invite[u].made => invite[u].count = 0 /\ invite[u].last = 0

\* The emails sent and those still to be sent, but for those of shared lists
\* and of killed workers.
Emails(u) == Len(asked[u]) + Cardinality(Unmailed(u)) - breaks - doubled[u]

\* They are those counted, and one more while the first of a day's workers is
\* at it.  What a worker will count is enough, also when another counted
\* meanwhile.
CountOk(u) ==
    /\ Emails(u) <= V!MaxEmails
    /\ Emails(u) <= invite[u].count + 1
    /\ Holders(u) = {} \/ invite[u].last = day => Emails(u) <= invite[u].count
    /\ \A w \in Workers : Mailing(w, u) => Emails(u) <= asking[w].count + 1

LastEmail(u) == asked[u][Len(asked[u])]

\* Two workers have an account on their lists only if the second one read it
\* meanwhile.
SharedOk(u) == \A v, w \in Holders(u) : v # w => doubled[u] > 0

\* Without killed workers the last email is the one the row tells of, or one
\* of a worker still at it.
SpacedOk(u) ==
    /\ \A w \in Workers : Mailing(w, u) => asked[u] # <<>> /\ LastEmail(u) = day
    /\ breaks = 0 /\ asked[u] # <<>> =>
        /\ Holders(u) = {} => LastEmail(u) = invite[u].last
        /\ Holders(u) # {} => LastEmail(u) = day \/ LastEmail(u) + V!AgainAfter <= day
        /\ LastEmail(u) = day /\ Unmailed(u) # {} => doubled[u] > 0
    /\ breaks = 0 => \A i \in 1..(Len(asked[u]) - 1) :
            \/ asked[u][i] + V!AgainAfter <= asked[u][i + 1]
            \/ asked[u][i] = asked[u][i + 1] /\ doubled[u] > 0

ReviewsInv ==
    /\ ReviewsTyped /\ pushed = {}
    /\ \A w \in Workers : ListOk(w)
    /\ \A u \in People : RowOk(u) /\ CountOk(u) /\ SharedOk(u) /\ SpacedOk(u)

(* Reviews: the steps *)

LEMMA ReviewsFinite ==
    ASSUME N!NoticeAssumption, NEW u
    PROVE  /\ IsFiniteSet(Holders(u)) /\ Cardinality(Holders(u)) \in Nat
           /\ IsFiniteSet(Unmailed(u)) /\ Cardinality(Unmailed(u)) \in Nat
BY NewsFinite, FS_Subset, FS_CardinalityType DEF Holders, Unmailed

\* What the invariant says of an account, with its types.
LEMMA ReviewsOf ==
    ASSUME N!NoticeAssumption, ReviewsInv, NEW u \in People
    PROVE  /\ RowOk(u) /\ CountOk(u) /\ SharedOk(u) /\ SpacedOk(u)
           /\ invite[u] \in InviteType /\ invite[u].count \in Nat /\ invite[u].last \in Nat
           /\ asked[u] \in Seq(Nat) /\ Len(asked[u]) \in Nat
           /\ doubled[u] \in Nat /\ breaks \in Nat /\ day \in Nat /\ 1 <= day
           /\ Emails(u) \in Int
           /\ \A w \in Workers : asking[w] \in TaskType /\ asking[w].count \in Nat /\ ListOk(w)
           /\ \A w \in Workers : Mailing(w, u) => w \in Holders(u) /\ w \notin Unmailed(u)
<1>1. /\ RowOk(u) /\ CountOk(u) /\ SharedOk(u) /\ SpacedOk(u)
      /\ invite[u] \in InviteType /\ asked[u] \in Seq(Nat) /\ doubled[u] \in Nat
      /\ breaks \in Nat /\ day \in Nat /\ 1 <= day
      /\ \A w \in Workers : asking[w] \in TaskType /\ ListOk(w)
  BY DEF ReviewsInv, ReviewsTyped
<1>2. Len(asked[u]) \in Nat /\ Cardinality(Unmailed(u)) \in Nat
  BY <1>1, ReviewsFinite
<1>3. Emails(u) \in Int
  BY <1>1, <1>2 DEF Emails
<1>4. ASSUME NEW w \in Workers, Mailing(w, u) PROVE w \in Holders(u) /\ w \notin Unmailed(u)
  BY <1>1, <1>4 DEF Mailing, ListOk, Holders, Unmailed
<1> QED BY <1>1, <1>2, <1>3, <1>4 DEF InviteType, TaskType

LEMMA ReviewsBegin ==
    ASSUME N!NoticeAssumption, ReviewsInv, NEW w \in Workers, V!Begin(w)
    PROVE  ReviewsInv'
<1> DEFINE list == {u \in People : V!ToAsk(u)}
           stopped == {u \in People : invite[u].clicked \/ invite[u].declined}
           new == [pc |-> "next", list |-> list, user |-> {}, count |-> 0, stopped |-> stopped]
<1>1. /\ asking[w] = V!NoTask
      /\ asking' = [asking EXCEPT ![w] = new]
      /\ doubled' = [u \in People |-> IF u \in list /\ V!OnList(u) THEN doubled[u] + 1
                                      ELSE doubled[u]]
      /\ UNCHANGED <<day, invite, opened, asked, pushed, breaks>>
  BY DEF V!Begin
<1>2. new \in TaskType
  BY DEF TaskType
<1>3. /\ asking' \in [Workers -> TaskType] /\ asking'[w] = new
      /\ \A x \in Workers : x # w => asking'[x] = asking[x]
  BY <1>1, <1>2 DEF ReviewsInv, ReviewsTyped
<1> HIDE DEF list, stopped
<1>4. ReviewsTyped'
  BY <1>1, <1>3 DEF ReviewsInv, ReviewsTyped
<1>5. ASSUME NEW x \in Workers PROVE ListOk(x)'
  <2>1. CASE x = w
    <3>1. ASSUME NEW u \in list PROVE u \notin stopped
      <4>1. u \in People /\ V!ToAsk(u)
        BY DEF list
      <4> QED BY <4>1, ReviewsOf DEF V!ToAsk, RowOk, stopped
    <3> QED BY <1>3, <2>1, <3>1 DEF ListOk
  <2>2. CASE x # w
    BY <1>3, <2>2 DEF ReviewsInv, ListOk
  <2> QED BY <2>1, <2>2
<1>6. ASSUME NEW u \in People
      PROVE  RowOk(u)' /\ CountOk(u)' /\ SharedOk(u)' /\ SpacedOk(u)'
  <2>1. \A x \in Workers : Mailing(x, u)' <=> Mailing(x, u) /\ x # w
    BY <1>3 DEF Mailing
  <2>2. w \notin Holders(u) /\ w \notin Unmailed(u)
    BY <1>1 DEF Holders, Unmailed, V!NoTask
  <2>3. RowOk(u)'
    BY <1>1, ReviewsOf DEF RowOk
  <2>4. V!OnList(u) <=> Holders(u) # {}
    BY DEF V!OnList, Holders
  <2>5. CASE u \notin list
    <3>1. Holders(u)' = Holders(u) /\ Unmailed(u)' = Unmailed(u)
      BY <1>3, <2>2, <2>5 DEF Holders, Unmailed
    <3>2. doubled'[u] = doubled[u] /\ Emails(u)' = Emails(u)
      BY <1>1, <2>5, <3>1 DEF Emails
    <3>3. ASSUME NEW x \in Workers, Mailing(x, u)' PROVE Mailing(x, u) /\ asking'[x] = asking[x]
      BY <1>3, <2>1, <3>3
    <3> QED BY <1>1, <2>3, <3>1, <3>2, <3>3, ReviewsOf DEF CountOk, SharedOk, SpacedOk, LastEmail
  <2>6. CASE u \in list
    <3>1. V!ToAsk(u)
      BY <2>6 DEF list
    <3>2. /\ invite[u].last # day /\ invite[u].count < 2
          /\ asked[u] # <<>> => invite[u].last + V!AgainAfter <= day
          /\ ~invite[u].made => invite[u].count = 0
      BY <3>1, ReviewsOf DEF V!ToAsk, RowOk, V!AgainAfter, V!MaxEmails
    <3>3. /\ Unmailed(u)' = Unmailed(u) \cup {w} /\ Holders(u)' = Holders(u) \cup {w}
      BY <1>3, <2>6 DEF Unmailed, Holders
    <3>4. Cardinality(Unmailed(u)') = Cardinality(Unmailed(u)) + 1
      BY <2>2, <3>3, ReviewsFinite, FS_AddElement
    <3>5. ASSUME NEW x \in Workers, Mailing(x, u)'
          PROVE  Mailing(x, u) /\ asking'[x] = asking[x] /\ x \in Holders(u)
      BY <1>3, <2>1, <3>5, ReviewsOf
    <3>6. CASE V!OnList(u)
      <4>1. doubled'[u] = doubled[u] + 1 /\ asked' = asked /\ breaks' = breaks
        BY <1>1, <2>6, <3>6
      <4>2. Emails(u)' = Emails(u) /\ doubled'[u] > 0
        <5>1. /\ Len(asked[u]) \in Nat /\ doubled[u] \in Nat /\ breaks \in Nat
              /\ Cardinality(Unmailed(u)) \in Nat
          BY ReviewsOf, ReviewsFinite
        <5>2. Emails(u)' = Len(asked[u]) + (Cardinality(Unmailed(u)) + 1) - breaks
                              - (doubled[u] + 1)
          BY <3>4, <4>1 DEF Emails
        <5> QED BY <4>1, <5>1, <5>2 DEF Emails
      <4>3. CountOk(u)'
        BY <1>1, <3>2, <3>3, <3>5, <4>2, ReviewsOf DEF CountOk
      <4>4. SharedOk(u)'
        BY <4>2 DEF SharedOk
      <4>5. SpacedOk(u)'
        BY <1>1, <2>4, <3>3, <3>5, <3>6, <4>2, ReviewsOf DEF SpacedOk, LastEmail
      <4> QED BY <2>3, <4>3, <4>4, <4>5
    <3>7. CASE ~V!OnList(u)
      <4>1. doubled'[u] = doubled[u] /\ asked' = asked /\ breaks' = breaks /\ Holders(u) = {}
        BY <1>1, <2>4, <2>6, <3>7
      <4>2. Emails(u)' = Emails(u) + 1
        BY <3>4, <4>1, ReviewsOf, ReviewsFinite DEF Emails
      <4>3. Emails(u) <= invite[u].count
        BY <4>1, ReviewsOf DEF CountOk
      <4>4. CountOk(u)'
        BY <1>1, <3>2, <3>3, <3>5, <4>1, <4>2, <4>3, ReviewsOf DEF CountOk, V!MaxEmails
      <4>5. SharedOk(u)'
        BY <3>3, <4>1 DEF SharedOk
      <4>6. SpacedOk(u)'
        <5>1. ASSUME breaks = 0, asked[u] # <<>>
              PROVE  LastEmail(u) + V!AgainAfter <= day /\ LastEmail(u) # day
          BY <3>2, <4>1, <5>1, ReviewsOf DEF SpacedOk, V!AgainAfter
        <5> QED BY <1>1, <3>3, <3>5, <4>1, <5>1, ReviewsOf DEF SpacedOk, LastEmail
      <4> QED BY <2>3, <4>4, <4>5, <4>6
    <3> QED BY <3>6, <3>7
  <2> QED BY <2>5, <2>6
<1> QED BY <1>1, <1>4, <1>5, <1>6 DEF ReviewsInv

LEMMA ReviewsMail ==
    ASSUME N!NoticeAssumption, ReviewsInv, NEW w \in Workers, NEW v \in People, V!Mail(w, v)
    PROVE  ReviewsInv'
<1>1. /\ asking[w].pc = "next" /\ v \in asking[w].list
      /\ invite' = [invite EXCEPT ![v].made = TRUE]
      /\ opened' = opened \cup {v}
      /\ asked' = [asked EXCEPT ![v] = Append(asked[v], day)]
      /\ pushed' = pushed \cup ({v} \cap asking[w].stopped)
      /\ asking' = [asking EXCEPT ![w] = [asking[w] EXCEPT !.pc = "count", !.user = {v},
                                                           !.count = invite[v].count]]
      /\ UNCHANGED <<day, doubled, breaks>>
  BY DEF V!Mail
<1>2. /\ asking[w] \in TaskType /\ ListOk(w) /\ invite[v] \in InviteType
      /\ invite[v].count \in Nat
  BY ReviewsOf
<1>3. [asking[w] EXCEPT !.pc = "count", !.user = {v}, !.count = invite[v].count] \in TaskType
  BY <1>2 DEF TaskType
<1>4. /\ asking' \in [Workers -> TaskType]
      /\ asking'[w].pc = "count" /\ asking'[w].user = {v} /\ asking'[w].list = asking[w].list
      /\ asking'[w].count = invite[v].count /\ asking'[w].stopped = asking[w].stopped
      /\ \A x \in Workers : x # w => asking'[x] = asking[x]
      /\ asking[w].user = {}
  BY <1>1, <1>2, <1>3 DEF ReviewsInv, ReviewsTyped, TaskType, ListOk
<1>5. /\ invite' \in [People -> InviteType]
      /\ \A u \in People : u # v => invite'[u] = invite[u]
      /\ invite'[v] = [invite[v] EXCEPT !.made = TRUE]
  BY <1>1, <1>2 DEF ReviewsInv, ReviewsTyped, InviteType
<1>6. asked' \in [People -> Seq(Nat)] /\ asked'[v] = Append(asked[v], day)
      /\ \A u \in People : u # v => asked'[u] = asked[u]
  BY <1>1 DEF ReviewsInv, ReviewsTyped
<1>7. ReviewsTyped' /\ pushed' = {}
  BY <1>1, <1>2, <1>4, <1>5, <1>6 DEF ReviewsInv, ReviewsTyped, ListOk
<1>8. ASSUME NEW x \in Workers PROVE ListOk(x)'
  <2>1. CASE x = w
    BY <1>1, <1>2, <1>4, <2>1 DEF ListOk
  <2>2. CASE x # w
    BY <1>4, <2>2 DEF ReviewsInv, ListOk
  <2> QED BY <2>1, <2>2
<1>9. ASSUME NEW u \in People
      PROVE  RowOk(u)' /\ CountOk(u)' /\ SharedOk(u)' /\ SpacedOk(u)'
  <2>1. Holders(u)' = Holders(u)
    BY <1>4 DEF Holders
  <2>2. SharedOk(u)'
    BY <1>1, <2>1, ReviewsOf DEF SharedOk
  <2>3. CASE u # v
    <3>1. Unmailed(u)' = Unmailed(u)
      BY <1>4, <2>3 DEF Unmailed
    <3>2. /\ asked'[u] = asked[u] /\ invite'[u] = invite[u] /\ (u \in opened' <=> u \in opened)
          /\ doubled' = doubled /\ breaks' = breaks /\ day' = day
      BY <1>1, <1>5, <1>6, <2>3
    <3>3. Emails(u)' = Emails(u)
      BY <3>1, <3>2 DEF Emails
    <3>4. ASSUME NEW x \in Workers, Mailing(x, u)' PROVE Mailing(x, u) /\ asking'[x] = asking[x]
      BY <1>4, <2>3, <3>4 DEF Mailing
    <3>5. RowOk(u)' /\ CountOk(u)'
      BY <2>1, <3>2, <3>3, <3>4, ReviewsOf DEF RowOk, CountOk
    <3>6. SpacedOk(u)'
      BY <2>1, <3>1, <3>2, <3>4, ReviewsOf DEF SpacedOk, LastEmail
    <3> QED BY <2>2, <3>5, <3>6
  <2>4. CASE u = v
    <3>1. /\ Unmailed(u)' = Unmailed(u) \ {w} /\ w \in Unmailed(u) /\ w \in Holders(u)
      BY <1>1, <1>4, <2>4 DEF Unmailed, Holders
    <3>2. Cardinality(Unmailed(u)') = Cardinality(Unmailed(u)) - 1
      BY <3>1, ReviewsFinite, FS_RemoveElement
    <3>3. /\ asked'[u] = Append(asked[u], day) /\ Len(asked'[u]) = Len(asked[u]) + 1
          /\ asked'[u] # <<>> /\ LastEmail(u)' = day
          /\ \A i \in 1..Len(asked[u]) : asked'[u][i] = asked[u][i]
      BY <1>6, <2>4, ReviewsOf DEF LastEmail
    <3>4. Emails(u)' = Emails(u)
      <4>1. /\ Len(asked[u]) \in Nat /\ doubled[u] \in Nat /\ breaks \in Nat
            /\ Cardinality(Unmailed(u)) \in Nat
        BY ReviewsOf, ReviewsFinite
      <4>2. /\ doubled'[u] = doubled[u] /\ breaks' = breaks
            /\ Len(asked'[u]) = Len(asked[u]) + 1
        BY <1>1, <3>3
      <4>3. Emails(u)' = (Len(asked[u]) + 1) + (Cardinality(Unmailed(u)) - 1) - breaks - doubled[u]
        BY <3>2, <4>2 DEF Emails
      <4> QED BY <4>1, <4>3 DEF Emails
    <3>5. /\ invite'[u].made /\ invite'[u].count = invite[u].count
          /\ invite'[u].last = invite[u].last
      BY <1>2, <1>5, <2>4 DEF InviteType
    <3>6. RowOk(u)'
      BY <3>5 DEF RowOk
    <3>7. CountOk(u)'
      <4>1. ASSUME NEW x \in Workers, Mailing(x, u)' PROVE Emails(u) <= asking'[x].count + 1
        <5>1. CASE x = w
          BY <1>4, <2>4, <5>1, ReviewsOf DEF CountOk
        <5>2. CASE x # w
          <6>1. Mailing(x, u) /\ asking'[x] = asking[x]
            BY <1>4, <4>1, <5>2 DEF Mailing
          <6> QED BY <6>1, ReviewsOf DEF CountOk
        <5> QED BY <5>1, <5>2
      <4> QED BY <1>1, <2>1, <3>4, <3>5, <4>1, ReviewsOf DEF CountOk
    <3>8. SpacedOk(u)'
      <4>1. breaks = 0 => \A i \in 1..Len(asked[u]) :
                \/ asked'[u][i] + V!AgainAfter <= asked'[u][i + 1]
                \/ asked'[u][i] = asked'[u][i + 1] /\ doubled[u] > 0
        <5> SUFFICES ASSUME breaks = 0, NEW i \in 1..Len(asked[u])
                     PROVE  \/ asked'[u][i] + V!AgainAfter <= asked'[u][i + 1]
                            \/ asked'[u][i] = asked'[u][i + 1] /\ doubled[u] > 0
          OBVIOUS
        <5>1. CASE i = Len(asked[u])
          <6>1. /\ asked'[u][i] = LastEmail(u) /\ asked'[u][i + 1] = day /\ asked[u] # <<>>
            BY <3>3, <5>1, ReviewsOf DEF LastEmail
          <6>2. \/ LastEmail(u) + V!AgainAfter <= day
                \/ LastEmail(u) = day /\ doubled[u] > 0
            BY <3>1, <6>1, ReviewsOf DEF SpacedOk
          <6> QED BY <6>1, <6>2
        <5>2. CASE i # Len(asked[u])
          <6>1. i \in 1..(Len(asked[u]) - 1) /\ i + 1 \in 1..Len(asked[u])
            BY <5>2, ReviewsOf
          <6>2. asked'[u][i] = asked[u][i] /\ asked'[u][i + 1] = asked[u][i + 1]
            BY <3>3, <6>1
          <6> QED BY <6>1, <6>2, ReviewsOf DEF SpacedOk
        <5> QED BY <5>1, <5>2
      <4>2. Unmailed(u)' # {} => doubled[u] > 0
        <5> SUFFICES ASSUME NEW x \in Unmailed(u)' PROVE doubled[u] > 0
          OBVIOUS
        <5>1. x \in Holders(u) /\ x # w
          BY <3>1 DEF Unmailed, Holders
        <5> QED BY <3>1, <5>1, ReviewsOf DEF SharedOk
      <4>3. Len(asked'[u]) - 1 = Len(asked[u])
        BY <3>3, ReviewsOf
      <4>4. Holders(u)' # {}
        BY <2>1, <3>1
      <4>5. ASSUME NEW x \in Workers, Mailing(x, u)' PROVE asked'[u] # <<>> /\ LastEmail(u)' = day
        BY <3>3
      <4> QED BY <1>1, <3>3, <4>1, <4>2, <4>3, <4>4, <4>5 DEF SpacedOk
    <3> QED BY <2>2, <3>6, <3>7, <3>8
  <2> QED BY <2>3, <2>4
<1> QED BY <1>7, <1>8, <1>9 DEF ReviewsInv

LEMMA ReviewsCount ==
    ASSUME N!NoticeAssumption, ReviewsInv, NEW w \in Workers, NEW v \in People, V!Count(w, v)
    PROVE  ReviewsInv'
<1> DEFINE left == asking[w].list \ {v}
<1>1. /\ Mailing(w, v)
      /\ invite' = [invite EXCEPT ![v] = [invite[v] EXCEPT !.count = asking[w].count + 1,
                                                           !.last = day]]
      /\ asking' = [asking EXCEPT ![w] =
                      IF left = {} THEN V!NoTask
                      ELSE [asking[w] EXCEPT !.pc = "next", !.list = left,
                                             !.user = {}, !.count = 0]]
      /\ UNCHANGED <<day, opened, asked, doubled, pushed, breaks>>
  <2>1. Mailing(w, v) /\ UNCHANGED <<day, opened, asked, doubled, pushed, breaks>>
    BY DEF V!Count, Mailing
  <2>2. invite' = [invite EXCEPT ![v] = [invite[v] EXCEPT !.count = asking[w].count + 1,
                                                          !.last = day]]
    BY DEF V!Count
  <2>3. asking' = [asking EXCEPT ![w] =
                      IF left = {} THEN V!NoTask
                      ELSE [asking[w] EXCEPT !.pc = "next", !.list = left,
                                             !.user = {}, !.count = 0]]
    BY DEF V!Count
  <2> QED BY <2>1, <2>2, <2>3
<1>2. /\ asking[w] \in TaskType /\ ListOk(w) /\ invite[v] \in InviteType
      /\ asking[w].count \in Nat /\ day \in Nat
      /\ w \in Holders(v) /\ w \notin Unmailed(v) /\ asking[w].user = {v}
  BY <1>1, ReviewsOf DEF Mailing
<1>3. V!NoTask \in TaskType
      /\ [asking[w] EXCEPT !.pc = "next", !.list = left, !.user = {},
                           !.count = 0] \in TaskType
  BY <1>2 DEF TaskType, V!NoTask
<1>4. /\ asking' \in [Workers -> TaskType]
      /\ asking'[w].list = asking[w].list \ {v} /\ asking'[w].user = {}
      /\ asking'[w].stopped \subseteq asking[w].stopped
      /\ asking'[w].pc # "count" /\ (asking'[w].pc = "idle" => asking'[w] = V!NoTask)
      /\ \A x \in Workers : x # w => asking'[x] = asking[x]
  <2>1. CASE left = {}
    BY <1>1, <1>3, <2>1 DEF ReviewsInv, ReviewsTyped, V!NoTask
  <2>2. CASE left # {}
    BY <1>1, <1>2, <1>3, <2>2 DEF ReviewsInv, ReviewsTyped, TaskType
  <2> QED BY <2>1, <2>2
<1>5. [invite[v] EXCEPT !.count = asking[w].count + 1, !.last = day] \in InviteType
  <2>1. asking[w].count + 1 \in Nat
    BY <1>2
  <2> QED BY <1>2, <2>1 DEF InviteType
<1>6. /\ invite' \in [People -> InviteType]
      /\ \A u \in People : u # v => invite'[u] = invite[u]
      /\ invite'[v].made = invite[v].made /\ invite'[v].count = asking[w].count + 1
      /\ invite'[v].last = day
  BY <1>1, <1>2, <1>5 DEF ReviewsInv, ReviewsTyped, InviteType
<1>7. ReviewsTyped'
  BY <1>1, <1>4, <1>6 DEF ReviewsInv, ReviewsTyped
<1>8. ASSUME NEW x \in Workers PROVE ListOk(x)'
  <2>1. CASE x = w
    BY <1>2, <1>4, <2>1 DEF ListOk
  <2>2. CASE x # w
    BY <1>4, <2>2 DEF ReviewsInv, ListOk
  <2> QED BY <2>1, <2>2
<1>9. ASSUME NEW u \in People
      PROVE  RowOk(u)' /\ CountOk(u)' /\ SharedOk(u)' /\ SpacedOk(u)'
  <2>1. Unmailed(u)' = Unmailed(u) /\ Holders(u)' \subseteq Holders(u)
    BY <1>2, <1>4 DEF Unmailed, Holders
  <2>2. SharedOk(u)'
    BY <1>1, <2>1, ReviewsOf DEF SharedOk
  <2>3. Emails(u)' = Emails(u)
    BY <1>1, <2>1 DEF Emails
  <2>4. ASSUME NEW x \in Workers, Mailing(x, u)' PROVE Mailing(x, u) /\ asking'[x] = asking[x]
    BY <1>4, <2>4 DEF Mailing
  <2>5. CASE u # v
    <3>1. Holders(u)' = Holders(u)
      BY <1>4, <2>5 DEF Holders
    <3>2. invite'[u] = invite[u]
      BY <1>6, <2>5
    <3>3. RowOk(u)' /\ CountOk(u)'
      BY <1>1, <2>3, <2>4, <3>1, <3>2, ReviewsOf DEF RowOk, CountOk
    <3>4. SpacedOk(u)'
      BY <1>1, <2>1, <2>4, <3>1, <3>2, ReviewsOf DEF SpacedOk, LastEmail
    <3> QED BY <2>2, <3>3, <3>4
  <2>6. CASE u = v
    <3>1. /\ asked[u] # <<>> /\ LastEmail(u) = day /\ invite[u].made
          /\ Emails(u) <= asking[w].count + 1
      BY <1>1, <2>6, ReviewsOf DEF SpacedOk, CountOk, RowOk
    <3>2. RowOk(u)'
      BY <1>6, <2>6, <3>1 DEF RowOk
    <3>3. CountOk(u)'
      <4>1. /\ Emails(u) \in Int /\ Emails(u) <= V!MaxEmails
            /\ \A x \in Workers : Mailing(x, u) => Emails(u) <= asking[x].count + 1
        BY ReviewsOf DEF CountOk
      <4>2. invite'[u].count = asking[w].count + 1
        BY <1>6, <2>6
      <4>3. \A x \in Workers : Mailing(x, u)' => Emails(u)' <= asking'[x].count + 1
        BY <2>3, <2>4, <4>1
      <4>4. /\ Emails(u)' <= V!MaxEmails /\ Emails(u)' <= invite'[u].count
            /\ Emails(u)' <= invite'[u].count + 1
        BY <1>2, <2>3, <3>1, <4>1, <4>2
      <4> QED BY <4>3, <4>4 DEF CountOk
    <3>4. SpacedOk(u)'
      BY <1>1, <1>2, <1>6, <2>1, <2>4, <2>6, <3>1, ReviewsOf DEF SpacedOk, LastEmail
    <3> QED BY <2>2, <3>2, <3>3, <3>4
  <2> QED BY <2>5, <2>6
<1> QED BY <1>1, <1>7, <1>8, <1>9 DEF ReviewsInv

LEMMA ReviewsCrash ==
    ASSUME N!NoticeAssumption, ReviewsInv, NEW w \in Workers, V!Crash(w)
    PROVE  ReviewsInv'
<1>1. /\ breaks' = breaks + 1 /\ asking' = [asking EXCEPT ![w] = V!NoTask]
      /\ UNCHANGED <<day, invite, opened, asked, doubled, pushed>>
  BY DEF V!Crash
<1>2. /\ asking' \in [Workers -> TaskType] /\ asking'[w] = V!NoTask
      /\ \A x \in Workers : x # w => asking'[x] = asking[x]
      /\ V!NoTask.list = {} /\ V!NoTask.pc = "idle"
  BY <1>1 DEF ReviewsInv, ReviewsTyped, V!NoTask, TaskType
<1>3. ReviewsTyped'
  BY <1>1, <1>2 DEF ReviewsInv, ReviewsTyped
<1>4. ASSUME NEW x \in Workers PROVE ListOk(x)'
  BY <1>2 DEF ReviewsInv, ListOk
<1>5. ASSUME NEW u \in People
      PROVE  RowOk(u)' /\ CountOk(u)' /\ SharedOk(u)' /\ SpacedOk(u)'
  <2>1. Unmailed(u)' \subseteq Unmailed(u) /\ Holders(u)' \subseteq Holders(u)
    BY <1>2 DEF Unmailed, Holders
  <2>2. Cardinality(Unmailed(u)') <= Cardinality(Unmailed(u)) /\ Cardinality(Unmailed(u)') \in Nat
    BY <2>1, ReviewsFinite, FS_Subset, FS_CardinalityType
  <2>3. Emails(u)' \in Int /\ Emails(u)' <= Emails(u) - 1
    BY <1>1, <2>2, ReviewsOf, ReviewsFinite DEF Emails
  <2>4. ASSUME NEW x \in Workers, Mailing(x, u)' PROVE Mailing(x, u) /\ asking'[x] = asking[x]
    BY <1>2, <2>4 DEF Mailing
  <2>5. RowOk(u)' /\ SharedOk(u)'
    BY <1>1, <2>1, ReviewsOf DEF RowOk, SharedOk
  <2>6. CountOk(u)'
    BY <1>1, <2>3, <2>4, ReviewsOf DEF CountOk, V!MaxEmails
  <2>7. SpacedOk(u)'
    <3>1. breaks' # 0
      BY <1>1, ReviewsOf
    <3> QED BY <1>1, <2>4, <3>1, ReviewsOf DEF SpacedOk, LastEmail
  <2> QED BY <2>5, <2>6, <2>7
<1> QED BY <1>1, <1>3, <1>4, <1>5 DEF ReviewsInv

LEMMA ReviewsLink ==
    ASSUME N!NoticeAssumption, ReviewsInv, NEW v \in People, V!Click(v) \/ V!Decline(v)
    PROVE  ReviewsInv'
<1>1. /\ v \in opened
      /\ \/ invite' = [invite EXCEPT ![v].clicked = TRUE]
         \/ invite' = [invite EXCEPT ![v].declined = TRUE]
      /\ UNCHANGED <<day, asking, opened, asked, doubled, pushed, breaks>>
  BY DEF V!Click, V!Decline
<1>2. invite[v] \in InviteType
  BY DEF ReviewsInv, ReviewsTyped
<1>3. /\ [invite[v] EXCEPT !.clicked = TRUE] \in InviteType
      /\ [invite[v] EXCEPT !.declined = TRUE] \in InviteType
  BY <1>2 DEF InviteType
<1>4. ReviewsTyped'
  BY <1>1, <1>3 DEF ReviewsInv, ReviewsTyped
<1>5. ASSUME NEW u \in People
      PROVE  /\ invite'[u].made = invite[u].made /\ invite'[u].count = invite[u].count
             /\ invite'[u].last = invite[u].last
             /\ u # v => invite'[u] = invite[u]
  BY <1>1, <1>2 DEF ReviewsInv, ReviewsTyped, InviteType
<1>6. ASSUME NEW u \in People
      PROVE  RowOk(u)' /\ CountOk(u)' /\ SharedOk(u)' /\ SpacedOk(u)'
  <2>1. Emails(u)' = Emails(u) /\ Holders(u)' = Holders(u) /\ Unmailed(u)' = Unmailed(u)
        /\ \A w \in Workers : Mailing(w, u)' <=> Mailing(w, u)
    BY <1>1 DEF Emails, Holders, Unmailed, Mailing
  <2>2. RowOk(u)'
    BY <1>1, <1>5, ReviewsOf DEF RowOk
  <2>3. CountOk(u)'
    BY <1>1, <1>5, <2>1, ReviewsOf DEF CountOk
  <2>4. SharedOk(u)'
    BY <1>1, <2>1, ReviewsOf DEF SharedOk
  <2>5. SpacedOk(u)'
    BY <1>1, <1>5, <2>1, ReviewsOf DEF SpacedOk, LastEmail
  <2> QED BY <2>2, <2>3, <2>4, <2>5
<1>7. \A w \in Workers : ListOk(w)'
  BY <1>1 DEF ReviewsInv, ListOk
<1> QED BY <1>1, <1>4, <1>6, <1>7 DEF ReviewsInv

LEMMA ReviewsTick == ASSUME N!NoticeAssumption, ReviewsInv, V!Tick PROVE ReviewsInv'
<1>1. /\ \A w \in Workers : asking[w] = V!NoTask
      /\ day' = day + 1
      /\ UNCHANGED <<invite, asking, opened, asked, doubled, pushed, breaks>>
  BY DEF V!Tick
<1>2. ReviewsTyped' /\ \A w \in Workers : ListOk(w)'
  BY <1>1 DEF ReviewsInv, ReviewsTyped, ListOk
<1>3. ASSUME NEW u \in People
      PROVE  RowOk(u)' /\ CountOk(u)' /\ SharedOk(u)' /\ SpacedOk(u)'
  <2>1. /\ Holders(u) = {} /\ Holders(u)' = {} /\ Unmailed(u)' = Unmailed(u)
        /\ \A w \in Workers : ~Mailing(w, u) /\ ~Mailing(w, u)'
    BY <1>1 DEF Holders, Unmailed, Mailing, V!NoTask
  <2>2. Emails(u)' = Emails(u)
    BY <1>1, <2>1 DEF Emails
  <2>3. RowOk(u)' /\ CountOk(u)' /\ SharedOk(u)'
    BY <1>1, <2>1, <2>2, ReviewsOf DEF RowOk, CountOk, SharedOk
  <2>4. SpacedOk(u)'
    <3>1. Unmailed(u)' = {}
      BY <2>1 DEF Unmailed, Holders
    <3> QED BY <1>1, <2>1, <3>1, ReviewsOf DEF SpacedOk, LastEmail
  <2> QED BY <2>3, <2>4
<1> QED BY <1>1, <1>2, <1>3 DEF ReviewsInv

LEMMA ReviewsKept ==
    ASSUME ReviewsInv, UNCHANGED <<day, invite, asking, opened, asked, doubled, pushed, breaks>>
    PROVE  ReviewsInv'
<1>1. ReviewsTyped' /\ \A w \in Workers : ListOk(w)'
  BY DEF ReviewsInv, ReviewsTyped, ListOk
<1>2. ASSUME NEW u \in People
      PROVE  RowOk(u)' /\ CountOk(u)' /\ SharedOk(u)' /\ SpacedOk(u)'
  <2>1. Emails(u)' = Emails(u) /\ Holders(u)' = Holders(u) /\ Unmailed(u)' = Unmailed(u)
        /\ \A w \in Workers : Mailing(w, u)' <=> Mailing(w, u)
    BY DEF Emails, Holders, Unmailed, Mailing
  <2>2. RowOk(u) /\ CountOk(u) /\ SharedOk(u) /\ SpacedOk(u)
    BY DEF ReviewsInv
  <2> QED BY <2>1, <2>2 DEF RowOk, CountOk, SharedOk, SpacedOk, LastEmail
<1> QED BY <1>1, <1>2 DEF ReviewsInv

LEMMA ReviewsStep == N!NoticeAssumption /\ ReviewsInv /\ [V!Next]_reviewVars => ReviewsInv'
<1> SUFFICES ASSUME N!NoticeAssumption, ReviewsInv, [V!Next]_reviewVars PROVE ReviewsInv'
  OBVIOUS
<1>1. CASE V!Tick
  BY <1>1, ReviewsTick
<1>2. ASSUME NEW w \in Workers, V!Begin(w) \/ V!Crash(w) PROVE ReviewsInv'
  BY <1>2, ReviewsBegin, ReviewsCrash
<1>3. ASSUME NEW w \in Workers, NEW u \in People, V!Mail(w, u) \/ V!Count(w, u) PROVE ReviewsInv'
  BY <1>3, ReviewsMail, ReviewsCount
<1>4. ASSUME NEW u \in People, V!Click(u) \/ V!Decline(u) PROVE ReviewsInv'
  BY <1>4, ReviewsLink
<1>5. ASSUME NEW u \in People, V!Verify(u) PROVE ReviewsInv'
  BY <1>5, ReviewsKept DEF V!Verify
<1>6. CASE UNCHANGED reviewVars
  BY <1>6, ReviewsKept DEF reviewVars
<1> QED BY <1>1, <1>2, <1>3, <1>4, <1>5, <1>6 DEF V!Next

LEMMA ReviewsInit == V!Init => ReviewsInv
<1> SUFFICES ASSUME V!Init PROVE ReviewsInv
  OBVIOUS
<1>1. /\ day = 1 /\ invite = [u \in People |-> V!NoInvite]
      /\ asking = [w \in Workers |-> V!NoTask] /\ opened = {} /\ pushed = {} /\ breaks = 0
      /\ asked = [u \in People |-> <<>>] /\ doubled = [u \in People |-> 0]
  BY DEF V!Init
<1>2. ReviewsTyped
  BY <1>1 DEF ReviewsTyped, InviteType, TaskType, V!NoInvite, V!NoTask
<1>3. \A w \in Workers : ListOk(w)
  BY <1>1 DEF ListOk, V!NoTask
<1>4. ASSUME NEW u \in People PROVE RowOk(u) /\ CountOk(u) /\ SharedOk(u) /\ SpacedOk(u)
  <2>1. Holders(u) = {} /\ Unmailed(u) = {} /\ \A w \in Workers : ~Mailing(w, u)
    BY <1>1 DEF Holders, Unmailed, Mailing, V!NoTask
  <2>2. Emails(u) = 0
    BY <1>1, <2>1, FS_EmptySet DEF Emails
  <2> QED BY <1>1, <2>1, <2>2
          DEF RowOk, CountOk, SharedOk, SpacedOk, LastEmail, V!NoInvite, V!MaxEmails
<1> QED BY <1>1, <1>2, <1>3, <1>4 DEF ReviewsInv

LEMMA ReviewsPolite == N!NoticeAssumption /\ ReviewsInv => V!AskedPolitely
<1> SUFFICES ASSUME N!NoticeAssumption, ReviewsInv PROVE V!AskedPolitely
  OBVIOUS
<1>1. ASSUME NEW u \in People
      PROVE  /\ Len(asked[u]) <= V!MaxEmails + breaks + doubled[u]
             /\ breaks = 0 => \A i \in 1..(Len(asked[u]) - 1) :
                    \/ asked[u][i] + V!AgainAfter <= asked[u][i + 1]
                    \/ asked[u][i] = asked[u][i + 1] /\ doubled[u] > 0
  <2>1. Len(asked[u]) <= V!MaxEmails + breaks + doubled[u]
    BY ReviewsOf, ReviewsFinite DEF CountOk, Emails, V!MaxEmails
  <2> QED BY <2>1, ReviewsOf DEF SpacedOk
<1> QED BY <1>1 DEF ReviewsInv, V!AskedPolitely

-----------------------------------------------------------------------------
(* Upload notices: the invariant *)

News == N!News

Alive == {n \in News : notice[n].state = "live"}
Asking == {r \in Recipients : rc[r]}

NewsTyped ==
    /\ clock \in Nat /\ komplet \in Nat /\ komplet <= clock /\ 1 <= clock /\ clock <= NewsTime
    /\ notice \in [News -> N!Notice]
    /\ rc \in [Recipients -> BOOLEAN]
    /\ task \in [Workers -> N!Worker]
    /\ told \in [News -> Nat] /\ shared \in [News -> Nat]
    /\ IsFiniteSet(Alive)

\* A notice is inserted once.
NewOk(n) == IF notice[n].state = "new" THEN notice[n] = N!NewNotice ELSE 1 <= notice[n].at

\* A worker that claimed holds notices.
HoldOk(w) == task[w].pc = "send" <=> task[w].mine # {}

\* What a worker read: notices there are, the oldest one's time, and all that
\* is unread.
ReadOk(w) ==
    task[w].pc # "idle" =>
        /\ 1 <= task[w].first
        /\ \E n \in News : notice[n].state # "new" /\ notice[n].at = task[w].first
        /\ \A n \in task[w].list : notice[n].state # "new"
        /\ task[w].unread \subseteq task[w].list
        /\ task[w].mine \subseteq task[w].list
        /\ \A n \in task[w].list : ~notice[n].read => n \in task[w].unread

\* The workers that may still mail a notice they read.
Tellers(n) ==
    {w \in Workers : /\ n \in task[w].list
                     /\ \/ task[w].pc = "send"
                        \/ task[w].pc = "claim" /\ N!ClaimedBy(w) # {}}

\* Those that mailed a claimed notice and those that may are the one that
\* claimed it and those it was shared with; nobody mails it before.
MailedOk(n) == notice[n].emailed => told[n] + Cardinality(Tellers(n)) <= 1 + shared[n]

FreshOk(n) ==
    ~notice[n].emailed /\ notice[n].state # "gone" =>
        /\ told[n] = 0
        /\ \A w \in Workers : task[w].pc = "send" => n \notin task[w].list

\* An answer takes the place of a process that looked.
AnswersOk == Cardinality(N!Waiting) + Cardinality(Asking) <= Cardinality(Recipients)

NewsInv ==
    /\ NewsTyped
    /\ \A n \in News : NewOk(n) /\ MailedOk(n) /\ FreshOk(n)
    /\ \A w \in Workers : HoldOk(w) /\ ReadOk(w)
    /\ AnswersOk /\ N!NewsReachSender

(* Upload notices: the steps *)

LEMMA NewsTellers ==
    ASSUME N!NoticeAssumption, NEW n
    PROVE  IsFiniteSet(Tellers(n)) /\ Cardinality(Tellers(n)) \in Nat
BY NewsFinite, FS_Subset, FS_CardinalityType DEF Tellers

\* With fewer to mail it, and not more that did, it stays so.
LEMMA NewsFewer ==
    ASSUME N!NoticeAssumption, NewsTyped, NewsTyped', NEW n \in News,
           Tellers(n)' \subseteq Tellers(n), told'[n] = told[n], shared'[n] = shared[n],
           notice'[n].emailed => notice[n].emailed, MailedOk(n)
    PROVE  MailedOk(n)'
<1>1. /\ Cardinality(Tellers(n)') <= Cardinality(Tellers(n))
      /\ Cardinality(Tellers(n)') \in Nat /\ Cardinality(Tellers(n)) \in Nat
  BY NewsTellers, FS_Subset, FS_CardinalityType
<1>2. told[n] \in Nat /\ shared[n] \in Nat
  BY DEF NewsTyped
<1> QED BY <1>1, <1>2 DEF MailedOk

\* The parts that see the notices and the workers only through these.
LEMMA NewsRest ==
    ASSUME N!NoticeAssumption, NewsInv, NewsTyped', \A n \in News : NewOk(n)',
           \A n \in News : /\ notice'[n].emailed = notice[n].emailed
                           /\ notice[n].read => notice'[n].read
                           /\ notice[n].state # "new" => /\ notice'[n].state # "new"
                                                         /\ notice'[n].at = notice[n].at
                           /\ notice'[n].state = "live" =>
                                 notice[n].state = "live" \/ notice[n].state = "new"
                           /\ notice[n].state = "gone" => notice'[n].state = "gone"
                           /\ N!Unseen(n)' => N!Unseen(n),
           task' = task, shared' = shared, told' = told, lost' = lost, komplet <= komplet',
           AnswersOk'
    PROVE  NewsInv'
<1>a. task \in [Workers -> N!Worker]
  BY DEF NewsInv, NewsTyped
<1>4. ASSUME NEW w \in Workers PROVE HoldOk(w)' /\ ReadOk(w)'
  <2>1. HoldOk(w) /\ ReadOk(w)
    BY DEF NewsInv
  <2>2. HoldOk(w)'
    BY <2>1 DEF HoldOk
  <2>3. ReadOk(w)'
    <3>1. ASSUME task[w].pc # "idle"
          PROVE  \E n \in News : notice'[n].state # "new" /\ notice'[n].at = task[w].first
      BY <2>1, <3>1 DEF ReadOk
    <3>2. task[w].list \subseteq News
      BY <1>a DEF N!Worker, News
    <3> QED BY <2>1, <3>1, <3>2 DEF ReadOk
  <2> QED BY <2>2, <2>3
<1>5. N!NewsReachSender'
  <2> SUFFICES ASSUME NEW n \in News, N!Unseen(n)'
               PROVE  \/ told'[n] > 0
                      \/ \E m \in News : notice'[m].at \in 1..komplet'
                      \/ n \in lost'
                      \/ N!InHand(n)'
    BY DEF N!NewsReachSender, News
  <2>1. \/ told[n] > 0
        \/ \E m \in News : notice[m].at \in 1..komplet
        \/ n \in lost
        \/ N!InHand(n)
    BY DEF NewsInv, N!NewsReachSender, News
  <2>2. ASSUME NEW m \in News, notice[m].at \in 1..komplet
        PROVE  notice'[m].at \in 1..komplet'
    <3>1. notice[m].state # "new"
      BY <2>2 DEF NewsInv, NewOk, N!NewNotice
    <3> QED BY <2>2, <3>1 DEF NewsInv, NewsTyped
  <2> QED BY <2>1, <2>2 DEF N!InHand
<1>6. ASSUME NEW n \in News PROVE MailedOk(n)' /\ FreshOk(n)'
  <2>1. ASSUME NEW w \in Workers, task[w].pc = "claim"
        PROVE  N!ClaimedBy(w)' \subseteq N!ClaimedBy(w)
    <3>1. /\ task[w].list \subseteq News
          /\ \A m \in task[w].list : notice[m].state # "new"
      BY <1>a, <2>1 DEF NewsInv, ReadOk, N!Worker, News
    <3> QED BY <3>1 DEF N!ClaimedBy, N!Unclaimed, N!Live
  <2>2. Tellers(n)' \subseteq Tellers(n)
    BY <2>1 DEF Tellers
  <2>3. MailedOk(n)'
    BY <2>2, NewsFewer DEF NewsInv
  <2>4. FreshOk(n)'
    BY DEF NewsInv, FreshOk
  <2> QED BY <2>3, <2>4
<1> QED BY <1>4, <1>5, <1>6 DEF NewsInv

LEMMA NewsWaiting ==
    ASSUME N!NoticeAssumption, NewsInv, N!Waiting' \subseteq N!Waiting, rc' = rc
    PROVE  AnswersOk'
<1>1. IsFiniteSet(N!Waiting)
  <2>1. N!Waiting \subseteq Alive
    BY DEF N!Waiting, N!Unclaimed, N!Live, Alive, News, N!News
  <2> QED BY <2>1, FS_Subset DEF NewsInv, NewsTyped
<1>2. /\ Cardinality(N!Waiting') <= Cardinality(N!Waiting)
      /\ Cardinality(N!Waiting) \in Nat /\ Cardinality(N!Waiting') \in Nat
  BY <1>1, FS_Subset, FS_CardinalityType
<1>3. Asking' = Asking /\ Cardinality(Asking) \in Nat /\ Cardinality(Recipients) \in Nat
  BY NewsFinite, FS_Subset, FS_CardinalityType DEF Asking
<1> QED BY <1>2, <1>3 DEF NewsInv, AnswersOk

LEMMA NewsInsert ==
    ASSUME N!NoticeAssumption, NewsInv, NEW n \in News, N!Insert(n), task' = task,
           UNCHANGED <<clock, komplet, told, shared, lost, ends>>, rc' \in [Recipients -> BOOLEAN],
           AnswersOk'
    PROVE  NewsInv'
<1>1. /\ notice[n].state = "new" /\ notice[n] = N!NewNotice /\ notice[n] \in N!Notice
      /\ notice' = [notice EXCEPT ![n] = [notice[n] EXCEPT !.state = "live", !.at = clock]]
  BY DEF N!Insert, NewsInv, NewOk, NewsTyped, News
<1>2. /\ notice'[n].state = "live" /\ notice'[n].at = clock
      /\ ~notice'[n].emailed /\ ~notice'[n].read
      /\ \A m \in News : m # n => notice'[m] = notice[m]
      /\ notice' \in [News -> N!Notice]
  <2>1. notice \in [News -> N!Notice] /\ clock \in 0..NewsTime
    BY NewsFinite DEF NewsInv, NewsTyped
  <2>2. /\ [notice[n] EXCEPT !.state = "live", !.at = clock] \in N!Notice
        /\ [notice[n] EXCEPT !.state = "live", !.at = clock].state = "live"
        /\ [notice[n] EXCEPT !.state = "live", !.at = clock].at = clock
        /\ [notice[n] EXCEPT !.state = "live", !.at = clock].emailed = notice[n].emailed
        /\ [notice[n] EXCEPT !.state = "live", !.at = clock].read = notice[n].read
    BY <1>1, <2>1 DEF N!Notice
  <2>3. ~notice[n].emailed /\ ~notice[n].read
    BY <1>1 DEF N!NewNotice
  <2> QED BY <1>1, <2>1, <2>2, <2>3
<1>3. Alive' = Alive \cup {n}
  BY <1>1, <1>2 DEF Alive
<1>4. NewsTyped'
  <2>1. IsFiniteSet(Alive \cup {n})
    BY FS_AddElement DEF NewsInv, NewsTyped
  <2> QED BY <1>2, <1>3, <2>1 DEF NewsInv, NewsTyped
<1>5. ASSUME NEW m \in News
      PROVE  /\ NewOk(m)'
             /\ notice'[m].emailed = notice[m].emailed
             /\ notice[m].read => notice'[m].read
             /\ notice[m].state # "new" => /\ notice'[m].state # "new"
                                           /\ notice'[m].at = notice[m].at
             /\ notice'[m].state = "live" =>
                   notice[m].state = "live" \/ notice[m].state = "new"
             /\ notice[m].state = "gone" => notice'[m].state = "gone"
             /\ N!Unseen(m)' => N!Unseen(m)
  BY <1>1, <1>2 DEF NewsInv, NewsTyped, NewOk, N!NewNotice, N!Unseen, N!Live
<1> QED BY <1>4, <1>5, NewsRest DEF NewsInv, NewsTyped

LEMMA NewsUpload ==
    ASSUME N!NoticeAssumption, NewsInv, NEW n \in News, N!NotifyUpload(n)
    PROVE  NewsInv'
<1>1. /\ n \in Files /\ N!Insert(n) /\ task' = task /\ rc' = rc
      /\ UNCHANGED <<clock, komplet, told, shared, lost, ends>>
  BY DEF N!NotifyUpload, N!history
<1>2. N!Waiting' \subseteq N!Waiting
  BY <1>1 DEF N!Insert, N!Waiting, N!Unclaimed, N!Live, NewsInv, NewsTyped, N!NoticeAssumption,
              News, N!News
<1> QED BY <1>1, <1>2, NewsWaiting, NewsInsert DEF NewsInv, NewsTyped

LEMMA NewsCreate ==
    ASSUME N!NoticeAssumption, NewsInv, NEW r \in Recipients, NEW n \in Answers,
           N!AnswerCreate(r, n)
    PROVE  NewsInv'
<1>1. /\ n \in News /\ rc[r] /\ N!Insert(n) /\ task' = task /\ rc' = [rc EXCEPT ![r] = FALSE]
      /\ UNCHANGED <<clock, komplet, told, shared, lost, ends>>
  BY DEF N!AnswerCreate, N!history, News, N!News
<1>2. N!Waiting' \subseteq N!Waiting \cup {n} /\ n \notin N!Waiting
  BY <1>1 DEF N!Insert, N!Waiting, N!Unclaimed, N!Live, NewsInv, NewsTyped, N!NoticeAssumption,
              News, N!News
<1>3. Asking' = Asking \ {r} /\ r \in Asking /\ IsFiniteSet(Asking)
  BY <1>1, NewsFinite, FS_Subset DEF Asking, NewsInv, NewsTyped
<1>4. AnswersOk'
  <2>1. IsFiniteSet(N!Waiting)
    <3>1. N!Waiting \subseteq Alive
      BY DEF N!Waiting, N!Unclaimed, N!Live, Alive, News, N!News
    <3> QED BY <3>1, FS_Subset DEF NewsInv, NewsTyped
  <2>2. /\ Cardinality(N!Waiting \cup {n}) = Cardinality(N!Waiting) + 1
        /\ IsFiniteSet(N!Waiting \cup {n})
    BY <1>2, <2>1, FS_AddElement
  <2>3. /\ Cardinality(N!Waiting') <= Cardinality(N!Waiting) + 1
        /\ Cardinality(N!Waiting) \in Nat /\ Cardinality(N!Waiting') \in Nat
    BY <1>2, <2>1, <2>2, FS_Subset, FS_CardinalityType
  <2>4. Cardinality(Asking') = Cardinality(Asking) - 1 /\ Cardinality(Asking) \in Nat
    BY <1>3, FS_RemoveElement, FS_CardinalityType
  <2>5. Cardinality(Recipients) \in Nat
    BY NewsFinite
  <2> QED BY <2>3, <2>4, <2>5 DEF NewsInv, AnswersOk
<1> QED BY <1>1, <1>4, NewsInsert DEF NewsInv, NewsTyped

LEMMA NewsGet ==
    ASSUME N!NoticeAssumption, NewsInv, NEW r \in Recipients, N!AnswerGet(r)
    PROVE  NewsInv'
<1>1. /\ N!Waiting = {} /\ rc' = [rc EXCEPT ![r] = TRUE]
      /\ UNCHANGED <<clock, notice, komplet, task, told, shared, lost, ends>>
  BY DEF N!AnswerGet, N!history
<1>2. NewsTyped'
  BY <1>1 DEF NewsInv, NewsTyped, Alive
<1>3. AnswersOk'
  <2>1. N!Waiting' = {}
    BY <1>1 DEF N!Waiting, N!Unclaimed, N!Live
  <2>2. Cardinality(Asking') <= Cardinality(Recipients) /\ Cardinality(Asking') \in Nat
        /\ Cardinality(Recipients) \in Nat
    BY NewsFinite, FS_Subset, FS_CardinalityType DEF Asking
  <2> QED BY <2>1, <2>2, FS_EmptySet DEF AnswersOk
<1> QED BY <1>1, <1>2, <1>3, NewsRest DEF NewsInv, NewsTyped, NewOk, N!Unseen, N!Live

\* DeleteUpload, Forget and MarkRead: some notices go, some are read.
LEMMA NewsLess ==
    ASSUME N!NoticeAssumption, NewsInv, notice' \in [News -> N!Notice],
           \A n \in News : /\ notice'[n].emailed = notice[n].emailed
                           /\ notice'[n].at = notice[n].at
                           /\ notice[n].read => notice'[n].read
                           /\ notice[n].state = "new" => notice'[n] = notice[n]
                           /\ notice[n].state # "new" => notice'[n].state # "new"
                           /\ notice[n].state = "gone" => notice'[n].state = "gone"
                           /\ notice'[n].state = "live" => notice[n].state = "live",
           UNCHANGED <<clock, komplet, rc, task, told, shared, lost, ends>>
    PROVE  NewsInv'
<1>1. NewsTyped'
  <2>1. Alive' \subseteq Alive
    BY DEF Alive
  <2> QED BY <2>1, FS_Subset DEF NewsInv, NewsTyped
<1>2. ASSUME NEW n \in News PROVE NewOk(n)' /\ (N!Unseen(n)' => N!Unseen(n))
  BY DEF NewsInv, NewsTyped, NewOk, N!Notice, N!Unseen, N!Live
<1>3. N!Waiting' \subseteq N!Waiting
  BY DEF N!Waiting, N!Unclaimed, N!Live, News, N!News
<1> QED BY <1>1, <1>2, <1>3, NewsWaiting, NewsRest DEF NewsInv, NewsTyped

LEMMA NewsSender ==
    ASSUME N!NoticeAssumption, NewsInv,
           N!MarkRead \/ N!Forget \/ \E n \in News : N!DeleteUpload(n)
    PROVE  NewsInv'
<1>1. CASE N!MarkRead
  <2>1. /\ notice' = [n \in News |-> [notice[n] EXCEPT !.read = notice[n].read \/ N!Live(n)]]
        /\ UNCHANGED <<clock, komplet, rc, task, told, shared, lost, ends>>
    BY <1>1 DEF N!MarkRead, N!history, News
  <2>2. notice \in [News -> N!Notice]
    BY DEF NewsInv, NewsTyped
  <2> QED BY <2>1, <2>2, NewsLess DEF N!Notice, N!Live
<1>2. CASE N!Forget
  <2>1. /\ notice' = [n \in News |-> IF n \in Answers /\ N!Unclaimed(n)
                                     THEN [notice[n] EXCEPT !.state = "gone"] ELSE notice[n]]
        /\ UNCHANGED <<clock, komplet, rc, task, told, shared, lost, ends>>
    BY <1>2 DEF N!Forget, N!history, News
  <2>2. notice \in [News -> N!Notice]
    BY DEF NewsInv, NewsTyped
  <2> QED BY <2>1, <2>2, NewsLess DEF N!Notice, N!Live, N!Unclaimed
<1>3. ASSUME NEW m \in News, N!DeleteUpload(m) PROVE NewsInv'
  <2>1. /\ notice' = [notice EXCEPT ![m] = [notice[m] EXCEPT !.state = "gone"]]
        /\ notice[m].state = "live"
        /\ UNCHANGED <<clock, komplet, rc, task, told, shared, lost, ends>>
    BY <1>3 DEF N!DeleteUpload, N!history, News, N!Live
  <2>2. notice \in [News -> N!Notice]
    BY DEF NewsInv, NewsTyped
  <2> QED BY <2>1, <2>2, NewsLess DEF N!Notice
<1> QED BY <1>1, <1>2, <1>3

LEMMA NewsClock ==
    ASSUME N!NoticeAssumption, NewsInv, N!Tick \/ N!Komplet
    PROVE  NewsInv'
<1>1. /\ clock' \in Nat /\ clock <= clock' /\ clock' <= NewsTime
      /\ komplet' \in Nat /\ komplet <= komplet' /\ komplet' <= clock'
      /\ UNCHANGED <<notice, rc, task, told, shared, lost>>
  BY NewsFinite DEF N!Tick, N!Komplet, N!history, NewsInv, NewsTyped
<1>2. NewsTyped'
  BY <1>1 DEF NewsInv, NewsTyped, Alive
<1>3. N!Waiting' = N!Waiting
  BY <1>1 DEF N!Waiting, N!Unclaimed, N!Live
<1> QED BY <1>1, <1>2, <1>3, NewsWaiting, NewsRest DEF NewsInv, NewsTyped, NewOk, N!Unseen, N!Live

\* The parts a worker's step leaves alone.
LEMMA NewsWorker ==
    ASSUME N!NoticeAssumption, NewsInv, NEW w \in Workers,
           task' \in [Workers -> N!Worker], \A x \in Workers : x # w => task'[x] = task[x],
           UNCHANGED <<clock, komplet, rc>>,
           told' \in [News -> Nat], shared' \in [News -> Nat],
           notice' \in [News -> N!Notice],
           \A n \in News : /\ notice'[n].state = notice[n].state
                           /\ notice'[n].at = notice[n].at
                           /\ notice'[n].read = notice[n].read
                           /\ notice[n].emailed => notice'[n].emailed
                           /\ notice[n].state = "new" => notice'[n] = notice[n],
           HoldOk(w)', ReadOk(w)', N!NewsReachSender',
           \A n \in News : MailedOk(n)' /\ FreshOk(n)'
    PROVE  NewsInv'
<1>1. NewsTyped'
  <2>1. Alive' = Alive
    BY DEF Alive
  <2> QED BY <2>1 DEF NewsInv, NewsTyped
<1>2. ASSUME NEW n \in News PROVE NewOk(n)'
  BY DEF NewsInv, NewOk
<1>3. ASSUME NEW x \in Workers PROVE HoldOk(x)' /\ ReadOk(x)'
  <2>1. CASE x = w
    BY <2>1
  <2>2. CASE x # w
    <3>1. task'[x] = task[x] /\ HoldOk(x) /\ ReadOk(x) /\ task[x].list \subseteq News
      BY <2>2 DEF NewsInv, NewsTyped, N!Worker, News
    <3>2. ReadOk(x)'
      BY <3>1 DEF ReadOk
    <3> QED BY <3>1, <3>2 DEF HoldOk
  <2> QED BY <2>1, <2>2
<1>4. AnswersOk'
  <2>1. N!Waiting' \subseteq N!Waiting
    BY DEF N!Waiting, N!Unclaimed, N!Live, News, N!News
  <2> QED BY <2>1, NewsWaiting
<1> QED BY <1>1, <1>2, <1>3, <1>4 DEF NewsInv

\* Those who hold no notice any more.
LEMMA NewsSameReach ==
    ASSUME NewsInv, UNCHANGED <<notice, komplet>>, lost \subseteq lost',
           told' \in [News -> Nat], \A n \in News : told[n] <= told'[n],
           NEW w \in Workers, \A x \in Workers : x # w => task'[x] = task[x],
           \A n \in task[w].mine : N!Unseen(n) =>
                \/ told'[n] > 0 \/ n \in lost' \/ n \in task'[w].mine
                \/ \E m \in News : notice[m].at \in 1..komplet
    PROVE  N!NewsReachSender'
<1> SUFFICES ASSUME NEW n \in News, N!Unseen(n)'
             PROVE  \/ told'[n] > 0
                    \/ \E m \in News : notice'[m].at \in 1..komplet'
                    \/ n \in lost'
                    \/ N!InHand(n)'
  BY DEF N!NewsReachSender, News
<1>1. N!Unseen(n)
  BY DEF N!Unseen, N!Live
<1>2. \/ told[n] > 0 \/ n \in lost \/ N!InHand(n)
      \/ \E m \in News : notice[m].at \in 1..komplet
  BY <1>1 DEF NewsInv, N!NewsReachSender, News
<1>3. CASE N!InHand(n)
  <2>1. PICK x \in Workers : n \in task[x].mine
    BY <1>3 DEF N!InHand
  <2>2. CASE x = w
    BY <1>1, <2>1, <2>2 DEF N!InHand
  <2>3. CASE x # w
    BY <2>1, <2>3 DEF N!InHand
  <2> QED BY <2>2, <2>3
<1>4. CASE told[n] > 0
  <2>1. told[n] \in Nat /\ told'[n] \in Nat
    BY DEF NewsInv, NewsTyped
  <2> QED BY <1>4, <2>1
<1> QED BY <1>2, <1>3, <1>4

LEMMA NewsBegin ==
    ASSUME N!NoticeAssumption, NewsInv, NEW w \in Workers, N!Begin(w)
    PROVE  NewsInv'
<1> DEFINE list == N!Pending
<1>1. PICK f \in N!Times(list) :
          /\ task' = [task EXCEPT ![w] = [pc |-> "claim", list |-> list, first |-> f,
                         unread |-> {n \in list : ~notice[n].read}, mine |-> {}]]
          /\ task[w].pc = "idle"
          /\ UNCHANGED <<clock, notice, komplet, rc, told, shared, lost, ends>>
  BY DEF N!Begin, N!history
<1>2. PICK m \in list : f = notice[m].at
  BY <1>1 DEF N!Times
<1>3. list \subseteq News /\ \A n \in list : notice[n].state = "live" /\ ~notice[n].emailed
  BY DEF N!Pending, N!Unclaimed, N!Live, News, N!News
<1>a. /\ task \in [Workers -> N!Worker] /\ notice \in [News -> N!Notice]
      /\ told \in [News -> Nat] /\ shared \in [News -> Nat]
  BY DEF NewsInv, NewsTyped
<1>4. f \in 0..NewsTime /\ f >= 1
  BY <1>2, <1>3 DEF NewsInv, NewsTyped, NewOk, N!Notice
<1>5. task' \in [Workers -> N!Worker]
  <2>1. {n \in list : ~notice[n].read} \in SUBSET N!News /\ {} \in SUBSET N!News
        /\ list \in SUBSET N!News
    BY <1>3 DEF News
  <2>2. [pc |-> "claim", list |-> list, first |-> f,
         unread |-> {n \in list : ~notice[n].read}, mine |-> {}] \in N!Worker
    BY <1>4, <2>1 DEF N!Worker
  <2> QED BY <1>1, <1>a, <2>2
<1>6. /\ task'[w] = [pc |-> "claim", list |-> list, first |-> f,
                     unread |-> {n \in list : ~notice[n].read}, mine |-> {}]
      /\ \A x \in Workers : x # w => task'[x] = task[x]
  BY <1>1, <1>a
<1>7. task[w].mine = {}
  BY <1>1 DEF NewsInv, HoldOk
<1>8. HoldOk(w)' /\ ReadOk(w)'
  BY <1>1, <1>2, <1>3, <1>4, <1>6 DEF HoldOk, ReadOk
<1>9. ASSUME NEW n \in News PROVE MailedOk(n)' /\ FreshOk(n)'
  <2>1. FreshOk(n)'
    BY <1>1, <1>6 DEF NewsInv, FreshOk
  <2>2. CASE notice[n].emailed
    <3>1. n \notin task'[w].list
      BY <1>3, <1>6, <2>2
    <3>2. ASSUME NEW x \in Workers, x # w PROVE N!ClaimedBy(x)' = N!ClaimedBy(x)
      BY <1>1, <1>6, <3>2 DEF N!ClaimedBy, N!Unclaimed, N!Live
    <3>3. Tellers(n)' \subseteq Tellers(n)
      BY <1>6, <3>1, <3>2 DEF Tellers
    <3>4. told'[n] = told[n] /\ shared'[n] = shared[n] /\ notice'[n] = notice[n]
      BY <1>1
    <3>5. Cardinality(Tellers(n)') <= Cardinality(Tellers(n))
          /\ Cardinality(Tellers(n)') \in Nat /\ Cardinality(Tellers(n)) \in Nat
      BY <3>3, NewsTellers, FS_Subset, FS_CardinalityType
    <3> QED BY <1>a, <2>1, <3>4, <3>5 DEF NewsInv, MailedOk
  <2>3. CASE ~notice[n].emailed
    BY <1>1, <2>1, <2>3 DEF MailedOk
  <2> QED BY <2>2, <2>3
<1>10. N!NewsReachSender'
  BY <1>1, <1>6, <1>7, <1>a, NewsSameReach
<1> QED BY <1>1, <1>a, <1>5, <1>6, <1>8, <1>9, <1>10, NewsWorker

LEMMA NewsLeave ==
    ASSUME N!NoticeAssumption, NewsInv, NEW w \in Workers,
           N!Crash(w) \/ \E ok \in BOOLEAN : N!Send(w, ok)
    PROVE  NewsInv'
<1>a. /\ task \in [Workers -> N!Worker] /\ notice \in [News -> N!Notice] /\ komplet \in Nat
      /\ told \in [News -> Nat] /\ shared \in [News -> Nat]
  BY DEF NewsInv, NewsTyped
<1>1. /\ task[w].pc # "idle"
      /\ task' = [task EXCEPT ![w] = N!Idle]
      /\ lost \subseteq lost'
      /\ UNCHANGED <<clock, notice, komplet, rc, shared>>
      /\ \/ /\ task[w].pc = "send"
            /\ told' = [n \in News |-> IF n \in N!Mailed(w) THEN told[n] + 1 ELSE told[n]]
         \/ told' = told /\ N!Mailed(w) \subseteq lost'
         \/ told' = told /\ task[w].mine \subseteq lost'
  BY DEF N!Send, N!Crash, News
<1>2. N!Idle \in N!Worker
  BY NewsFinite DEF N!Idle, N!Worker
<1>3. /\ task' \in [Workers -> N!Worker] /\ task'[w] = N!Idle
      /\ \A x \in Workers : x # w => task'[x] = task[x]
  BY <1>1, <1>2, <1>a
<1>4. HoldOk(w)' /\ ReadOk(w)'
  BY <1>3 DEF HoldOk, ReadOk, N!Idle
<1>5. /\ told' \in [News -> Nat]
      /\ \A n \in News : /\ told[n] <= told'[n]
                         /\ \/ told'[n] = told[n]
                            \/ /\ told'[n] = told[n] + 1
                               /\ n \in N!Mailed(w) /\ task[w].pc = "send"
  BY <1>1, <1>a
<1>6. N!Mailed(w) \subseteq task[w].list
  BY <1>1 DEF NewsInv, ReadOk, N!Mailed
<1>7. ASSUME NEW n \in News PROVE MailedOk(n)' /\ FreshOk(n)'
  <2>1. ASSUME NEW x \in Workers, x # w PROVE N!ClaimedBy(x)' = N!ClaimedBy(x)
    BY <1>1, <1>3, <2>1 DEF N!ClaimedBy, N!Unclaimed, N!Live
  <2>2. Tellers(n)' \subseteq Tellers(n) \ {w}
    BY <1>3, <2>1 DEF Tellers, N!Idle
  <2>3. /\ IsFiniteSet(Tellers(n)) /\ IsFiniteSet(Tellers(n) \ {w})
        /\ Cardinality(Tellers(n)') <= Cardinality(Tellers(n) \ {w})
        /\ Cardinality(Tellers(n)') \in Nat /\ Cardinality(Tellers(n)) \in Nat
        /\ Cardinality(Tellers(n) \ {w}) \in Nat
    BY <2>2, NewsTellers, FS_Subset, FS_CardinalityType
  <2>4. CASE told'[n] = told[n]
    <3>1. Cardinality(Tellers(n) \ {w}) <= Cardinality(Tellers(n))
      BY <2>3, FS_Subset
    <3>2. MailedOk(n)'
      BY <1>1, <1>a, <2>3, <2>4, <3>1 DEF NewsInv, MailedOk
    <3>3. FreshOk(n)'
      BY <1>1, <1>3, <2>4 DEF NewsInv, FreshOk, N!Idle
    <3> QED BY <3>2, <3>3
  <2>5. CASE told'[n] = told[n] + 1 /\ n \in N!Mailed(w) /\ task[w].pc = "send"
    <3>1. n \in task[w].list /\ w \in Tellers(n)
      BY <1>6, <2>5 DEF Tellers
    <3>2. Cardinality(Tellers(n) \ {w}) = Cardinality(Tellers(n)) - 1
      BY <2>3, <3>1, FS_RemoveElement
    <3>3. MailedOk(n)'
      BY <1>1, <1>a, <2>3, <2>5, <3>2 DEF NewsInv, MailedOk
    <3>4. notice[n].emailed \/ notice[n].state = "gone"
      BY <2>5, <3>1 DEF NewsInv, FreshOk
    <3> QED BY <1>1, <3>3, <3>4 DEF FreshOk
  <2> QED BY <1>5, <2>4, <2>5
<1>8. N!NewsReachSender'
  <2>1. ASSUME NEW n \in task[w].mine, N!Unseen(n)
        PROVE  \/ told'[n] > 0 \/ n \in lost'
               \/ \E m \in News : notice[m].at \in 1..komplet
    <3>1. /\ ReadOk(w) /\ task[w].mine \subseteq task[w].list /\ n \in task[w].unread
          /\ n \in News
      BY <1>1, <1>a, <2>1 DEF NewsInv, ReadOk, N!Unseen, N!Worker, News
    <3>2. PICK m \in News : notice[m].at = task[w].first /\ 1 <= task[w].first
      BY <1>1, <3>1 DEF ReadOk
    <3>3. CASE komplet >= task[w].first
      <4>1. notice[m].at \in 1..komplet
        BY <1>a, <3>2, <3>3 DEF N!Notice
      <4> QED BY <4>1
    <3>4. CASE ~(komplet >= task[w].first)
      <4>1. n \in N!Mailed(w)
        BY <3>1, <3>4 DEF N!Mailed
      <4>2. n \in lost' \/ told'[n] = told[n] + 1
        BY <1>1, <2>1, <3>1, <4>1
      <4> QED BY <1>a, <3>1, <4>2
    <3> QED BY <3>3, <3>4
  <2> QED BY <1>1, <1>3, <1>5, <2>1, NewsSameReach
<1> QED BY <1>1, <1>a, <1>3, <1>4, <1>5, <1>7, <1>8, NewsWorker

LEMMA NewsClaim ==
    ASSUME N!NoticeAssumption, NewsInv, NEW w \in Workers, N!Claim(w)
    PROVE  NewsInv'
<1> DEFINE C == N!ClaimedBy(w)
<1>1. /\ task[w].pc = "claim"
      /\ notice' = [n \in News |-> [notice[n] EXCEPT !.emailed = notice[n].emailed \/ n \in C]]
      /\ task' = [task EXCEPT ![w] = IF C = {} THEN N!Idle
                                     ELSE [task[w] EXCEPT !.pc = "send", !.mine = C]]
      /\ shared' = [n \in News |-> IF n \in C THEN N!Cardinality(N!Overlap(w, n)) ELSE shared[n]]
      /\ UNCHANGED <<clock, komplet, rc, told, lost, ends>>
  BY DEF N!Claim, News
<1>a. /\ task \in [Workers -> N!Worker] /\ notice \in [News -> N!Notice]
      /\ told \in [News -> Nat] /\ shared \in [News -> Nat] /\ task[w] \in N!Worker
  BY DEF NewsInv, NewsTyped
<1>2. /\ C \subseteq task[w].list /\ \A n \in C : notice[n].state = "live" /\ ~notice[n].emailed
      /\ C \subseteq News /\ task[w].list \subseteq News
  BY <1>a DEF N!ClaimedBy, N!Unclaimed, N!Live, N!Worker, News
<1>3. /\ notice' \in [News -> N!Notice]
      /\ \A n \in News : /\ notice'[n].state = notice[n].state
                         /\ notice'[n].at = notice[n].at
                         /\ notice'[n].read = notice[n].read
                         /\ notice'[n].emailed <=> (notice[n].emailed \/ n \in C)
  BY <1>1, <1>a DEF N!Notice
<1>4. ASSUME NEW n \in News
      PROVE  IsFiniteSet(N!Overlap(w, n)) /\ N!Cardinality(N!Overlap(w, n)) \in Nat
             /\ N!Cardinality(N!Overlap(w, n)) = Cardinality(N!Overlap(w, n))
  BY NewsFinite, NewsSets, FS_Subset, FS_CardinalityType DEF N!Overlap
<1>5. shared' \in [News -> Nat]
  BY <1>1, <1>4, <1>a
<1>6. \A n \in News : notice[n].state = "new" => notice'[n] = notice[n]
  <2> SUFFICES ASSUME NEW n \in News, notice[n].state = "new" PROVE notice'[n] = notice[n]
    OBVIOUS
  <2>1. n \notin C /\ notice[n].emailed \in BOOLEAN /\ notice[n] \in N!Notice
    BY <1>2, <1>a DEF N!Notice
  <2>2. (notice[n].emailed \/ n \in C) = notice[n].emailed
    BY <2>1
  <2> QED BY <1>1, <2>1, <2>2 DEF N!Notice
<1>7. N!Idle \in N!Worker
  BY NewsFinite DEF N!Idle, N!Worker
<1>8. /\ task' \in [Workers -> N!Worker]
      /\ \A x \in Workers : x # w => task'[x] = task[x]
      /\ task'[w].mine = C
      /\ C = {} => task'[w].pc = "idle" /\ task'[w].list = {}
      /\ C # {} => /\ task'[w].pc = "send" /\ task'[w].list = task[w].list
                   /\ task'[w].unread = task[w].unread /\ task'[w].first = task[w].first
  <2>1. CASE C = {}
    BY <1>1, <1>a, <1>7, <2>1 DEF N!Idle
  <2>2. CASE C # {}
    <3>1. C \in SUBSET N!News
      BY <1>2 DEF News
    <3>2. [task[w] EXCEPT !.pc = "send", !.mine = C] \in N!Worker
      BY <1>a, <3>1 DEF N!Worker
    <3>3. task' = [task EXCEPT ![w] = [task[w] EXCEPT !.pc = "send", !.mine = C]]
      BY <1>1, <2>2
    <3> QED BY <1>a, <2>2, <3>2, <3>3 DEF N!Worker
  <2> QED BY <2>1, <2>2
<1>9. HoldOk(w)'
  BY <1>8 DEF HoldOk
<1>10. ReadOk(w)'
  <2>1. CASE C = {}
    BY <1>8, <2>1 DEF ReadOk
  <2>2. CASE C # {}
    <3>1. PICK n \in News : notice[n].state # "new" /\ notice[n].at = task[w].first
      BY <1>1 DEF NewsInv, ReadOk
    <3>2. /\ 1 <= task[w].first /\ \A m \in task[w].list : ~notice[m].read => m \in task[w].unread
          /\ task[w].unread \subseteq task[w].list
          /\ \A m \in task[w].list : notice[m].state # "new"
      BY <1>1 DEF NewsInv, ReadOk
    <3> QED BY <1>2, <1>3, <1>8, <2>2, <3>1, <3>2 DEF ReadOk
  <2> QED BY <2>1, <2>2
<1>11. task[w].mine = {}
  BY <1>1 DEF NewsInv, HoldOk
<1>12. ASSUME NEW x \in Workers, x # w PROVE N!ClaimedBy(x)' = N!ClaimedBy(x) \ C
  <2>1. task'[x].list = task[x].list /\ task[x].list \subseteq News
    BY <1>8, <1>12, <1>a DEF N!Worker, News
  <2> QED BY <1>3, <2>1 DEF N!ClaimedBy, N!Unclaimed, N!Live
<1>13. ASSUME NEW n \in News PROVE MailedOk(n)'
  <2>1. CASE n \in C
    <3>1. /\ told[n] = 0 /\ n \in task[w].list /\ C # {}
          /\ \A x \in Workers : task[x].pc = "send" => n \notin task[x].list
      BY <1>2, <2>1 DEF NewsInv, FreshOk
    <3>2. Tellers(n)' = N!Overlap(w, n) \cup {w}
      <4>1. w \in Tellers(n)'
        BY <1>8, <3>1 DEF Tellers
      <4>2. ASSUME NEW x \in Workers, x # w
            PROVE  x \in Tellers(n)' <=> x \in N!Overlap(w, n)
        <5>1. task'[x] = task[x]
          BY <1>8, <4>2
        <5>2. x \in Tellers(n)' <=> /\ n \in task[x].list /\ task[x].pc = "claim"
                                    /\ N!ClaimedBy(x) \ C # {}
          BY <1>12, <3>1, <4>2, <5>1 DEF Tellers
        <5> QED BY <4>2, <5>2 DEF N!Overlap
      <4> QED BY <4>1, <4>2 DEF Tellers, N!Overlap
    <3>3. Cardinality(Tellers(n)') = Cardinality(N!Overlap(w, n)) + 1
      BY <1>4, <3>2, FS_AddElement DEF N!Overlap
    <3>4. shared'[n] = Cardinality(N!Overlap(w, n)) /\ told'[n] = 0
      BY <1>1, <1>4, <2>1, <3>1
    <3> QED BY <1>4, <3>3, <3>4 DEF MailedOk
  <2>2. CASE n \notin C
    <3>1. Tellers(n)' \subseteq Tellers(n)
      <4>1. w \in Tellers(n)' => w \in Tellers(n)
        BY <1>1, <1>8 DEF Tellers
      <4>2. ASSUME NEW x \in Workers, x # w PROVE x \in Tellers(n)' => x \in Tellers(n)
        BY <1>8, <1>12, <4>2 DEF Tellers
      <4> QED BY <4>1, <4>2 DEF Tellers
    <3>2. told'[n] = told[n] /\ shared'[n] = shared[n] /\ (notice'[n].emailed => notice[n].emailed)
      BY <1>1, <1>3, <2>2
    <3>3. Cardinality(Tellers(n)') <= Cardinality(Tellers(n))
          /\ Cardinality(Tellers(n)') \in Nat /\ Cardinality(Tellers(n)) \in Nat
      BY <3>1, NewsTellers, FS_Subset, FS_CardinalityType
    <3> QED BY <1>a, <3>2, <3>3 DEF NewsInv, MailedOk
  <2> QED BY <2>1, <2>2
<1>14. ASSUME NEW n \in News PROVE FreshOk(n)'
  <2> SUFFICES ASSUME ~notice'[n].emailed, notice'[n].state # "gone"
               PROVE  /\ told'[n] = 0
                      /\ \A x \in Workers : task'[x].pc = "send" => n \notin task'[x].list
    BY DEF FreshOk
  <2>1. ~notice[n].emailed /\ n \notin C /\ notice[n].state # "gone"
    BY <1>3
  <2>2. told[n] = 0 /\ \A x \in Workers : task[x].pc = "send" => n \notin task[x].list
    BY <2>1 DEF NewsInv, FreshOk
  <2>3. n \notin task[w].list
    <3> SUFFICES ASSUME n \in task[w].list PROVE FALSE
      OBVIOUS
    <3>1. notice[n].state # "new" /\ notice[n] \in N!Notice
      BY <1>1, <1>a DEF NewsInv, ReadOk
    <3>2. notice[n].state = "live"
      BY <2>1, <3>1 DEF N!Notice
    <3> QED BY <2>1, <3>2 DEF N!ClaimedBy, N!Unclaimed, N!Live
  <2> QED BY <1>1, <1>8, <2>2, <2>3
<1>15. N!NewsReachSender'
  <2> SUFFICES ASSUME NEW n \in News, N!Unseen(n)'
               PROVE  \/ told'[n] > 0
                      \/ \E m \in News : notice'[m].at \in 1..komplet'
                      \/ n \in lost'
                      \/ N!InHand(n)'
    BY DEF N!NewsReachSender, News
  <2>1. CASE n \in C
    BY <1>8, <2>1 DEF N!InHand
  <2>2. CASE n \notin C
    <3>1. N!Unseen(n)
      BY <1>3, <2>2 DEF N!Unseen, N!Live
    <3>2. \/ told[n] > 0 \/ n \in lost \/ N!InHand(n)
          \/ \E m \in News : notice[m].at \in 1..komplet
      BY <3>1 DEF NewsInv, N!NewsReachSender, News
    <3>3. N!InHand(n) => N!InHand(n)'
      BY <1>8, <1>11 DEF N!InHand
    <3> QED BY <1>1, <1>3, <3>2, <3>3
  <2> QED BY <2>1, <2>2
<1> QED BY <1>1, <1>a, <1>3, <1>5, <1>6, <1>8, <1>9, <1>10, <1>13, <1>14, <1>15, NewsWorker

LEMMA NewsStep == N!NoticeAssumption /\ NewsInv /\ [N!Next]_noticeVars => NewsInv'
<1> SUFFICES ASSUME N!NoticeAssumption, NewsInv, [N!Next]_noticeVars PROVE NewsInv'
  OBVIOUS
<1>1. CASE N!Tick \/ N!Komplet
  BY <1>1, NewsClock
<1>2. CASE N!Forget \/ N!MarkRead
  BY <1>2, NewsSender
<1>3. ASSUME NEW n \in N!News, N!NotifyUpload(n) \/ N!DeleteUpload(n) PROVE NewsInv'
  BY <1>3, NewsUpload, NewsSender DEF News
<1>4. ASSUME NEW r \in Recipients, N!AnswerGet(r) \/ \E n \in Answers : N!AnswerCreate(r, n)
      PROVE  NewsInv'
  BY <1>4, NewsGet, NewsCreate
<1>5. ASSUME NEW w \in Workers, N!Task(w) \/ N!Crash(w) PROVE NewsInv'
  BY <1>5, NewsBegin, NewsClaim, NewsLeave DEF N!Task
<1>6. CASE UNCHANGED noticeVars
  <2>1. UNCHANGED <<clock, notice, komplet, rc, task, told, shared, lost, ends>>
    BY <1>6 DEF noticeVars
  <2>2. NewsTyped' /\ N!Waiting' = N!Waiting
    BY <2>1 DEF NewsInv, NewsTyped, Alive, N!Waiting, N!Unclaimed, N!Live
  <2> QED BY <2>1, <2>2, NewsWaiting, NewsRest DEF NewsInv, NewsTyped, NewOk, N!Unseen, N!Live
<1> QED BY <1>1, <1>2, <1>3, <1>4, <1>5, <1>6 DEF N!Next

LEMMA NewsInit == N!NoticeAssumption /\ N!Init => NewsInv
<1> SUFFICES ASSUME N!NoticeAssumption, N!Init PROVE NewsInv
  OBVIOUS
<1>1. /\ clock = 1 /\ notice = [n \in News |-> N!NewNotice] /\ komplet = 0
      /\ told = [n \in News |-> 0] /\ shared = [n \in News |-> 0]
      /\ rc = [r \in Recipients |-> FALSE] /\ task = [w \in Workers |-> N!Idle]
  BY DEF N!Init, News
<1>2. Alive = {} /\ N!Waiting = {} /\ Asking = {}
  <2>1. \A n \in News : notice[n].state = "new" /\ ~notice[n].emailed
    BY <1>1 DEF N!NewNotice
  <2>2. N!Waiting \subseteq Alive
    BY DEF N!Waiting, N!Unclaimed, N!Live, Alive, News, N!News
  <2>3. Asking = {}
    BY <1>1 DEF Asking
  <2> QED BY <2>1, <2>2, <2>3 DEF Alive
<1>3. N!NewNotice \in N!Notice /\ N!Idle \in N!Worker
  BY NewsFinite DEF N!NewNotice, N!Notice, N!Idle, N!Worker
<1>4. NewsTyped
  BY <1>1, <1>2, <1>3, NewsFinite, FS_EmptySet DEF NewsTyped
<1>5. AnswersOk
  <2>1. Cardinality({}) = 0
    BY FS_EmptySet
  <2> QED BY <1>2, <2>1, NewsFinite DEF AnswersOk
<1>6. \A n \in News : NewOk(n) /\ MailedOk(n) /\ FreshOk(n) /\ ~N!Unseen(n)
  BY <1>1 DEF NewOk, MailedOk, FreshOk, N!Unseen, N!Live, N!NewNotice, N!Idle
<1>7. \A w \in Workers : HoldOk(w) /\ ReadOk(w)
  BY <1>1 DEF HoldOk, ReadOk, N!Idle
<1> QED BY <1>4, <1>5, <1>6, <1>7 DEF NewsInv, N!NewsReachSender, News

LEMMA NewsTold ==
    ASSUME N!NoticeAssumption, NewsInv
    PROVE  N!NewsReachSender /\ N!ToldOnce /\ N!OneNoticePerAnswer
<1>1. N!ToldOnce
  <2> SUFFICES ASSUME NEW n \in News, notice[n].emailed PROVE told[n] <= 1 + shared[n]
    BY DEF N!ToldOnce, News
  <2>1. told[n] + Cardinality(Tellers(n)) <= 1 + shared[n]
    BY DEF NewsInv, MailedOk
  <2>2. told[n] \in Nat /\ shared[n] \in Nat /\ Cardinality(Tellers(n)) \in Nat
    BY NewsTellers DEF NewsInv, NewsTyped
  <2> QED BY <2>1, <2>2
<1>2. N!OneNoticePerAnswer
  <2>1. IsFiniteSet(N!Waiting) /\ IsFiniteSet(Asking)
    <3>1. N!Waiting \subseteq Alive /\ Asking \subseteq Recipients
      BY DEF N!Waiting, N!Unclaimed, N!Live, Alive, News, N!News, Asking
    <3> QED BY <3>1, NewsFinite, FS_Subset DEF NewsInv, NewsTyped
  <2>2. Cardinality(N!Waiting) \in Nat /\ Cardinality(Asking) \in Nat
    BY <2>1, FS_CardinalityType
  <2> QED BY <2>2, NewsFinite, NewsSets DEF NewsInv, AnswersOk, N!OneNoticePerAnswer
<1> QED BY <1>1, <1>2 DEF NewsInv

-----------------------------------------------------------------------------
(* The morning email: the invariant *)

Desks == [pc : {"idle", "mark", "build"}, day : Nat]

\* The person's day.
LocalDay == A!DayOf(hour + zone)

AgendaTyped ==
    /\ hour \in Nat /\ FirstMorning * 3 <= hour /\ hour <= LastMorning * 3 + 2
    /\ zone \in Offsets /\ moves \in Nat
    /\ settings \in [on : BOOLEAN, sent_on : Nat]
    /\ desk \in [Workers -> Desks]
    /\ mornings \in [A!Days -> Nat]
    /\ listed \subseteq Notes
    /\ \A w \in Workers : desk[w].pc # "idle" => desk[w].day \in A!Days
    /\ \A w \in Workers : desk[w].pc = "idle" => desk[w] = A!Idle

\* What was due when the day was marked, and has been since.
OwedOk ==
    \A n \in owed : /\ n \in Notes /\ note[n].state = "open" /\ note[n].by
                    /\ note[n].account \in works /\ note[n].due <= settings.sent_on

\* It is in the email, or the worker that marked the day builds it.
BuilderOk ==
    \/ unsent
    \/ owed \subseteq listed
    \/ \E w \in Workers : desk[w].pc = "build" /\ desk[w].day = settings.sent_on

\* In one time zone workers work on the day it is, only one of them on its
\* email, and a day with an email is marked.
MorningOk ==
    /\ settings.sent_on <= LocalDay
    /\ \A w \in Workers : desk[w].pc # "idle" => desk[w].day = LocalDay
    /\ \A w \in Workers : desk[w].pc = "build" =>
          /\ desk[w].day <= settings.sent_on
          /\ mornings[desk[w].day] = 0
          /\ \A x \in Workers : x # w => desk[x].pc # "build"
    /\ \A d \in A!Days : mornings[d] <= 1 /\ (mornings[d] = 1 => d <= settings.sent_on)

AgendaInv ==
    /\ AgendaTyped /\ OwedOk /\ BuilderOk
    /\ moves = 0 => MorningOk

(* The morning email: the steps *)

LEMMA AgendaBounds ==
    ASSUME A!AgendaAssumption
    PROVE  /\ \A o \in Offsets : o \in Int /\ -2 <= o /\ o <= 2
           /\ FirstMorning \in Nat /\ LastMorning \in Nat /\ 1 < FirstMorning
           /\ FirstMorning <= LastMorning
BY DEF A!AgendaAssumption, A!SlotsADay

LEMMA AgendaDays ==
    ASSUME A!AgendaAssumption, NEW t \in Nat, FirstMorning * 3 <= t, t <= LastMorning * 3 + 2,
           NEW o \in Offsets
    PROVE  A!DayOf(t + o) \in Nat \ {0} /\ A!DayOf(t + o) \in A!Days
           /\ A!DayOf(t + o) <= A!DayOf(t + 1 + o)
BY AgendaBounds DEF A!DayOf, A!SlotsADay, A!Days

LEMMA AgendaLocal ==
    ASSUME A!AgendaAssumption, AgendaInv
    PROVE  /\ LocalDay \in Nat \ {0} /\ LocalDay \in A!Days
           /\ \A w \in Workers : desk[w] \in Desks
           /\ settings.sent_on \in Nat /\ \A d \in A!Days : mornings[d] \in Nat
BY AgendaDays DEF AgendaInv, AgendaTyped, LocalDay

\* The steps of the person and the team: no worker moves.
LEMMA AgendaPeople ==
    ASSUME A!AgendaAssumption, AgendaInv,
           \/ A!Switch \/ A!DoneSave
           \/ \E S \in SUBSET Accounts : A!ChangeTeams(S)
           \/ \E n \in Notes :
                 \/ A!DoneRead(n) \/ A!Delete(n)
                 \/ \E a \in Accounts, mine \in BOOLEAN, d \in FirstMorning..LastMorning :
                       A!Add(n, a, mine, d)
    PROVE  AgendaInv'
<1>1. /\ UNCHANGED <<hour, zone, desk, mornings, listed, unsent, moves>>
      /\ settings' = settings \/ settings' = [settings EXCEPT !.on = ~settings.on]
      /\ owed' \subseteq owed
  BY DEF A!Switch, A!DoneSave, A!ChangeTeams, A!DoneRead, A!Delete, A!Add, A!history, A!bounds
<1>2. settings' \in [on : BOOLEAN, sent_on : Nat] /\ settings'.sent_on = settings.sent_on
  BY <1>1 DEF AgendaInv, AgendaTyped
<1>3. AgendaTyped'
  BY <1>1, <1>2 DEF AgendaInv, AgendaTyped
<1>4. OwedOk'
  <2> SUFFICES ASSUME NEW n \in owed'
               PROVE  /\ note'[n].state = "open" /\ note'[n].by
                      /\ note'[n].account \in works' /\ note'[n].due <= settings.sent_on
    BY <1>1, <1>2 DEF AgendaInv, OwedOk
  <2>1. /\ n \in Notes /\ note[n].state = "open" /\ note[n].by
        /\ note[n].account \in works /\ note[n].due <= settings.sent_on
    BY <1>1 DEF AgendaInv, OwedOk
  <2>2. CASE A!Switch \/ \E m \in Notes : A!DoneRead(m)
    BY <2>1, <2>2 DEF A!Switch, A!DoneRead
  <2>3. CASE A!DoneSave
    <3> DEFINE h == hand[1]
    <3>1. /\ works' = works
          /\ IF note[h] = A!NoNote THEN UNCHANGED <<note, owed>>
             ELSE note' = [note EXCEPT ![h].state = hand[2]] /\ owed' = owed \ {h}
      BY <2>3 DEF A!DoneSave
    <3>2. CASE note' = note
      BY <2>1, <3>1, <3>2
    <3>3. CASE note' # note
      <4>1. note' = [note EXCEPT ![h].state = hand[2]] /\ n # h
        BY <3>1, <3>3
      <4> HIDE DEF h
      <4>2. note'[n] = note[n]
        BY <2>1, <4>1
      <4> QED BY <2>1, <3>1, <4>2
    <3> QED BY <3>2, <3>3
  <2>4. ASSUME NEW S \in SUBSET Accounts, A!ChangeTeams(S)
        PROVE  /\ note'[n].state = "open" /\ note'[n].by
               /\ note'[n].account \in works' /\ note'[n].due <= settings.sent_on
    BY <2>1, <2>4 DEF A!ChangeTeams
  <2>5. ASSUME NEW m \in Notes, A!Delete(m)
        PROVE  /\ note'[n].state = "open" /\ note'[n].by
               /\ note'[n].account \in works' /\ note'[n].due <= settings.sent_on
    BY <2>1, <2>5 DEF A!Delete
  <2>6. ASSUME NEW m \in Notes, NEW a \in Accounts, NEW mine \in BOOLEAN,
               NEW d \in FirstMorning..LastMorning, A!Add(m, a, mine, d)
        PROVE  /\ note'[n].state = "open" /\ note'[n].by
               /\ note'[n].account \in works' /\ note'[n].due <= settings.sent_on
    <3>1. m # n
      BY <2>1, <2>6 DEF A!Add, A!NoNote
    <3> QED BY <2>1, <2>6, <3>1 DEF A!Add
  <2> QED BY <2>2, <2>3, <2>4, <2>5, <2>6
<1>5. BuilderOk'
  BY <1>1, <1>2 DEF AgendaInv, BuilderOk
<1>6. moves' = 0 => MorningOk'
  BY <1>1, <1>2 DEF AgendaInv, MorningOk, LocalDay
<1> QED BY <1>3, <1>4, <1>5, <1>6 DEF AgendaInv

LEMMA AgendaTick == ASSUME A!AgendaAssumption, AgendaInv, A!Tick PROVE AgendaInv'
<1>1. /\ hour' = hour + 1 /\ hour < LastMorning * 3 + 2
      /\ \A w \in Workers : desk[w] = A!Idle
      /\ UNCHANGED <<zone, works, settings, note, desk, mornings, owed, listed, unsent, moves>>
  BY AgendaBounds DEF A!Tick, A!SlotsADay, A!history, A!bounds
<1>2. /\ hour \in Nat /\ FirstMorning * 3 <= hour /\ hour <= LastMorning * 3 + 2
      /\ zone \in Offsets
  BY DEF AgendaInv, AgendaTyped
<1>3. AgendaTyped' /\ OwedOk' /\ BuilderOk'
  <2>1. hour' \in Nat /\ FirstMorning * 3 <= hour' /\ hour' <= LastMorning * 3 + 2
    BY <1>1, <1>2, AgendaBounds
  <2> QED BY <1>1, <2>1 DEF AgendaInv, AgendaTyped, OwedOk, BuilderOk
<1>4. LocalDay <= LocalDay' /\ LocalDay \in Nat /\ LocalDay' \in Nat
  <2>1. hour + 1 \in Nat /\ FirstMorning * 3 <= hour + 1 /\ hour + 1 <= LastMorning * 3 + 2
    BY <1>1, <1>2, AgendaBounds
  <2> QED BY <1>1, <1>2, <2>1, AgendaDays DEF LocalDay
<1>5. moves' = 0 => MorningOk'
  BY <1>1, <1>4, AgendaLocal DEF AgendaInv, MorningOk, A!Idle
<1> QED BY <1>3, <1>5 DEF AgendaInv

LEMMA AgendaMove ==
    ASSUME A!AgendaAssumption, AgendaInv, NEW o \in Offsets, A!Move(o)
    PROVE  AgendaInv'
<1>1. /\ zone' \in Offsets /\ moves' = moves + 1
      /\ UNCHANGED <<hour, works, settings, note, desk, mornings, owed, listed, unsent>>
  BY DEF A!Move, A!history
<1>2. moves \in Nat
  BY DEF AgendaInv, AgendaTyped
<1> QED BY <1>1, <1>2 DEF AgendaInv, AgendaTyped, OwedOk, BuilderOk

LEMMA AgendaAsk ==
    ASSUME A!AgendaAssumption, AgendaInv, NEW w \in Workers, A!Ask(w)
    PROVE  AgendaInv'
<1>1. /\ desk[w] = A!Idle
      /\ desk' = [desk EXCEPT ![w] = [pc |-> "mark", day |-> LocalDay]]
      /\ UNCHANGED <<hour, zone, works, settings, note, mornings, owed, listed, unsent, moves>>
  BY DEF A!Ask, LocalDay, A!history, A!bounds
<1>2. LocalDay \in Nat /\ LocalDay \in A!Days /\ LocalDay' = LocalDay
  BY <1>1, AgendaLocal DEF LocalDay
<1>3. /\ desk' \in [Workers -> Desks] /\ desk'[w].pc = "mark" /\ desk'[w].day = LocalDay
      /\ desk[w].pc = "idle"
      /\ \A x \in Workers : x # w => desk'[x] = desk[x]
  <2>1. [pc |-> "mark", day |-> LocalDay] \in Desks
    BY <1>2 DEF Desks
  <2> QED BY <1>1, <2>1 DEF AgendaInv, AgendaTyped, A!Idle
<1>4. AgendaTyped' /\ OwedOk'
  BY <1>1, <1>2, <1>3 DEF AgendaInv, AgendaTyped, OwedOk
<1>5. BuilderOk'
  BY <1>1, <1>3 DEF AgendaInv, BuilderOk
<1>6. moves' = 0 => MorningOk'
  <2> SUFFICES ASSUME moves = 0 PROVE MorningOk'
    BY <1>1
  <2>1. MorningOk
    BY DEF AgendaInv
  <2>2. \A x \in Workers : desk'[x].pc = "build" => desk[x].pc = "build" /\ desk'[x] = desk[x]
    BY <1>3
  <2> QED BY <1>1, <1>2, <1>3, <2>1, <2>2 DEF MorningOk
<1> QED BY <1>4, <1>5, <1>6 DEF AgendaInv

\* A worker leaves: it is idle and nothing of the day changes.
LEMMA AgendaLeave ==
    ASSUME AgendaInv, NEW w \in Workers, desk' = [desk EXCEPT ![w] = A!Idle],
           UNCHANGED <<hour, zone, works, settings, note, mornings, owed, listed, moves>>,
           unsent => unsent', unsent' \/ desk[w].pc # "build"
    PROVE  AgendaInv'
<1>1. /\ desk' \in [Workers -> Desks] /\ desk'[w] = A!Idle /\ desk'[w].pc = "idle"
      /\ \A x \in Workers : x # w => desk'[x] = desk[x]
  BY DEF AgendaInv, AgendaTyped, A!Idle, Desks
<1>2. AgendaTyped' /\ OwedOk'
  BY <1>1 DEF AgendaInv, AgendaTyped, OwedOk
<1>3. BuilderOk'
  BY <1>1 DEF AgendaInv, BuilderOk
<1>4. moves' = 0 => MorningOk'
  <2> SUFFICES ASSUME moves = 0 PROVE MorningOk'
    OBVIOUS
  <2>1. MorningOk /\ LocalDay' = LocalDay
    BY DEF AgendaInv, LocalDay
  <2> QED BY <1>1, <2>1 DEF MorningOk
<1> QED BY <1>2, <1>3, <1>4 DEF AgendaInv

LEMMA AgendaMark ==
    ASSUME A!AgendaAssumption, AgendaInv, NEW w \in Workers, A!Mark(w)
    PROVE  AgendaInv'
<1>1. CASE settings.sent_on = desk[w].day
  BY <1>1, AgendaLeave DEF A!Mark, A!bounds
<1>2. CASE settings.sent_on # desk[w].day
  <2> DEFINE morning == desk[w].day
  <2>1. /\ desk[w].pc = "mark"
        /\ settings' = [settings EXCEPT !.sent_on = morning]
        /\ owed' = {n \in Notes : /\ note[n].state = "open" /\ note[n].by
                                  /\ note[n].account \in works
                                  /\ note[n].due <= morning}
        /\ listed' = {} /\ unsent' = FALSE
        /\ desk' = [desk EXCEPT ![w] = [desk[w] EXCEPT !.pc = "build"]]
        /\ UNCHANGED <<hour, zone, works, note, mornings, moves>>
    BY <1>2 DEF A!Mark, A!bounds
  <2>2. /\ desk[w] \in Desks /\ morning \in A!Days /\ morning \in Nat
        /\ settings \in [on : BOOLEAN, sent_on : Nat] /\ desk \in [Workers -> Desks]
    BY <2>1 DEF AgendaInv, AgendaTyped, Desks
  <2>3. /\ desk' \in [Workers -> Desks] /\ desk'[w].pc = "build" /\ desk'[w].day = morning
        /\ \A x \in Workers : x # w => desk'[x] = desk[x]
    BY <2>1, <2>2 DEF Desks
  <2>4. settings' \in [on : BOOLEAN, sent_on : Nat] /\ settings'.sent_on = morning
    BY <2>1, <2>2
  <2>5. AgendaTyped'
    BY <2>1, <2>2, <2>3, <2>4 DEF AgendaInv, AgendaTyped
  <2>6. OwedOk'
    BY <2>1, <2>4 DEF OwedOk
  <2>7. BuilderOk'
    BY <2>3, <2>4 DEF BuilderOk
  <2>8. moves' = 0 => MorningOk'
    <3> SUFFICES ASSUME moves = 0 PROVE MorningOk'
      BY <2>1
    <3>1. MorningOk /\ LocalDay' = LocalDay /\ morning = LocalDay
      BY <2>1 DEF AgendaInv, MorningOk, LocalDay
    <3>2. settings.sent_on < morning /\ settings.sent_on \in Nat
      BY <1>2, <2>2, <3>1 DEF MorningOk
    <3>3. \A x \in Workers : desk[x].pc # "build"
      <4> SUFFICES ASSUME NEW x \in Workers, desk[x].pc = "build" PROVE FALSE
        OBVIOUS
      <4>1. desk[x].day = morning /\ desk[x].day <= settings.sent_on
        BY <3>1 DEF MorningOk
      <4> QED BY <2>2, <3>2, <4>1
    <3>4. mornings[morning] = 0 /\ \A d \in A!Days : mornings[d] \in Nat /\ d \in Nat
      <4>1. \A d \in A!Days : mornings[d] \in Nat /\ d \in Nat
        BY AgendaLocal, AgendaBounds DEF A!Days
      <4> QED BY <2>2, <3>1, <3>2, <4>1 DEF MorningOk
    <3>5. ASSUME NEW d \in A!Days, mornings[d] = 1 PROVE d <= morning
      <4>1. d <= settings.sent_on
        BY <3>1, <3>5 DEF MorningOk
      <4> QED BY <2>2, <3>2, <3>4, <4>1
    <3> QED BY <2>1, <2>2, <2>3, <2>4, <3>1, <3>3, <3>4, <3>5 DEF MorningOk
  <2> QED BY <2>5, <2>6, <2>7, <2>8 DEF AgendaInv
<1> QED BY <1>1, <1>2

LEMMA AgendaSend ==
    ASSUME A!AgendaAssumption, AgendaInv, NEW w \in Workers, NEW news \in BOOLEAN,
           A!Send(w, news, FALSE)
    PROVE  AgendaInv'
<1> DEFINE morning == desk[w].day
<1>1. /\ desk[w].pc = "build"
      /\ desk' = [desk EXCEPT ![w] = A!Idle]
      /\ mornings' = mornings \/ mornings' = [mornings EXCEPT ![morning] = mornings[morning] + 1]
      /\ listed' = listed \cup A!Due(morning)
      /\ UNCHANGED <<hour, zone, works, settings, note, owed, unsent, moves>>
  BY DEF A!Send, A!bounds
<1>2. /\ morning \in A!Days /\ mornings \in [A!Days -> Nat] /\ desk[w] \in Desks
      /\ morning \in Nat /\ settings.sent_on \in Nat
  BY <1>1 DEF AgendaInv, AgendaTyped, Desks
<1>3. /\ desk' \in [Workers -> Desks] /\ desk'[w] = A!Idle /\ desk'[w].pc = "idle"
      /\ \A x \in Workers : x # w => desk'[x] = desk[x]
  BY <1>1 DEF AgendaInv, AgendaTyped, A!Idle, Desks
<1>4. mornings' \in [A!Days -> Nat]
  BY <1>1, <1>2
<1>5. AgendaTyped' /\ OwedOk'
  <2>1. listed' \subseteq Notes
    BY <1>1 DEF AgendaInv, AgendaTyped, A!Due
  <2> QED BY <1>1, <1>3, <1>4, <2>1 DEF AgendaInv, AgendaTyped, OwedOk
<1>6. BuilderOk'
  <2>1. CASE morning = settings.sent_on
    <3>1. owed \subseteq A!Due(morning)
      BY <2>1 DEF AgendaInv, OwedOk, A!Due
    <3> QED BY <1>1, <3>1 DEF BuilderOk
  <2>2. CASE morning # settings.sent_on
    BY <1>1, <1>3, <2>2 DEF AgendaInv, BuilderOk
  <2> QED BY <2>1, <2>2
<1>7. moves' = 0 => MorningOk'
  <2> SUFFICES ASSUME moves = 0 PROVE MorningOk'
    BY <1>1
  <2>1. MorningOk /\ LocalDay' = LocalDay
    BY <1>1 DEF AgendaInv, LocalDay
  <2>2. /\ mornings[morning] = 0 /\ morning <= settings.sent_on
        /\ \A x \in Workers : desk'[x].pc # "build"
    BY <1>1, <1>3, <2>1 DEF MorningOk
  <2>3. \A d \in A!Days : mornings'[d] <= 1 /\ (mornings'[d] = 1 => d <= settings.sent_on)
    BY <1>1, <1>2, <2>1, <2>2 DEF MorningOk
  <2> QED BY <1>1, <1>3, <2>1, <2>2, <2>3 DEF MorningOk
<1> QED BY <1>5, <1>6, <1>7 DEF AgendaInv

\* An email the server refused is as lost as the worker; with nothing to say
\* there was none to refuse.
LEMMA AgendaRefused ==
    ASSUME A!AgendaAssumption, AgendaInv, NEW w \in Workers, NEW news \in BOOLEAN,
           A!Send(w, news, TRUE)
    PROVE  AgendaInv'
<1>1. CASE A!Due(desk[w].day) # {} \/ news
  <2>1. /\ desk' = [desk EXCEPT ![w] = A!Idle] /\ unsent' = TRUE
        /\ UNCHANGED <<hour, zone, works, settings, note, mornings, owed, listed, moves>>
    BY <1>1 DEF A!Send, A!bounds
  <2> QED BY <2>1, AgendaLeave
<1>2. CASE ~(A!Due(desk[w].day) # {} \/ news)
  <2>1. A!Send(w, news, FALSE)
    BY <1>2 DEF A!Send
  <2> QED BY <2>1, AgendaSend
<1> QED BY <1>1, <1>2

LEMMA AgendaStep == A!AgendaAssumption /\ AgendaInv /\ [A!Next]_agendaVars => AgendaInv'
<1> SUFFICES ASSUME A!AgendaAssumption, AgendaInv, [A!Next]_agendaVars PROVE AgendaInv'
  OBVIOUS
<1>1. CASE A!Tick
  BY <1>1, AgendaTick
<1>2. ASSUME NEW o \in Offsets, A!Move(o) PROVE AgendaInv'
  BY <1>2, AgendaMove
<1>3. ASSUME NEW w \in Workers, \/ A!Ask(w) \/ A!Mark(w)
                               \/ \E news, refused \in BOOLEAN : A!Send(w, news, refused)
      PROVE  AgendaInv'
  BY <1>3, AgendaAsk, AgendaMark, AgendaSend, AgendaRefused
<1>4. ASSUME NEW w \in Workers, A!Crash(w) PROVE AgendaInv'
  BY <1>4, AgendaLeave DEF A!Crash
<1>5. CASE UNCHANGED agendaVars
  BY <1>5 DEF agendaVars, AgendaInv, AgendaTyped, OwedOk, BuilderOk, MorningOk, LocalDay
<1> QED BY <1>1, <1>2, <1>3, <1>4, <1>5, AgendaPeople DEF A!Next

LEMMA AgendaInit == A!AgendaAssumption /\ A!Init => AgendaInv
<1> SUFFICES ASSUME A!AgendaAssumption, A!Init PROVE AgendaInv
  OBVIOUS
<1>1. AgendaTyped
  <2>1. A!Idle \in Desks /\ A!Idle.pc = "idle"
    BY DEF A!Idle, Desks
  <2>2. [on |-> TRUE, sent_on |-> 0] \in [on : BOOLEAN, sent_on : Nat]
    OBVIOUS
  <2> QED BY <2>1, <2>2, AgendaBounds DEF A!Init, AgendaTyped, A!SlotsADay
<1>2. OwedOk /\ BuilderOk
  BY DEF A!Init, OwedOk, BuilderOk
<1>3. LocalDay \in Nat
  BY <1>1, AgendaDays DEF AgendaTyped, LocalDay
<1>4. MorningOk
  BY <1>3 DEF A!Init, MorningOk, A!Idle
<1> QED BY <1>1, <1>2, <1>4 DEF AgendaInv

LEMMA AgendaTold == AgendaInv => A!OneMorningEmail /\ A!DueIsListed
BY DEF AgendaInv, BuilderOk, MorningOk, A!OneMorningEmail, A!DueIsListed

-----------------------------------------------------------------------------
(* The team's watch: the invariant *)

Procs == {<<>>} \cup ({"record", "deliver"} \X Keys)

Handling(p, k) == proc[p] # <<>> /\ proc[p][2] = k

WatchTyped ==
    /\ slot \in Nat /\ W!Day <= slot
    /\ recorded \in [Keys -> Int] /\ fired \in [Keys -> Int]
    /\ reached \in [Keys -> Int] /\ failed \in [Keys -> Int]
    /\ proc \in [Workers -> Procs]
    /\ done \in BOOLEAN
    /\ issued \subseteq Nat /\ trail \subseteq Nat
    /\ down \subseteq Nat /\ blank \subseteq Nat

\* What was recorded went out, was lost, or is on its way.
AlarmOk(k) ==
    /\ recorded[k] <= slot
    /\ \/ recorded[k] = W!Never
       \/ recorded[k] <= reached[k]
       \/ recorded[k] <= failed[k]
       \/ \E p \in Workers : Handling(p, k)

\* A report's entries are in the trail.
ReportsOk ==
    \A t \in issued : /\ t <= slot
                      /\ \A x \in W!Day..(t - 1) : t - W!Period <= x => x \in trail

\* What 7:00 and 9:30 of a day leave behind.
SevenOk(D) == 4 * D + 1 \in issued \/ D \in down
HalfPastNineOk(D) == D \in blank \/ 4 * D + 1 \in issued \/ 4 * D + 2 \in issued

DaysOk ==
    \A D \in Nat \ {0} :
        /\ 4 * D + 1 < slot \/ (4 * D + 1 = slot /\ done) => SevenOk(D)
        /\ 4 * D + 2 < slot \/ (4 * D + 2 = slot /\ done) => HalfPastNineOk(D)

AlarmsInv ==
    /\ WatchTyped
    /\ \A k \in Keys : AlarmOk(k)
    /\ ReportsOk /\ DaysOk /\ W!AlarmReaches

(* The team's watch: the steps *)

LEMMA AlarmsFire ==
    ASSUME AlarmsInv, NEW p \in Workers, NEW k \in Keys, W!Fire(p, k)
    PROVE  AlarmsInv'
<1>1. /\ proc[p] = <<>>
      /\ \/ slot - recorded[k] <= 1 /\ fired' = [fired EXCEPT ![k] = slot] /\ proc' = proc
         \/ proc' = [proc EXCEPT ![p] = <<"record", k>>] /\ fired' = fired
      /\ UNCHANGED <<slot, recorded, reached, failed, issued, trail, down, blank, manual, done>>
  BY DEF W!Fire, W!Limited, W!Idle, W!QuietTime, W!reports
<1>a. /\ slot \in Nat /\ 4 <= slot /\ recorded \in [Keys -> Int] /\ fired \in [Keys -> Int]
      /\ reached \in [Keys -> Int] /\ failed \in [Keys -> Int] /\ proc \in [Workers -> Procs]
  BY DEF AlarmsInv, WatchTyped, W!Day
<1>2. <<"record", k>> \in Procs
  BY DEF Procs
<1>3. WatchTyped'
  <2>1. fired' \in [Keys -> Int] /\ proc' \in [Workers -> Procs]
    <3>1. CASE fired' = [fired EXCEPT ![k] = slot] /\ proc' = proc
      BY <1>a, <3>1
    <3>2. CASE proc' = [proc EXCEPT ![p] = <<"record", k>>] /\ fired' = fired
      BY <1>2, <1>a, <3>2
    <3> QED BY <1>1, <3>1, <3>2
  <2> QED BY <1>1, <2>1 DEF AlarmsInv, WatchTyped
<1>4. \A q \in Workers, j \in Keys : Handling(q, j) => Handling(q, j)'
  BY <1>1, <1>a DEF Handling
<1>5. ASSUME NEW j \in Keys PROVE AlarmOk(j)'
  BY <1>1, <1>4 DEF AlarmsInv, AlarmOk
<1>6. W!AlarmReaches'
  <2> SUFFICES ASSUME NEW j \in Keys
               PROVE  \/ fired'[j] = W!Never \/ fired'[j] - reached[j] <= 1
                      \/ fired'[j] - failed[j] <= 1 \/ \E q \in Workers : Handling(q, j)'
    BY <1>1 DEF W!AlarmReaches, W!QuietTime, W!Idle, Handling
  <2>1. \/ fired[j] = W!Never \/ fired[j] - reached[j] <= 1
        \/ fired[j] - failed[j] <= 1 \/ \E q \in Workers : Handling(q, j)
    BY DEF AlarmsInv, W!AlarmReaches, W!QuietTime, W!Idle, Handling
  <2>2. CASE fired'[j] = fired[j]
    BY <1>4, <2>1, <2>2
  <2>3. CASE fired'[j] # fired[j]
    <3>1. j = k /\ fired'[j] = slot /\ slot - recorded[j] <= 1
      BY <1>1, <1>a, <2>3
    <3>2. recorded[j] # W!Never
      BY <3>1, <1>a DEF W!Never, W!Day
    <3>3. AlarmOk(j)
      BY DEF AlarmsInv
    <3>4. \/ recorded[j] <= reached[j] \/ recorded[j] <= failed[j]
          \/ \E q \in Workers : Handling(q, j)
      BY <3>2, <3>3 DEF AlarmOk
    <3> QED BY <1>4, <1>a, <3>1, <3>4
  <2> QED BY <2>2, <2>3
<1> QED BY <1>1, <1>3, <1>5, <1>6 DEF AlarmsInv, ReportsOk, DaysOk, SevenOk, HalfPastNineOk

LEMMA AlarmsDeliver ==
    ASSUME AlarmsInv, NEW p \in Workers, W!Record(p) \/ \E mailWorks \in BOOLEAN : W!Deliver(p, mailWorks)
    PROVE  AlarmsInv'
<1> DEFINE k == proc[p][2]
<1>a. /\ slot \in Nat /\ 4 <= slot /\ recorded \in [Keys -> Int] /\ fired \in [Keys -> Int]
      /\ reached \in [Keys -> Int] /\ failed \in [Keys -> Int] /\ proc \in [Workers -> Procs]
  BY DEF AlarmsInv, WatchTyped, W!Day
<1>1. /\ proc[p] # <<>> /\ k \in Keys
      /\ UNCHANGED <<slot, issued, trail, down, blank, manual, done>>
  BY <1>a DEF W!Record, W!Deliver, W!Idle, W!reports, Procs
<1>2. CASE W!Record(p)
  <2>1. /\ recorded' = [recorded EXCEPT ![k] = slot]
        /\ proc' = [proc EXCEPT ![p] = <<"deliver", k>>]
        /\ UNCHANGED <<fired, reached, failed>>
    BY <1>2 DEF W!Record
  <2>2. <<"deliver", k>> \in Procs
    BY <1>1 DEF Procs
  <2>3. \A q \in Workers, j \in Keys : Handling(q, j) => Handling(q, j)'
    BY <1>1, <1>a, <2>1 DEF Handling
  <2>4. Handling(p, k)
    BY <1>1 DEF Handling
  <2>5. ASSUME NEW j \in Keys PROVE AlarmOk(j)'
    BY <1>1, <1>a, <2>1, <2>3, <2>4 DEF AlarmsInv, AlarmOk
  <2>6. W!AlarmReaches'
    BY <2>1, <2>3 DEF AlarmsInv, W!AlarmReaches, W!Idle, Handling
  <2>7. WatchTyped'
    BY <1>1, <1>a, <2>1, <2>2 DEF AlarmsInv, WatchTyped
  <2> QED BY <1>1, <2>5, <2>6, <2>7 DEF AlarmsInv, ReportsOk, DaysOk, SevenOk, HalfPastNineOk
<1>3. ASSUME NEW mailWorks \in BOOLEAN, W!Deliver(p, mailWorks) PROVE AlarmsInv'
  <2>1. /\ fired' = [fired EXCEPT ![k] = slot] /\ recorded' = recorded
        /\ \/ reached' = [reached EXCEPT ![k] = slot] /\ failed' = failed
           \/ failed' = [failed EXCEPT ![k] = slot] /\ reached' = reached
        /\ proc' = [proc EXCEPT ![p] = <<>>]
    BY <1>3 DEF W!Deliver, W!Idle
  <2>2. <<>> \in Procs
    BY DEF Procs
  <2>3. \A q \in Workers, j \in Keys : Handling(q, j) /\ j # k => Handling(q, j)'
    BY <1>1, <1>a, <2>1 DEF Handling
  <2>4. ASSUME NEW j \in Keys PROVE AlarmOk(j)'
    <3>1. AlarmOk(j)
      BY DEF AlarmsInv
    <3>2. CASE j = k
      BY <1>1, <1>a, <2>1, <3>1, <3>2 DEF AlarmOk
    <3>3. CASE j # k
      BY <1>1, <1>a, <2>1, <2>3, <3>1, <3>3 DEF AlarmOk
    <3> QED BY <3>2, <3>3
  <2>5. W!AlarmReaches'
    <3> SUFFICES ASSUME NEW j \in Keys
                 PROVE  \/ fired'[j] = W!Never \/ fired'[j] - reached'[j] <= 1
                        \/ fired'[j] - failed'[j] <= 1 \/ \E q \in Workers : Handling(q, j)'
      BY <1>1 DEF W!AlarmReaches, W!QuietTime, W!Idle, Handling
    <3>1. \/ fired[j] = W!Never \/ fired[j] - reached[j] <= 1
          \/ fired[j] - failed[j] <= 1 \/ \E q \in Workers : Handling(q, j)
      BY DEF AlarmsInv, W!AlarmReaches, W!QuietTime, W!Idle, Handling
    <3>2. CASE j = k
      BY <1>1, <1>a, <2>1, <3>2
    <3>3. CASE j # k
      <4>1. fired'[j] = fired[j] /\ reached'[j] = reached[j] /\ failed'[j] = failed[j]
        BY <1>1, <1>a, <2>1, <3>3
      <4> QED BY <2>3, <3>1, <3>3, <4>1
    <3> QED BY <3>2, <3>3
  <2>6. WatchTyped'
    BY <1>1, <1>a, <2>1, <2>2 DEF AlarmsInv, WatchTyped
  <2> QED BY <1>1, <2>4, <2>5, <2>6 DEF AlarmsInv, ReportsOk, DaysOk, SevenOk, HalfPastNineOk
<1> QED BY <1>2, <1>3

\* The report's steps leave the alarms alone.
LEMMA AlarmsKept ==
    ASSUME AlarmsInv, UNCHANGED <<recorded, proc, fired, reached, failed>>, slot <= slot',
           slot' \in Nat, issued' \subseteq Nat, trail' \subseteq Nat, down' \subseteq Nat,
           blank' \subseteq Nat, done' \in BOOLEAN, ReportsOk', DaysOk'
    PROVE  AlarmsInv'
<1>1. WatchTyped'
  BY DEF AlarmsInv, WatchTyped, W!Day
<1>2. ASSUME NEW k \in Keys PROVE AlarmOk(k)'
  <2>1. AlarmOk(k) /\ recorded[k] \in Int /\ slot \in Nat
    BY DEF AlarmsInv, WatchTyped
  <2>2. recorded[k] <= slot'
    BY <2>1 DEF AlarmOk
  <2> QED BY <2>1, <2>2 DEF AlarmOk, Handling
<1>3. W!AlarmReaches'
  BY DEF AlarmsInv, W!AlarmReaches
<1> QED BY <1>1, <1>2, <1>3 DEF AlarmsInv

LEMMA ReportKeeps ==
    ASSUME AlarmsInv, W!Report, slot' = slot
    PROVE  /\ ReportsOk' /\ issued' \subseteq Nat /\ trail' \subseteq Nat
           /\ issued \subseteq issued' /\ slot \in issued'
<1>a. slot \in Nat /\ 4 <= slot /\ issued \subseteq Nat /\ trail \subseteq Nat
  BY DEF AlarmsInv, WatchTyped, W!Day
<1>1. /\ issued' = issued \cup {slot}
      /\ trail' = trail \cup {t \in 4..(slot - 1) : t >= slot - 4}
  BY DEF W!Report, W!Covered, W!Period, W!Day
<1>2. ASSUME NEW t \in issued', NEW x \in 4..(t - 1), t - 4 <= x PROVE x \in trail'
  <2>1. CASE t \in issued
    BY <1>1, <1>2, <2>1 DEF AlarmsInv, ReportsOk, W!Day, W!Period
  <2>2. CASE t = slot
    BY <1>1, <1>2, <1>a, <2>2
  <2> QED BY <1>1, <2>1, <2>2
<1>3. ReportsOk'
  BY <1>1, <1>2, <1>a DEF AlarmsInv, ReportsOk, W!Day, W!Period
<1>4. trail' \subseteq Nat
  <2>1. {t \in 4..(slot - 1) : t >= slot - 4} \subseteq Nat
    BY <1>a
  <2> QED BY <1>1, <1>a, <2>1, Zenon
<1> QED BY <1>1, <1>3, <1>4, <1>a

LEMMA AlarmsCron ==
    ASSUME AlarmsInv, NEW mailWorks \in BOOLEAN, W!Cron(mailWorks)
    PROVE  AlarmsInv'
<1>a. /\ slot \in Nat /\ 4 <= slot /\ down \subseteq Nat /\ issued \subseteq Nat
      /\ trail \subseteq Nat /\ blank \subseteq Nat
  BY DEF AlarmsInv, WatchTyped, W!Day
<1>1. /\ slot % 4 = 1 /\ ~done /\ done' = TRUE
      /\ \/ W!Report /\ down' = down
         \/ down' = down \cup {W!DayOf(slot)} /\ UNCHANGED <<trail, issued>>
      /\ UNCHANGED <<slot, recorded, proc, fired, reached, failed, blank, manual>>
  BY DEF W!Cron, W!alarms, W!Day
<1>2. W!DayOf(slot) \in Nat /\ slot = 4 * W!DayOf(slot) + 1
  BY <1>a, <1>1 DEF W!DayOf, W!Day
<1>3. /\ ReportsOk' /\ issued' \subseteq Nat /\ trail' \subseteq Nat /\ down' \subseteq Nat
      /\ issued \subseteq issued' /\ down \subseteq down'
      /\ slot \in issued' \/ W!DayOf(slot) \in down'
  <2>1. CASE W!Report
    BY <1>1, <1>2, <1>a, <2>1, ReportKeeps
  <2>2. CASE ~W!Report
    BY <1>1, <1>2, <1>a, <2>2 DEF AlarmsInv, ReportsOk
  <2> QED BY <2>1, <2>2
<1>4. DaysOk'
  <2> SUFFICES ASSUME NEW D \in Nat \ {0}
               PROVE  /\ 4 * D + 1 <= slot => SevenOk(D)'
                      /\ 4 * D + 2 <= slot => HalfPastNineOk(D)'
    BY <1>1, <1>a DEF DaysOk
  <2>1. /\ 4 * D + 1 < slot => SevenOk(D)
        /\ 4 * D + 2 < slot => HalfPastNineOk(D)
    BY DEF AlarmsInv, DaysOk
  <2>2. (SevenOk(D) => SevenOk(D)') /\ (HalfPastNineOk(D) => HalfPastNineOk(D)')
    BY <1>1, <1>3 DEF SevenOk, HalfPastNineOk
  <2>3. 4 * D + 1 = slot => D = W!DayOf(slot)
    BY <1>2
  <2>4. 4 * D + 1 = slot => SevenOk(D)'
    BY <1>3, <2>3 DEF SevenOk
  <2>5. 4 * D + 2 # slot
    BY <1>2
  <2> QED BY <1>a, <2>1, <2>2, <2>4, <2>5
<1> QED BY <1>1, <1>3, <1>4, <1>a, AlarmsKept

LEMMA AlarmsFallback ==
    ASSUME AlarmsInv, NEW mailWorks \in BOOLEAN, W!Fallback(mailWorks)
    PROVE  AlarmsInv'
<1>a. /\ slot \in Nat /\ 4 <= slot /\ down \subseteq Nat /\ issued \subseteq Nat
      /\ trail \subseteq Nat /\ blank \subseteq Nat
  BY DEF AlarmsInv, WatchTyped, W!Day
<1>1. /\ slot % 4 = 2 /\ done' = TRUE
      /\ UNCHANGED <<slot, recorded, proc, fired, reached, failed, down, manual>>
  BY DEF W!Fallback, W!alarms, W!Day
<1>2. W!DayOf(slot) \in Nat /\ slot = 4 * W!DayOf(slot) + 2
  BY <1>a, <1>1 DEF W!DayOf, W!Day
<1>3. /\ ReportsOk' /\ issued' \subseteq Nat /\ trail' \subseteq Nat /\ blank' \subseteq Nat
      /\ issued \subseteq issued' /\ blank \subseteq blank'
      /\ slot \in issued' \/ slot - 1 \in issued' \/ W!DayOf(slot) \in blank'
  <2>1. CASE W!SentRecently
    <3>1. UNCHANGED <<trail, issued>>
      BY <2>1 DEF W!Fallback
    <3>2. PICK t \in issued : slot - t <= 3
      BY <2>1 DEF W!SentRecently, W!SentWindow
    <3>3. CASE \E x \in issued : x % 4 \in {0, 3} /\ slot - x <= 3
      <4>1. blank' = blank \cup {W!DayOf(slot)}
        BY <2>1, <3>3 DEF W!Fallback, W!SentWindow, W!Day
      <4> QED BY <1>2, <1>1, <1>a, <3>1, <4>1 DEF AlarmsInv, ReportsOk
    <3>4. CASE ~\E x \in issued : x % 4 \in {0, 3} /\ slot - x <= 3
      <4>1. blank' = blank
        BY <2>1, <3>4 DEF W!Fallback, W!SentWindow, W!Day
      <4>2. t \in Nat /\ t % 4 \notin {0, 3} /\ t <= slot
        BY <1>a, <3>2, <3>4 DEF AlarmsInv, ReportsOk
      <4>3. t = slot \/ t = slot - 1
        BY <1>1, <1>a, <3>2, <4>2
      <4> QED BY <1>1, <1>a, <3>1, <4>1, <4>3 DEF AlarmsInv, ReportsOk
    <3> QED BY <3>3, <3>4
  <2>2. CASE ~W!SentRecently /\ mailWorks
    <3>1. W!Report /\ blank' = blank
      BY <2>2 DEF W!Fallback
    <3> QED BY <1>1, <1>a, <3>1, ReportKeeps
  <2>3. CASE ~W!SentRecently /\ ~mailWorks
    <3>1. blank' = blank \cup {W!DayOf(slot)} /\ UNCHANGED <<trail, issued>>
      BY <2>3 DEF W!Fallback
    <3> QED BY <1>1, <1>2, <1>a, <3>1 DEF AlarmsInv, ReportsOk
  <2> QED BY <2>1, <2>2, <2>3
<1>4. DaysOk'
  <2> SUFFICES ASSUME NEW D \in Nat \ {0}
               PROVE  /\ 4 * D + 1 <= slot => SevenOk(D)'
                      /\ 4 * D + 2 <= slot => HalfPastNineOk(D)'
    BY <1>1, <1>a DEF DaysOk
  <2>1. /\ 4 * D + 1 < slot => SevenOk(D)
        /\ 4 * D + 2 < slot => HalfPastNineOk(D)
    BY DEF AlarmsInv, DaysOk
  <2>2. (SevenOk(D) => SevenOk(D)') /\ (HalfPastNineOk(D) => HalfPastNineOk(D)')
    BY <1>1, <1>3 DEF SevenOk, HalfPastNineOk
  <2>3. 4 * D + 2 = slot => D = W!DayOf(slot) /\ 4 * D + 1 = slot - 1
    BY <1>2
  <2>4. 4 * D + 2 = slot => HalfPastNineOk(D)'
    BY <1>3, <2>3 DEF HalfPastNineOk
  <2>5. 4 * D + 1 # slot
    BY <1>2
  <2> QED BY <1>a, <2>1, <2>2, <2>4, <2>5
<1> QED BY <1>1, <1>3, <1>4, <1>a, AlarmsKept

LEMMA AlarmsByHand == ASSUME AlarmsInv, W!ByHand PROVE AlarmsInv'
<1>1. W!Report /\ UNCHANGED <<slot, recorded, proc, fired, reached, failed, down, blank, done>>
  BY DEF W!ByHand, W!alarms
<1>2. /\ ReportsOk' /\ issued' \subseteq Nat /\ trail' \subseteq Nat
      /\ issued \subseteq issued'
  BY <1>1, ReportKeeps
<1>3. DaysOk'
  BY <1>1, <1>2 DEF AlarmsInv, DaysOk, SevenOk, HalfPastNineOk
<1> QED BY <1>1, <1>2, <1>3, AlarmsKept DEF AlarmsInv, WatchTyped

LEMMA AlarmsTick == ASSUME AlarmsInv, W!Tick PROVE AlarmsInv'
<1>a. slot \in Nat /\ 4 <= slot
  BY DEF AlarmsInv, WatchTyped, W!Day
<1>1. /\ slot % 4 \in {1, 2} => done
      /\ slot' = slot + 1 /\ done' = FALSE
      /\ UNCHANGED <<recorded, proc, fired, reached, failed, issued, trail, down, blank>>
  BY DEF W!Tick, W!alarms, W!Day
<1>2. DaysOk'
  <2> SUFFICES ASSUME NEW D \in Nat \ {0}
               PROVE  /\ 4 * D + 1 < slot + 1 => SevenOk(D)'
                      /\ 4 * D + 2 < slot + 1 => HalfPastNineOk(D)'
    BY <1>1 DEF DaysOk
  <2>1. /\ 4 * D + 1 < slot \/ (4 * D + 1 = slot /\ done) => SevenOk(D)
        /\ 4 * D + 2 < slot \/ (4 * D + 2 = slot /\ done) => HalfPastNineOk(D)
    BY DEF AlarmsInv, DaysOk
  <2>2. (SevenOk(D) => SevenOk(D)') /\ (HalfPastNineOk(D) => HalfPastNineOk(D)')
    BY <1>1 DEF SevenOk, HalfPastNineOk
  <2>3. (4 * D + 1) % 4 = 1 /\ (4 * D + 2) % 4 = 2
    OBVIOUS
  <2>4. 4 * D + 1 = slot \/ 4 * D + 2 = slot => done
    BY <1>1, <2>3
  <2> QED BY <1>a, <2>1, <2>2, <2>4
<1>3. ReportsOk'
  BY <1>1, <1>a DEF AlarmsInv, WatchTyped, ReportsOk
<1>4. slot <= slot' /\ slot' \in Nat /\ done' \in BOOLEAN
  <2>1. done' \in BOOLEAN
    BY <1>1, Zenon
  <2> QED BY <1>1, <1>a, <2>1
<1>5. issued' \subseteq Nat /\ trail' \subseteq Nat /\ down' \subseteq Nat /\ blank' \subseteq Nat
  BY <1>1 DEF AlarmsInv, WatchTyped
<1> QED BY <1>1, <1>2, <1>3, <1>4, <1>5, AlarmsKept

LEMMA AlarmsStep == AlarmsInv /\ [W!Next]_watchVars => AlarmsInv'
<1> SUFFICES ASSUME AlarmsInv, [W!Next]_watchVars PROVE AlarmsInv'
  OBVIOUS
<1>1. CASE W!Tick \/ W!ByHand
  BY <1>1, AlarmsTick, AlarmsByHand
<1>2. ASSUME NEW mailWorks \in BOOLEAN, W!Cron(mailWorks) \/ W!Fallback(mailWorks) PROVE AlarmsInv'
  BY <1>2, AlarmsCron, AlarmsFallback
<1>3. ASSUME NEW p \in Workers, \/ W!Record(p)
                                \/ \E k \in Keys : W!Fire(p, k)
                                \/ \E mailWorks \in BOOLEAN : W!Deliver(p, mailWorks)
      PROVE  AlarmsInv'
  BY <1>3, AlarmsFire, AlarmsDeliver
<1>4. CASE UNCHANGED watchVars
  <2>1. UNCHANGED <<slot, recorded, proc, fired, reached, failed, issued, trail, down, blank, done>>
    BY <1>4 DEF watchVars
  <2>2. ReportsOk' /\ DaysOk'
    BY <2>1 DEF AlarmsInv, ReportsOk, DaysOk, SevenOk, HalfPastNineOk
  <2> QED BY <2>1, <2>2, AlarmsKept DEF AlarmsInv, WatchTyped
<1> QED BY <1>1, <1>2, <1>3, <1>4 DEF W!Next

LEMMA AlarmsInit == W!Init => AlarmsInv
<1> SUFFICES ASSUME W!Init PROVE AlarmsInv
  OBVIOUS
<1>1. WatchTyped
  <2>1. W!Never \in Int /\ W!Idle \in Procs /\ W!Day = 4
    BY DEF W!Never, W!Day, W!Idle, Procs
  <2>2. done \in BOOLEAN
    BY Zenon DEF W!Init
  <2> QED BY <2>1, <2>2 DEF W!Init, WatchTyped
<1>2. \A k \in Keys : AlarmOk(k)
  BY DEF W!Init, AlarmOk, W!Day, W!Never
<1>3. ReportsOk /\ DaysOk /\ W!AlarmReaches
  <2>1. \A D \in Nat \ {0} : ~(4 * D + 1 <= 4) /\ ~(4 * D + 2 <= 4)
    OBVIOUS
  <2> QED BY <2>1 DEF W!Init, ReportsOk, DaysOk, W!AlarmReaches, W!Never, W!Day
<1> QED BY <1>1, <1>2, <1>3 DEF AlarmsInv

LEMMA AlarmsTold == AlarmsInv => W!AlarmReaches /\ W!TrailIsKept
<1> SUFFICES ASSUME AlarmsInv PROVE W!AlarmReaches /\ W!TrailIsKept
  OBVIOUS
<1>a. slot \in Nat
  BY DEF AlarmsInv, WatchTyped
<1>1. ASSUME NEW t \in 4..(slot - 6)
      PROVE  \/ t \in trail
             \/ t % 4 = 1 /\ W!DayOf(t) + 1 \in down
             \/ {W!DayOf(t), W!DayOf(t) + 1} \cap blank # {}
  <2> DEFINE D == W!DayOf(t)
  <2>1. /\ D \in Nat \ {0} /\ D + 1 \in Nat \ {0} /\ t \in Nat
        /\ t = 4 * D \/ t = 4 * D + 1 \/ t = 4 * D + 2 \/ t = 4 * D + 3
        /\ t = 4 * D + 1 => t % 4 = 1
    BY <1>a DEF W!DayOf, W!Day
  <2> HIDE DEF D
  <2>2. ASSUME NEW r \in issued, r - 4 <= t, t < r PROVE t \in trail
    <3>1. r \in Nat
      BY DEF AlarmsInv, WatchTyped
    <3> QED BY <2>1, <2>2, <3>1 DEF AlarmsInv, ReportsOk, W!Day, W!Period
  <2>3. CASE t = 4 * D
    <3>1. HalfPastNineOk(D)
      <4>1. 4 * D + 2 < slot
        BY <1>a, <2>1, <2>3
      <4> QED BY <2>1, <4>1 DEF AlarmsInv, DaysOk
    <3>2. CASE D \in blank
      BY <3>2 DEF D
    <3>3. CASE 4 * D + 1 \in issued \/ 4 * D + 2 \in issued
      BY <2>1, <2>2, <2>3, <3>3
    <3> QED BY <3>1, <3>2, <3>3 DEF HalfPastNineOk
  <2>4. CASE t # 4 * D
    <3>1. HalfPastNineOk(D + 1) /\ SevenOk(D + 1)
      <4>1. 4 * (D + 1) + 1 < slot /\ 4 * (D + 1) + 2 < slot
        BY <1>a, <2>1, <2>4
      <4> QED BY <2>1, <4>1 DEF AlarmsInv, DaysOk
    <3>2. CASE D + 1 \in blank
      BY <3>2 DEF D
    <3>3. CASE 4 * (D + 1) + 1 \in issued
      BY <2>1, <2>2, <2>4, <3>3
    <3>4. CASE 4 * (D + 1) + 2 \in issued /\ t # 4 * D + 1
      BY <2>1, <2>2, <2>4, <3>4
    <3>5. CASE t = 4 * D + 1 /\ D + 1 \in down
      BY <2>1, <3>5 DEF D
    <3> QED BY <3>1, <3>2, <3>3, <3>4, <3>5 DEF HalfPastNineOk, SevenOk
  <2> QED BY <2>3, <2>4
<1> QED BY <1>1, <1>a DEF AlarmsInv, W!TrailIsKept, W!Day

-----------------------------------------------------------------------------
(* What there is to tell, told once *)

TellingInv == ReviewsInv /\ NewsInv /\ AgendaInv /\ AlarmsInv

LEMMA TellingStep == TellingInv /\ [PartNext]_<<part, vars, reminderVars, mailVars>> => TellingInv'
<1> SUFFICES ASSUME TellingInv, [PartNext]_<<part, vars, reminderVars, mailVars>>
             PROVE  TellingInv'
  OBVIOUS
<1>1. /\ [V!Next]_reviewVars /\ [N!Next]_noticeVars
      /\ [A!Next]_agendaVars /\ [W!Next]_watchVars
  BY DEF PartNext, mailVars
<1>2. N!NoticeAssumption /\ A!AgendaAssumption
  BY MailingsAssumption
<1> QED BY <1>1, <1>2, ReviewsStep, NewsStep, AgendaStep, AlarmsStep DEF TellingInv

LEMMA TellingAlways == PartSpec => []TellingInv
<1>1. PartInit => TellingInv
  BY MailingsAssumption, ReviewsInit, NewsInit, AgendaInit, AlarmsInit DEF PartInit, TellingInv
<1> QED BY <1>1, TellingStep, PTL DEF PartSpec

(* What there is to tell gets through but for what a killed worker or a      *)
(* refusing mail server takes: unseen news are mailed, in a "komplet" email, *)
(* in a worker's hand or lost with it; the morning email has what was due    *)
(* when the day was marked; an alarm is in an email of the last QUIET; the   *)
(* log is in a report.                                                       *)
THEOREM NothingUntoldAlways == PartSpec => []NothingUntold
<1>1. TellingInv => NothingUntold
  BY MailingsAssumption, NewsTold, AgendaTold, AlarmsTold DEF TellingInv, NothingUntold
<1> QED BY <1>1, TellingAlways, PTL

(* And it is told once: a notice that was claimed is in one email, and in    *)
(* one more for each worker that had read it before and was left another one *)
(* to claim; an answer leaves a notice for each process at most; a day has   *)
(* one morning email; and an account is asked for a review twice, and once   *)
(* more for each killed worker and each list read meanwhile.                 *)
THEOREM NothingToldTwiceAlways == PartSpec => []NothingToldTwice
<1>1. TellingInv => NothingToldTwice
  BY MailingsAssumption, NewsTold, AgendaTold, ReviewsPolite DEF TellingInv, NothingToldTwice
<1> QED BY <1>1, TellingAlways, PTL

-----------------------------------------------------------------------------
(* Lemmas about numbers and lists *)

\* A set of numbers has a least one, and a greatest if it is bounded.
LEMMA Least ==
    ASSUME NEW T \in SUBSET Nat, T # {}
    PROVE  \E x \in T : \A y \in T : x <= y
<1> DEFINE LessThan == OpToRel(<, Nat)
<1>1. IsWellFoundedOn(LessThan, Nat)
  BY NatLessThanWellFounded
<1>2. \A x, y \in Nat : x < y => <<x, y>> \in LessThan
  BY DEF OpToRel
<1> HIDE DEF LessThan
<1>3. PICK x \in T : \A y \in T : ~(<<y, x>> \in LessThan)
  BY <1>1, WFMin, Zenon
<1>4. ASSUME NEW y \in T PROVE x <= y
  <2>1. x \in Nat /\ y \in Nat /\ ~(y < x)
    BY <1>2, <1>3
  <2> QED BY <2>1
<1> QED BY <1>4

LEMMA Greatest ==
    ASSUME NEW T \in SUBSET Nat, T # {}, NEW b \in Nat, \A t \in T : t <= b
    PROVE  \E x \in T : \A y \in T : y <= x
<1> DEFINE below == {b - t : t \in T}
<1>1. below \in SUBSET Nat /\ below # {}
  <2>1. \A t \in T : b - t \in Nat
    OBVIOUS
  <2> QED BY <2>1
<1>2. PICK m \in below : \A y \in below : m <= y
  BY <1>1, Least
<1>3. PICK x \in T : m = b - x
  OBVIOUS
<1>4. ASSUME NEW y \in T PROVE y <= x
  <2>1. b - x <= b - y
    BY <1>2, <1>3
  <2> QED BY <2>1
<1> QED BY <1>4

LEMMA Appended ==
    ASSUME NEW S, NEW s \in Seq(S), NEW e \in S
    PROVE  /\ Append(s, e) \in Seq(S) /\ Len(s) \in Nat
           /\ DOMAIN Append(s, e) = DOMAIN s \cup {Len(s) + 1}
           /\ Len(s) + 1 \notin DOMAIN s
           /\ Append(s, e)[Len(s) + 1] = e
           /\ \A i \in DOMAIN s : Append(s, e)[i] = s[i]
OBVIOUS

LEMMA Positions ==
    ASSUME NEW S, NEW s \in Seq(S), NEW T \in SUBSET DOMAIN s
    PROVE  IsFiniteSet(T) /\ Cardinality(T) \in Nat
<1>1. DOMAIN s = 1..Len(s) /\ Len(s) \in Nat
  OBVIOUS
<1>2. IsFiniteSet(DOMAIN s)
  BY <1>1, FS_Interval
<1> QED BY <1>2, FS_Subset, FS_CardinalityType

LEMMA OneMore ==
    ASSUME NEW S, IsFiniteSet(S), NEW x, x \notin S
    PROVE  Cardinality(S \cup {x}) = Cardinality(S) + 1 /\ Cardinality(S) \in Nat
BY FS_AddElement, FS_CardinalityType

-----------------------------------------------------------------------------
(* Reminders: the invariant *)

LEMMA ReminderSets ==
    ASSUME NEW X
    PROVE  (R!IsFiniteSet(X) <=> IsFiniteSet(X)) /\ R!Cardinality(X) = Cardinality(X)
<1>1. R!IsFiniteSet(X) <=> IsFiniteSet(X)
  BY DEF R!IsFiniteSet, IsFiniteSet
<1>2. R!Cardinality(X) = Cardinality(X)
  BY DEF R!Cardinality, Cardinality
<1> QED BY <1>1, <1>2

LEMMA ReminderSettings ==
    ASSUME R!SettingsAssumption
    PROVE  /\ IsFiniteSet(Senders) /\ Cardinality(Senders) \in Nat
           /\ Workers \cap Senders = {}
           /\ \A r \in Schedules :
                 /\ r.created \in 0..2 /\ r.clock \in 1..2 /\ r.first \in Nat
                 /\ r.every \in Nat \ {0} /\ r.limit \in Nat /\ r.day \in Nat
BY ReminderSets, FS_CardinalityType DEF R!SettingsAssumption, R!Request

MailedOn(D) == {j \in DOMAIN mails : R!DayOf(mails[j]) = D}

RowsOn(D) ==
    {i \in DOMAIN reminders : reminders[i].kind \in R!Scheduled
                              /\ R!DayOf(reminders[i].at) = D}

ManualAt(t) == {i \in DOMAIN reminders : reminders[i] = [kind |-> "manual", at |-> t]}

BusySenders == {p \in Senders : wk[p] # "idle"}

RemindersTyped ==
    /\ req \in Schedules /\ now \in Nat /\ crashes \in Nat
    /\ reminders \in Seq(R!Reminder) /\ mails \in Seq(Nat)
    /\ wk \in [Workers \cup Senders -> R!Scheduled \cup {"manual", "idle"}]
    /\ \A w \in Workers : wk[w] \in R!Scheduled \cup {"idle"}
    /\ \A p \in Senders : wk[p] \in {"manual", "idle"}
    /\ \A i \in DOMAIN reminders : reminders[i].at <= now

\* The row is locked by one worker, which found no reminder of this day.
LockOk ==
    \A w \in Workers : wk[w] # "idle" =>
        /\ \A v \in Workers : v # w => wk[v] = "idle"
        /\ \A D \in Nat : R!DayOf(now) <= D => RowsOn(D) = {}

\* A day has one row, and no email without it but those of killed workers.
OnTheDayOk ==
    \A D \in Nat : /\ Cardinality(RowsOn(D)) <= 1
                   /\ Cardinality(MailedOn(D)) <= Cardinality(RowsOn(D)) + crashes

\* A manual reminder takes the place of a click.
ManualOk ==
    /\ \A t \in Nat : Cardinality(ManualAt(t)) <= Cardinality(Senders)
    /\ Cardinality(ManualAt(now)) + Cardinality(BusySenders) <= Cardinality(Senders)

RemindersInv == RemindersTyped /\ LockOk /\ OnTheDayOk /\ ManualOk

LEMMA RowTypes ==
    ASSUME RemindersTyped
    PROVE  \A i \in DOMAIN reminders :
               reminders[i] \in R!Reminder /\ reminders[i].at \in Nat /\ reminders[i].at <= now
<1> SUFFICES ASSUME NEW i \in DOMAIN reminders
             PROVE  /\ reminders[i] \in R!Reminder /\ reminders[i].at \in Nat
                    /\ reminders[i].at <= now
  OBVIOUS
<1>1. reminders[i] \in R!Reminder /\ reminders[i].at <= now
  BY DEF RemindersTyped
<1> QED BY <1>1 DEF R!Reminder

LEMMA TimesOk ==
    ASSUME RemindersTyped, NEW kinds
    PROVE  R!Times(reminders, kinds) \in SUBSET Nat /\ \A t \in R!Times(reminders, kinds) : t <= now
BY RowTypes DEF R!Times

LEMMA ReminderCounts ==
    ASSUME R!SettingsAssumption, RemindersTyped
    PROVE  /\ \A D \in Nat : /\ IsFiniteSet(RowsOn(D)) /\ Cardinality(RowsOn(D)) \in Nat
                             /\ IsFiniteSet(MailedOn(D)) /\ Cardinality(MailedOn(D)) \in Nat
           /\ \A t \in Nat : IsFiniteSet(ManualAt(t)) /\ Cardinality(ManualAt(t)) \in Nat
           /\ IsFiniteSet(BusySenders) /\ Cardinality(BusySenders) \in Nat
           /\ Cardinality(BusySenders) <= Cardinality(Senders)
           /\ R!DayOf(now) \in Nat
<1>1. ASSUME NEW D \in Nat
      PROVE  /\ IsFiniteSet(RowsOn(D)) /\ Cardinality(RowsOn(D)) \in Nat
             /\ IsFiniteSet(MailedOn(D)) /\ Cardinality(MailedOn(D)) \in Nat
             /\ IsFiniteSet(ManualAt(D)) /\ Cardinality(ManualAt(D)) \in Nat
  <2>1. /\ RowsOn(D) \in SUBSET DOMAIN reminders /\ ManualAt(D) \in SUBSET DOMAIN reminders
        /\ MailedOn(D) \in SUBSET DOMAIN mails
    BY DEF RowsOn, MailedOn, ManualAt
  <2> QED BY <2>1, Positions DEF RemindersTyped
<1>2. /\ IsFiniteSet(BusySenders) /\ Cardinality(BusySenders) \in Nat
      /\ Cardinality(BusySenders) <= Cardinality(Senders)
  BY ReminderSettings, FS_Subset, FS_CardinalityType DEF BusySenders
<1>3. R!DayOf(now) \in Nat
  BY DEF RemindersTyped, R!DayOf, R!Day
<1> QED BY <1>1, <1>2, <1>3

(* Reminders: the steps *)

\* A reminder that is due has no other of its day.
LEMMA DueIsFirst ==
    ASSUME R!SettingsAssumption, RemindersTyped, R!DueNow # "none"
    PROVE  /\ R!DueNow \in R!Scheduled
           /\ \A D \in Nat : R!DayOf(now) <= D => RowsOn(D) = {}
<1> DEFINE soon == R!DeadlineDueAt(req, now, reminders)
           auto == R!AutomaticDueAt(req, now, reminders)
<1>1. /\ R!DueNow = R!DueAt(req, now, reminders)
      /\ soon # {} \/ auto
      /\ R!DueNow \in R!Scheduled
  BY DEF R!DueNow, R!DueAt, R!First, R!Scheduled
<1>2. /\ req.clock \in 1..2 /\ req.every \in Nat \ {0} /\ req.day \in Nat
      /\ now \in Nat
  BY ReminderSettings DEF RemindersTyped
<1>3. ASSUME NEW i \in DOMAIN reminders, reminders[i].kind \in R!Scheduled
      PROVE  R!DayOf(reminders[i].at) < R!DayOf(now)
  <2> DEFINE s == reminders[i].at
  <2>1. s \in Nat /\ s <= now
    BY RowTypes
  <2>2. CASE soon # {}
    <3>1. PICK k \in soon : TRUE
      BY <2>2
    <3>2. R!DeadlineDue(req, k) <= now /\ ~R!IsRecent(req, k, s)
      BY <3>1 DEF R!DeadlineDueAt, R!LastOf
    <3>3. PICK m \in Int : R!DeadlineDue(req, k) = m * 3 + req.clock
      BY <1>2 DEF R!DeadlineDue, R!Day, R!DaysBefore
    <3>4. s + 2 < m * 3 + req.clock /\ m * 3 + req.clock <= now
      BY <1>2, <2>1, <3>2, <3>3 DEF R!IsRecent, R!Recent
    <3> QED BY <1>2, <2>1, <3>4 DEF R!DayOf, R!Day
  <2>3. CASE auto
    <3> DEFINE anchors == R!Times(reminders, R!Interval)
    <3>1. now >= R!NextDue(req, anchors)
      BY <2>3 DEF R!AutomaticDueAt
    <3>2. s \in anchors
      BY <1>3 DEF R!Times, R!Interval
    <3>3. anchors \in SUBSET Nat /\ \A t \in anchors : t <= now
      BY TimesOk
    <3> HIDE DEF anchors, s
    <3>4. \E x \in anchors : \A y \in anchors : y <= x
      BY <1>2, <3>2, <3>3, Greatest
    <3>5. PICK x \in anchors : /\ \A y \in anchors : y <= x
                               /\ R!NextDue(req, anchors) = R!AtClock(req, x, req.every)
      BY <3>2, <3>4 DEF R!NextDue
    <3>6. (R!DayOf(x) + req.every) * 3 + req.clock <= now /\ x \in Nat /\ s <= x
      BY <1>2, <3>1, <3>2, <3>3, <3>5 DEF R!AtClock, R!Day, R!DayOf
    <3>7. R!DayOf(x) + 1 <= R!DayOf(now) /\ R!DayOf(s) <= R!DayOf(x)
      BY <1>2, <2>1, <3>6 DEF R!DayOf, R!Day
    <3>8. R!DayOf(x) \in Nat /\ R!DayOf(s) \in Nat /\ R!DayOf(now) \in Nat
      BY <1>2, <2>1, <3>6 DEF R!DayOf, R!Day
    <3>9. R!DayOf(s) < R!DayOf(now)
      BY <3>7, <3>8
    <3> QED BY <3>9 DEF s
  <2> QED BY <1>1, <2>2, <2>3
<1>4. ASSUME NEW D \in Nat, R!DayOf(now) <= D PROVE RowsOn(D) = {}
  <2> SUFFICES ASSUME NEW i \in RowsOn(D) PROVE FALSE
    OBVIOUS
  <2>1. R!DayOf(now) \in Nat
    BY <1>2 DEF R!DayOf, R!Day
  <2> QED BY <1>3, <1>4, <2>1 DEF RowsOn
<1> QED BY <1>1, <1>4

LEMMA RemindersClock ==
    ASSUME R!SettingsAssumption, RemindersInv, R!Tick
    PROVE  RemindersInv'
<1>1. now' = now + 1 /\ UNCHANGED <<req, reminders, wk, mails, crashes>>
  BY DEF R!Tick
<1>2. now \in Nat /\ \A i \in DOMAIN reminders : reminders[i].at \in Nat /\ reminders[i].at <= now
  BY RowTypes DEF RemindersInv, RemindersTyped
<1>3. RemindersTyped'
  BY <1>1, <1>2 DEF RemindersInv, RemindersTyped
<1>4. LockOk'
  <2>1. R!DayOf(now) <= R!DayOf(now + 1) /\ R!DayOf(now) \in Nat /\ R!DayOf(now + 1) \in Nat
    BY <1>2 DEF R!DayOf, R!Day
  <2> QED BY <1>1, <2>1 DEF RemindersInv, LockOk, RowsOn
<1>5. OnTheDayOk'
  BY <1>1 DEF RemindersInv, OnTheDayOk, RowsOn, MailedOn
<1>6. ManualOk'
  <2>1. ManualAt(now + 1) = {}
    BY <1>2 DEF ManualAt
  <2>2. Cardinality(BusySenders) <= Cardinality(Senders) /\ Cardinality(BusySenders) \in Nat
    BY ReminderCounts DEF RemindersInv
  <2>3. ManualAt(now)' = {} /\ BusySenders' = BusySenders /\ \A t \in Nat : ManualAt(t)' = ManualAt(t)
    BY <1>1, <2>1 DEF ManualAt, BusySenders
  <2> QED BY <2>2, <2>3, FS_EmptySet DEF RemindersInv, ManualOk
<1> QED BY <1>3, <1>4, <1>5, <1>6 DEF RemindersInv

LEMMA RemindersTake ==
    ASSUME R!SettingsAssumption, RemindersInv, NEW w \in Workers, R!Take(w)
    PROVE  RemindersInv'
<1>1. /\ \A v \in Workers : wk[v] = "idle"
      /\ R!DueNow # "none" /\ wk' = [wk EXCEPT ![w] = R!DueNow]
      /\ UNCHANGED <<req, now, reminders, mails, crashes>>
  BY DEF R!Take, R!Idle
<1>2. R!DueNow \in R!Scheduled /\ \A D \in Nat : R!DayOf(now) <= D => RowsOn(D) = {}
  BY <1>1, DueIsFirst DEF RemindersInv
<1>3. w \notin Senders /\ wk \in [Workers \cup Senders -> R!Scheduled \cup {"manual", "idle"}]
  BY ReminderSettings DEF RemindersInv, RemindersTyped
<1>4. RemindersTyped'
  BY <1>1, <1>2, <1>3 DEF RemindersInv, RemindersTyped
<1>5. LockOk'
  BY <1>1, <1>2, <1>3 DEF LockOk, RowsOn
<1>6. OnTheDayOk'
  BY <1>1 DEF RemindersInv, OnTheDayOk, RowsOn, MailedOn
<1>7. ManualOk'
  <2>1. BusySenders' = BusySenders
    BY <1>1, <1>3 DEF BusySenders
  <2> QED BY <1>1, <2>1 DEF RemindersInv, ManualOk, ManualAt
<1> QED BY <1>4, <1>5, <1>6, <1>7 DEF RemindersInv

LEMMA MailedOneMore ==
    ASSUME R!SettingsAssumption, RemindersInv, mails' = Append(mails, now)
    PROVE  /\ mails' \in Seq(Nat)
           /\ \A D \in Nat : Cardinality(MailedOn(D)') =
                    Cardinality(MailedOn(D)) + (IF D = R!DayOf(now) THEN 1 ELSE 0)
<1>1. mails \in Seq(Nat) /\ now \in Nat
  BY DEF RemindersInv, RemindersTyped
<1>2. /\ DOMAIN mails' = DOMAIN mails \cup {Len(mails) + 1}
      /\ Len(mails) + 1 \notin DOMAIN mails /\ mails'[Len(mails) + 1] = now
      /\ \A i \in DOMAIN mails : mails'[i] = mails[i]
      /\ mails' \in Seq(Nat)
  BY <1>1, Appended
<1>3. ASSUME NEW D \in Nat
      PROVE  Cardinality(MailedOn(D)') =
                Cardinality(MailedOn(D)) + (IF D = R!DayOf(now) THEN 1 ELSE 0)
  <2>1. IsFiniteSet(MailedOn(D)) /\ Cardinality(MailedOn(D)) \in Nat
    BY ReminderCounts DEF RemindersInv
  <2>2. CASE D = R!DayOf(now)
    <3>1. MailedOn(D)' = MailedOn(D) \cup {Len(mails) + 1} /\ Len(mails) + 1 \notin MailedOn(D)
      BY <1>2, <2>2 DEF MailedOn
    <3> QED BY <2>1, <2>2, <3>1, OneMore
  <2>3. CASE D # R!DayOf(now)
    <3>1. MailedOn(D)' = MailedOn(D)
      BY <1>2, <2>3 DEF MailedOn
    <3> QED BY <2>1, <2>3, <3>1
  <2> QED BY <2>2, <2>3
<1> QED BY <1>2, <1>3

LEMMA RemindersCrash ==
    ASSUME R!SettingsAssumption, RemindersInv, NEW w \in Workers, R!Crash(w)
    PROVE  RemindersInv'
<1>1. /\ crashes' = crashes + 1 /\ mails' = Append(mails, now)
      /\ wk' = [wk EXCEPT ![w] = "idle"]
      /\ UNCHANGED <<req, now, reminders>>
  BY DEF R!Crash, R!Idle
<1>2. w \notin Senders /\ wk \in [Workers \cup Senders -> R!Scheduled \cup {"manual", "idle"}]
  BY ReminderSettings DEF RemindersInv, RemindersTyped
<1>3. RemindersTyped'
  BY <1>1, <1>2, MailedOneMore DEF RemindersInv, RemindersTyped
<1>4. LockOk'
  BY <1>1, <1>2 DEF RemindersInv, LockOk, RowsOn
<1>5. OnTheDayOk'
  <2> SUFFICES ASSUME NEW D \in Nat
               PROVE  /\ Cardinality(RowsOn(D)') <= 1
                      /\ Cardinality(MailedOn(D)') <= Cardinality(RowsOn(D)') + crashes'
    BY DEF OnTheDayOk
  <2>1. RowsOn(D)' = RowsOn(D)
    BY <1>1 DEF RowsOn
  <2>2. /\ Cardinality(RowsOn(D)) <= 1 /\ Cardinality(MailedOn(D)) <= Cardinality(RowsOn(D)) + crashes
        /\ Cardinality(RowsOn(D)) \in Nat /\ Cardinality(MailedOn(D)) \in Nat /\ crashes \in Nat
    BY ReminderCounts DEF RemindersInv, OnTheDayOk, RemindersTyped
  <2>3. \/ Cardinality(MailedOn(D)') = Cardinality(MailedOn(D)) + 1
        \/ Cardinality(MailedOn(D)') = Cardinality(MailedOn(D))
    BY <1>1, <2>2, MailedOneMore
  <2> QED BY <1>1, <2>1, <2>2, <2>3
<1>6. ManualOk'
  <2>1. BusySenders' = BusySenders
    BY <1>1, <1>2 DEF BusySenders
  <2> QED BY <1>1, <2>1 DEF RemindersInv, ManualOk, ManualAt
<1> QED BY <1>3, <1>4, <1>5, <1>6 DEF RemindersInv

LEMMA RemindersSend ==
    ASSUME R!SettingsAssumption, RemindersInv, NEW w \in Workers, R!Send(w)
    PROVE  RemindersInv'
<1> DEFINE row == [kind |-> wk[w], at |-> now]
           n == Len(reminders) + 1
<1>1. /\ wk[w] # "idle" /\ reminders' = Append(reminders, row) /\ mails' = Append(mails, now)
      /\ wk' = [wk EXCEPT ![w] = "idle"]
      /\ UNCHANGED <<req, now, crashes>>
  BY DEF R!Send, R!Idle
<1>2. /\ w \notin Senders /\ wk \in [Workers \cup Senders -> R!Scheduled \cup {"manual", "idle"}]
      /\ wk[w] \in R!Scheduled /\ now \in Nat /\ reminders \in Seq(R!Reminder)
  BY <1>1, ReminderSettings DEF RemindersInv, RemindersTyped
<1>3. row \in R!Reminder
  BY <1>2 DEF R!Reminder
<1> HIDE DEF row
<1>4. /\ reminders' \in Seq(R!Reminder)
      /\ DOMAIN reminders' = DOMAIN reminders \cup {n} /\ n \notin DOMAIN reminders
      /\ reminders'[n] = row /\ \A i \in DOMAIN reminders : reminders'[i] = reminders[i]
  BY <1>1, <1>2, <1>3, Appended
<1> HIDE DEF n
<1>5. row.kind = wk[w] /\ row.at = now /\ row.kind # "manual"
  BY <1>2 DEF row, R!Scheduled
<1>6. RemindersTyped'
  <2>1. \A i \in DOMAIN reminders' : reminders'[i].at <= now
    BY <1>2, <1>4, <1>5 DEF RemindersInv, RemindersTyped
  <2> QED BY <1>1, <1>2, <1>4, <2>1, MailedOneMore DEF RemindersInv, RemindersTyped
<1>7. LockOk'
  BY <1>1, <1>2 DEF RemindersInv, LockOk
<1>8. OnTheDayOk'
  <2> SUFFICES ASSUME NEW D \in Nat
               PROVE  /\ Cardinality(RowsOn(D)') <= 1
                      /\ Cardinality(MailedOn(D)') <= Cardinality(RowsOn(D)') + crashes'
    BY DEF OnTheDayOk
  <2>2. /\ Cardinality(RowsOn(D)) <= 1 /\ Cardinality(MailedOn(D)) <= Cardinality(RowsOn(D)) + crashes
        /\ Cardinality(RowsOn(D)) \in Nat /\ Cardinality(MailedOn(D)) \in Nat /\ crashes \in Nat
        /\ IsFiniteSet(RowsOn(D))
    BY ReminderCounts DEF RemindersInv, OnTheDayOk, RemindersTyped
  <2>3. CASE D = R!DayOf(now)
    <3>1. RowsOn(D) = {}
      BY <1>1, <2>2, <2>3 DEF RemindersInv, LockOk
    <3>2. RowsOn(D)' = {n}
      BY <1>2, <1>4, <1>5, <2>3, <3>1 DEF RowsOn
    <3>3. Cardinality(RowsOn(D)') = 1 /\ Cardinality(RowsOn(D)) = 0
      BY <3>1, <3>2, FS_EmptySet, FS_Singleton
    <3>4. Cardinality(MailedOn(D)') = Cardinality(MailedOn(D)) + 1
      BY <1>1, <2>3, MailedOneMore
    <3> QED BY <1>1, <2>2, <3>3, <3>4
  <2>4. CASE D # R!DayOf(now)
    <3>1. RowsOn(D)' = RowsOn(D)
      BY <1>2, <1>4, <1>5, <2>4 DEF RowsOn
    <3>2. Cardinality(MailedOn(D)') = Cardinality(MailedOn(D))
      BY <1>1, <2>2, <2>4, MailedOneMore
    <3> QED BY <1>1, <2>2, <3>1, <3>2
  <2> QED BY <2>3, <2>4
<1>9. ManualOk'
  <2>1. BusySenders' = BusySenders
    BY <1>1, <1>2 DEF BusySenders
  <2>2. \A t \in Nat : ManualAt(t)' = ManualAt(t)
    BY <1>4, <1>5 DEF ManualAt
  <2> QED BY <1>1, <1>2, <2>1, <2>2 DEF RemindersInv, ManualOk
<1> QED BY <1>6, <1>7, <1>8, <1>9 DEF RemindersInv

LEMMA RemindersCheck ==
    ASSUME R!SettingsAssumption, RemindersInv, NEW p \in Senders,
           R!ManualCheck(p) \/ R!CombinedCheck(p)
    PROVE  RemindersInv'
<1>1. /\ wk' = [wk EXCEPT ![p] = "manual"]
      /\ now \notin R!Times(reminders, R!Scheduled \cup {"manual"})
      /\ UNCHANGED <<req, now, reminders, mails, crashes>>
  BY DEF R!ManualCheck, R!CombinedCheck
<1>2. /\ p \notin Workers /\ wk \in [Workers \cup Senders -> R!Scheduled \cup {"manual", "idle"}]
      /\ now \in Nat
  BY ReminderSettings DEF RemindersInv, RemindersTyped
<1>3. RemindersTyped'
  BY <1>1, <1>2 DEF RemindersInv, RemindersTyped
<1>4. LockOk'
  BY <1>1, <1>2 DEF RemindersInv, LockOk, RowsOn
<1>5. OnTheDayOk'
  BY <1>1 DEF RemindersInv, OnTheDayOk, RowsOn, MailedOn
<1>6. ManualOk'
  <2>1. ManualAt(now) = {}
    BY <1>1 DEF ManualAt, R!Times
  <2>2. /\ Cardinality(BusySenders') <= Cardinality(Senders) /\ Cardinality(BusySenders') \in Nat
        /\ Cardinality(Senders) \in Nat
    BY <1>3, ReminderSettings, FS_Subset, FS_CardinalityType DEF BusySenders
  <2>3. ManualAt(now)' = {} /\ \A t \in Nat : ManualAt(t)' = ManualAt(t)
    BY <1>1, <2>1 DEF ManualAt
  <2> QED BY <2>2, <2>3, FS_EmptySet DEF RemindersInv, ManualOk
<1> QED BY <1>3, <1>4, <1>5, <1>6 DEF RemindersInv

LEMMA RemindersManual ==
    ASSUME R!SettingsAssumption, RemindersInv, NEW p \in Senders, R!ManualSend(p)
    PROVE  RemindersInv'
<1> DEFINE row == [kind |-> "manual", at |-> now]
           n == Len(reminders) + 1
<1>1. /\ wk[p] = "manual" /\ reminders' = Append(reminders, row)
      /\ wk' = [wk EXCEPT ![p] = "idle"]
      /\ UNCHANGED <<req, now, mails, crashes>>
  BY DEF R!ManualSend, R!Idle
<1>2. /\ p \notin Workers /\ wk \in [Workers \cup Senders -> R!Scheduled \cup {"manual", "idle"}]
      /\ now \in Nat /\ reminders \in Seq(R!Reminder)
  BY ReminderSettings DEF RemindersInv, RemindersTyped
<1>3. row \in R!Reminder /\ row.kind = "manual" /\ row.at = now
  BY <1>2 DEF R!Reminder
<1>4. /\ reminders' \in Seq(R!Reminder)
      /\ DOMAIN reminders' = DOMAIN reminders \cup {n} /\ n \notin DOMAIN reminders
      /\ reminders'[n] = row /\ \A i \in DOMAIN reminders : reminders'[i] = reminders[i]
  BY <1>1, <1>2, <1>3, Appended
<1> HIDE DEF n
<1>5. RemindersTyped'
  <2>1. \A i \in DOMAIN reminders' : reminders'[i].at <= now
    BY <1>2, <1>3, <1>4 DEF RemindersInv, RemindersTyped
  <2> QED BY <1>1, <1>2, <1>4, <2>1 DEF RemindersInv, RemindersTyped
<1>6. \A D \in Nat : RowsOn(D)' = RowsOn(D) /\ MailedOn(D)' = MailedOn(D)
  BY <1>1, <1>4 DEF RowsOn, MailedOn, R!Scheduled
<1>7. LockOk'
  BY <1>1, <1>2, <1>6 DEF RemindersInv, LockOk
<1>8. OnTheDayOk'
  BY <1>1, <1>6 DEF RemindersInv, OnTheDayOk
<1>9. ManualOk'
  <2>1. /\ IsFiniteSet(BusySenders) /\ Cardinality(BusySenders) \in Nat
        /\ IsFiniteSet(ManualAt(now)) /\ Cardinality(ManualAt(now)) \in Nat
        /\ Cardinality(Senders) \in Nat
    BY <1>2, ReminderCounts, ReminderSettings DEF RemindersInv
  <2>2. BusySenders' = BusySenders \ {p} /\ p \in BusySenders
    BY <1>1, <1>2 DEF BusySenders
  <2>3. Cardinality(BusySenders') = Cardinality(BusySenders) - 1 /\ Cardinality(BusySenders') \in Nat
    BY <2>1, <2>2, FS_RemoveElement, FS_CardinalityType
  <2>4. ManualAt(now)' = ManualAt(now) \cup {n} /\ n \notin ManualAt(now)
    BY <1>1, <1>4 DEF ManualAt
  <2>5. Cardinality(ManualAt(now)') = Cardinality(ManualAt(now)) + 1
    BY <2>1, <2>4, OneMore
  <2>6. ASSUME NEW t \in Nat, t # now PROVE ManualAt(t)' = ManualAt(t)
    BY <1>3, <1>4, <2>6 DEF ManualAt
  <2>7. Cardinality(ManualAt(now)') + Cardinality(BusySenders') <= Cardinality(Senders)
    BY <2>1, <2>3, <2>5 DEF RemindersInv, ManualOk
  <2>8. Cardinality(ManualAt(now)') <= Cardinality(Senders)
    BY <2>1, <2>3, <2>5, <2>7
  <2>9. ASSUME NEW t \in Nat PROVE Cardinality(ManualAt(t)') <= Cardinality(Senders)
    <3>1. CASE t = now
      BY <1>1, <2>8, <3>1
    <3>2. CASE t # now
      BY <2>6, <3>2 DEF RemindersInv, ManualOk
    <3> QED BY <3>1, <3>2
  <2> QED BY <1>1, <2>7, <2>9 DEF ManualOk
<1> QED BY <1>5, <1>7, <1>8, <1>9 DEF RemindersInv

LEMMA RemindersStep == R!SettingsAssumption /\ RemindersInv /\ [R!Next]_reminderVars => RemindersInv'
<1> SUFFICES ASSUME R!SettingsAssumption, RemindersInv, [R!Next]_reminderVars
             PROVE  RemindersInv'
  OBVIOUS
<1>1. CASE R!Tick
  BY <1>1, RemindersClock
<1>2. ASSUME NEW w \in Workers, R!Take(w) \/ R!Send(w) \/ R!Crash(w) PROVE RemindersInv'
  BY <1>2, RemindersTake, RemindersSend, RemindersCrash
<1>3. ASSUME NEW p \in Senders, R!ManualCheck(p) \/ R!CombinedCheck(p) \/ R!ManualSend(p)
      PROVE  RemindersInv'
  BY <1>3, RemindersCheck, RemindersManual
<1>4. CASE R!Change \/ UNCHANGED reminderVars
  <2>1. UNCHANGED <<req, now, reminders, wk, mails, crashes>>
    BY <1>4 DEF R!Change, reminderVars
  <2> QED BY <2>1 DEF RemindersInv, RemindersTyped, LockOk, OnTheDayOk, ManualOk, RowsOn,
                      MailedOn, ManualAt, BusySenders
<1> QED BY <1>1, <1>2, <1>3, <1>4 DEF R!Next

LEMMA RemindersInit == R!SettingsAssumption /\ R!Init => RemindersInv
<1> SUFFICES ASSUME R!SettingsAssumption, R!Init PROVE RemindersInv
  OBVIOUS
<1>1. /\ req \in Schedules /\ now = req.created /\ reminders = <<>> /\ mails = <<>> /\ crashes = 0
      /\ wk = [p \in Workers \cup Senders |-> "idle"]
  BY DEF R!Init, R!Idle
<1>2. now \in Nat /\ DOMAIN reminders = {} /\ DOMAIN mails = {}
  BY <1>1, ReminderSettings
<1>3. RemindersTyped /\ LockOk
  BY <1>1, <1>2 DEF RemindersTyped, LockOk
<1>4. OnTheDayOk /\ ManualOk
  <2>1. /\ \A D \in Nat : RowsOn(D) = {} /\ MailedOn(D) = {} /\ ManualAt(D) = {}
        /\ BusySenders = {}
    BY <1>1, <1>2 DEF RowsOn, MailedOn, ManualAt, BusySenders
  <2>2. Cardinality({}) = 0 /\ Cardinality(Senders) \in Nat
    BY FS_EmptySet, ReminderSettings
  <2>a. /\ \A D \in Nat : /\ Cardinality(RowsOn(D)) = 0 /\ Cardinality(MailedOn(D)) = 0
                          /\ Cardinality(ManualAt(D)) = 0
        /\ Cardinality(BusySenders) = 0
    BY <2>1, <2>2, Zenon
  <2>3. OnTheDayOk
    BY <1>1, <2>a DEF OnTheDayOk
  <2>4. ManualOk
    BY <1>2, <2>2, <2>a DEF ManualOk
  <2> QED BY <2>3, <2>4
<1> QED BY <1>3, <1>4 DEF RemindersInv

LEMMA RemindersHeld ==
    ASSUME R!SettingsAssumption, RemindersInv
    PROVE  R!OneReminderADay /\ R!ManualCooldown
<1>1. R!OneReminderADay
  <2> SUFFICES ASSUME NEW i \in DOMAIN mails
               PROVE  Cardinality({j \in DOMAIN mails : R!DayOf(mails[j]) = R!DayOf(mails[i])})
                          <= 1 + crashes
    BY ReminderSets DEF R!OneReminderADay
  <2> DEFINE D == R!DayOf(mails[i])
  <2>1. D \in Nat /\ crashes \in Nat
    BY DEF RemindersInv, RemindersTyped, R!DayOf, R!Day
  <2> HIDE DEF D
  <2>2. /\ Cardinality(RowsOn(D)) <= 1 /\ Cardinality(RowsOn(D)) \in Nat
        /\ Cardinality(MailedOn(D)) <= Cardinality(RowsOn(D)) + crashes
        /\ Cardinality(MailedOn(D)) \in Nat
    BY <2>1, ReminderCounts DEF RemindersInv, OnTheDayOk
  <2>3. Cardinality(MailedOn(D)) <= 1 + crashes
    BY <2>1, <2>2
  <2> QED BY <2>3 DEF MailedOn, D
<1>2. R!ManualCooldown
  <2> SUFFICES ASSUME NEW t \in R!Times(reminders, {"manual"})
               PROVE  Cardinality(ManualAt(t)) <= Cardinality(Senders)
    BY ReminderSets DEF R!ManualCooldown, ManualAt
  <2>1. t \in Nat
    BY TimesOk DEF RemindersInv
  <2> QED BY <2>1 DEF RemindersInv, ManualOk
<1> QED BY <1>1, <1>2

(* A client gets one scheduled reminder a day and one more for each killed   *)
(* worker; manual reminders of an hour are at most the clicks in progress.   *)
THEOREM OneReminderADayAlways == PartSpec => []OneReminderADay
<1>1. PartInit => RemindersInv
  BY MailingsAssumption, RemindersInit DEF PartInit
<1>2. RemindersInv /\ [PartNext]_<<part, vars, reminderVars, mailVars>> => RemindersInv'
  <2>1. [PartNext]_<<part, vars, reminderVars, mailVars>> => [R!Next]_reminderVars
    BY DEF PartNext
  <2> QED BY <2>1, MailingsAssumption, RemindersStep
<1>3. RemindersInv => OneReminderADay
  BY MailingsAssumption, RemindersHeld DEF OneReminderADay
<1> QED BY <1>1, <1>2, <1>3, PTL DEF PartSpec

-----------------------------------------------------------------------------
(* The planned reminders: what the loop of planned() computes *)

\* Every round of the loop has less before it.
Weight(y) ==
    y.left + (IF "before" \in y.pending THEN 1 ELSE 0)
           + (IF "on_day" \in y.pending THEN 1 ELSE 0)

Passed(y) == [y EXCEPT !.pending = @ \ {R!First(y.pending)}]
Counted(y) == [y EXCEPT !.left = @ - 1]
GoneAt(r, y, at) == [y EXCEPT !.next = R!AtClock(r, at, r.every), !.last = at]

LEMMA LoopFields ==
    ASSUME NEW r \in R!Request, NEW y \in R!Loop(r)
    PROVE  /\ y.pending \in SUBSET {"before", "on_day"} /\ y.next \in Nat
           /\ y.left \in Nat /\ y.left <= r.limit /\ y.last \in Nat
           /\ r.limit \in Nat /\ r.clock \in 1..2 /\ r.every \in Nat \ {0} /\ r.day \in Nat
           /\ Weight(y) \in Nat /\ Weight(y) <= r.limit + 2
BY DEF R!Request, R!Loop, Weight

LEMMA LoopPassed ==
    ASSUME NEW r \in R!Request, NEW y \in R!Loop(r), y.pending # {}
    PROVE  /\ R!First(y.pending) \in y.pending
           /\ Passed(y) \in R!Loop(r) /\ Weight(Passed(y)) < Weight(y)
           /\ Passed(y).pending = y.pending \ {R!First(y.pending)}
           /\ Passed(y).next = y.next /\ Passed(y).left = y.left /\ Passed(y).last = y.last
<1>1. R!First(y.pending) \in y.pending /\ y.pending \in SUBSET {"before", "on_day"}
  BY DEF R!Loop, R!First
<1>2. /\ Passed(y) \in R!Loop(r)
      /\ Passed(y).pending = y.pending \ {R!First(y.pending)}
      /\ Passed(y).next = y.next /\ Passed(y).left = y.left /\ Passed(y).last = y.last
  BY DEF R!Loop, Passed
<1>3. Weight(Passed(y)) < Weight(y)
  BY <1>1, <1>2, LoopFields DEF Weight, R!First
<1> QED BY <1>1, <1>2, <1>3

LEMMA LoopCounted ==
    ASSUME NEW r \in R!Request, NEW y \in R!Loop(r), y.left > 0
    PROVE  /\ Counted(y) \in R!Loop(r) /\ Weight(Counted(y)) < Weight(y)
           /\ Counted(y).pending = y.pending /\ Counted(y).next = y.next
           /\ Counted(y).left = y.left - 1 /\ Counted(y).last = y.last
<1>1. /\ Counted(y) \in R!Loop(r)
      /\ Counted(y).pending = y.pending /\ Counted(y).next = y.next
      /\ Counted(y).left = y.left - 1 /\ Counted(y).last = y.last
  BY DEF R!Loop, R!Request, Counted
<1> QED BY <1>1, LoopFields DEF Weight

LEMMA LoopGone ==
    ASSUME NEW r \in R!Request, NEW y \in R!Loop(r), NEW at \in Nat
    PROVE  /\ GoneAt(r, y, at) \in R!Loop(r) /\ Weight(GoneAt(r, y, at)) = Weight(y)
           /\ GoneAt(r, y, at).pending = y.pending
           /\ GoneAt(r, y, at).next = R!AtClock(r, at, r.every)
           /\ GoneAt(r, y, at).left = y.left /\ GoneAt(r, y, at).last = at
           /\ R!AtClock(r, at, r.every) > at /\ R!AtClock(r, at, r.every) \in Nat
<1>1. R!AtClock(r, at, r.every) > at /\ R!AtClock(r, at, r.every) \in Nat
  BY LoopFields DEF R!AtClock, R!DayOf, R!Day
<1>2. /\ GoneAt(r, y, at) \in R!Loop(r)
      /\ GoneAt(r, y, at).pending = y.pending
      /\ GoneAt(r, y, at).next = R!AtClock(r, at, r.every)
      /\ GoneAt(r, y, at).left = y.left /\ GoneAt(r, y, at).last = at
  BY <1>1 DEF R!Loop, GoneAt
<1> QED BY <1>1, <1>2 DEF Weight

LEMMA Moments ==
    ASSUME NEW r \in R!Request, NEW y \in R!Loop(r), NEW t \in Nat, NEW k
    PROVE  /\ R!DeadlineDue(r, k) \in Int
           /\ R!Later(R!DeadlineDue(r, k), t) \in Nat /\ R!Later(y.next, t) \in Nat
           /\ R!Later(R!DeadlineDue(r, k), t) >= t /\ R!Later(y.next, t) >= t
           /\ R!Later(R!DeadlineDue(r, k), t) >= R!DeadlineDue(r, k)
           /\ R!Later(y.next, t) >= y.next
BY LoopFields DEF R!Later, R!DeadlineDue, R!Day, R!DaysBefore

\* Whether the next to go is a deadline's reminder, and what a round makes of y.
Deadlines(r, t, y) ==
    /\ y.pending # {}
    /\ y.left = 0 \/ R!Later(R!DeadlineDue(r, R!First(y.pending)), t) <= R!Later(y.next, t)

DueTime(r, t, y) == R!Later(R!DeadlineDue(r, R!First(y.pending)), t)

LEMMA Rounds ==
    ASSUME NEW r, NEW t, NEW rest, NEW y
    PROVE  R!Round(r, t, rest, y) =
             IF Deadlines(r, t, y)
             THEN IF R!IsRecent(r, R!First(y.pending), y.last) THEN rest[Passed(y)]
                  ELSE <<[kind |-> R!First(y.pending), at |-> DueTime(r, t, y)]>>
                          \o rest[GoneAt(r, Passed(y), DueTime(r, t, y))]
             ELSE IF y.left > 0
                  THEN <<[kind |-> "automatic", at |-> R!Later(y.next, t)]>>
                          \o rest[GoneAt(r, Counted(y), R!Later(y.next, t))]
                  ELSE <<>>
BY DEF R!Round, Deadlines, DueTime, Passed, Counted, GoneAt

LEMMA RoundLooksBack ==
    ASSUME NEW r \in R!Request, NEW t \in Nat, NEW y \in R!Loop(r), NEW f, NEW g,
           \A z \in R!Loop(r) : Weight(z) < Weight(y) => f[z] = g[z]
    PROVE  R!Round(r, t, f, y) = R!Round(r, t, g, y)
<1>1. CASE Deadlines(r, t, y)
  <2>1. y.pending # {}
    BY <1>1 DEF Deadlines
  <2>2. DueTime(r, t, y) \in Nat
    BY Moments DEF DueTime
  <2>3. f[Passed(y)] = g[Passed(y)]
    BY <2>1, LoopPassed
  <2>4. Passed(y) \in R!Loop(r) /\ Weight(Passed(y)) < Weight(y)
    BY <2>1, LoopPassed
  <2>5. /\ GoneAt(r, Passed(y), DueTime(r, t, y)) \in R!Loop(r)
        /\ Weight(GoneAt(r, Passed(y), DueTime(r, t, y))) = Weight(Passed(y))
    BY <2>2, <2>4, LoopGone
  <2>6. f[GoneAt(r, Passed(y), DueTime(r, t, y))] = g[GoneAt(r, Passed(y), DueTime(r, t, y))]
    BY <2>4, <2>5
  <2> QED BY <1>1, <2>3, <2>6, Rounds
<1>2. CASE ~Deadlines(r, t, y) /\ y.left > 0
  <2>1. R!Later(y.next, t) \in Nat
    BY Moments
  <2>2. GoneAt(r, Counted(y), R!Later(y.next, t)) \in R!Loop(r)
        /\ Weight(GoneAt(r, Counted(y), R!Later(y.next, t))) < Weight(y)
    BY <1>2, <2>1, LoopCounted, LoopGone
  <2> QED BY <1>2, <2>2, Rounds
<1>3. CASE ~Deadlines(r, t, y) /\ ~(y.left > 0)
  BY <1>3, Rounds
<1> QED BY <1>1, <1>2, <1>3

\* The recursive function of PlanFrom exists: its rounds, taken from the last
\* one back, agree on more and more of the loop.
LEMMA RoundsExist ==
    ASSUME NEW r \in R!Request, NEW t \in Nat
    PROVE  \E f : f = [y \in R!Loop(r) |-> R!Round(r, t, f, y)]
<1> DEFINE L == R!Loop(r)
           Agrees(f, n) == \A y \in L : Weight(y) < n => f[y] = R!Round(r, t, f, y)
           Step(f) == [y \in L |-> R!Round(r, t, f, y)]
           bad == {n \in Nat : ~\E f : Agrees(f, n)}
<1>1. Agrees([y \in L |-> <<>>], 0)
  BY LoopFields
<1>2. ASSUME NEW n \in Nat, NEW f, Agrees(f, n) PROVE Agrees(Step(f), n + 1)
  <2> SUFFICES ASSUME NEW y \in L, Weight(y) < n + 1
               PROVE  Step(f)[y] = R!Round(r, t, Step(f), y)
    OBVIOUS
  <2>1. ASSUME NEW z \in L, Weight(z) < Weight(y) PROVE f[z] = Step(f)[z]
    <3>1. Weight(z) < n
      BY <2>1, LoopFields
    <3> QED BY <1>2, <3>1
  <2>2. R!Round(r, t, f, y) = R!Round(r, t, Step(f), y)
    <3> DEFINE g == Step(f)
    <3>1. \A z \in R!Loop(r) : Weight(z) < Weight(y) => f[z] = g[z]
      BY <2>1
    <3> HIDE DEF g
    <3>2. R!Round(r, t, f, y) = R!Round(r, t, g, y)
      BY <3>1, RoundLooksBack
    <3> QED BY <3>2 DEF g
  <2> QED BY <2>2
<1> HIDE DEF Agrees, Step
<1>3. bad = {}
  <2> SUFFICES ASSUME bad # {} PROVE FALSE
    OBVIOUS
  <2>1. PICK n \in bad : \A m \in bad : n <= m
    BY Least
  <2>2. n # 0 /\ n - 1 \in Nat /\ n - 1 \notin bad
    BY <1>1, <2>1
  <2>3. PICK f : Agrees(f, n - 1)
    BY <2>2
  <2>4. Agrees(Step(f), (n - 1) + 1)
    BY <1>2, <2>2, <2>3
  <2> QED BY <2>1, <2>4
<1>4. PICK f : Agrees(f, r.limit + 3)
  <2>1. r.limit + 3 \in Nat
    BY DEF R!Request
  <2> QED BY <1>3, <2>1
<1>5. \A y \in L : f[y] = R!Round(r, t, f, y)
  BY <1>4, LoopFields DEF Agrees
<1>6. ASSUME NEW y \in L PROVE R!Round(r, t, Step(f), y) = R!Round(r, t, f, y)
  <2>1. \A z \in R!Loop(r) : Weight(z) < Weight(y) => Step(f)[z] = f[z]
    BY <1>5 DEF Step
  <2> QED BY <2>1, RoundLooksBack
<1>7. Step(f) = [y \in L |-> R!Round(r, t, Step(f), y)]
  <2>1. Step(f) = [y \in L |-> R!Round(r, t, f, y)]
    BY DEF Step
  <2> QED BY <1>6, <2>1
<1> QED BY <1>7

LEMMA PlanUnfolds ==
    ASSUME NEW r \in R!Request, NEW t \in Nat, NEW y \in R!Loop(r)
    PROVE  R!PlanFrom(r, t, y) =
             IF Deadlines(r, t, y)
             THEN IF R!IsRecent(r, R!First(y.pending), y.last) THEN R!PlanFrom(r, t, Passed(y))
                  ELSE <<[kind |-> R!First(y.pending), at |-> DueTime(r, t, y)]>>
                          \o R!PlanFrom(r, t, GoneAt(r, Passed(y), DueTime(r, t, y)))
             ELSE IF y.left > 0
                  THEN <<[kind |-> "automatic", at |-> R!Later(y.next, t)]>>
                          \o R!PlanFrom(r, t, GoneAt(r, Counted(y), R!Later(y.next, t)))
                  ELSE <<>>
<1> DEFINE rounds == CHOOSE f : f = [z \in R!Loop(r) |-> R!Round(r, t, f, z)]
<1>1. rounds = [z \in R!Loop(r) |-> R!Round(r, t, rounds, z)]
  BY RoundsExist
<1>2. \A x : R!PlanFrom(r, t, x) = rounds[x]
  BY DEF R!PlanFrom
<1> HIDE DEF rounds
<1>3. rounds[y] = R!Round(r, t, rounds, y)
  BY <1>1
<1> QED BY <1>2, <1>3, Rounds

LEMMA Prefixed ==
    ASSUME NEW S, NEW s \in Seq(S), NEW e \in S
    PROVE  /\ <<e>> \o s \in Seq(S) /\ <<e>> \o s # <<>>
           /\ Head(<<e>> \o s) = e /\ Tail(<<e>> \o s) = s
           /\ \A i \in DOMAIN (<<e>> \o s) : i = 1 \/ i - 1 \in DOMAIN s
           /\ (<<e>> \o s)[1] = e
           /\ \A i \in DOMAIN (<<e>> \o s) : i # 1 => (<<e>> \o s)[i] = s[i - 1]
OBVIOUS

LEMMA PlanTyped ==
    ASSUME NEW r \in R!Request, NEW t \in Nat
    PROVE  \A y \in R!Loop(r) : R!PlanFrom(r, t, y) \in Seq(R!Reminder)
<1> DEFINE Ok(y) == R!PlanFrom(r, t, y) \in Seq(R!Reminder)
           bad == {n \in Nat : \E y \in R!Loop(r) : Weight(y) = n /\ ~Ok(y)}
<1>1. ASSUME NEW y \in R!Loop(r), \A z \in R!Loop(r) : Weight(z) < Weight(y) => Ok(z)
      PROVE  Ok(y)
  <2>1. CASE Deadlines(r, t, y)
    <3>1. y.pending # {}
      BY <2>1 DEF Deadlines
    <3>2. DueTime(r, t, y) \in Nat /\ R!First(y.pending) \in {"before", "on_day"}
      BY Moments DEF DueTime, R!First
    <3>3. Passed(y) \in R!Loop(r) /\ Weight(Passed(y)) < Weight(y)
      BY <3>1, LoopPassed
    <3>4. /\ GoneAt(r, Passed(y), DueTime(r, t, y)) \in R!Loop(r)
          /\ Weight(GoneAt(r, Passed(y), DueTime(r, t, y))) = Weight(Passed(y))
      BY <3>2, <3>3, LoopGone
    <3>5. Ok(Passed(y)) /\ Ok(GoneAt(r, Passed(y), DueTime(r, t, y)))
      BY <1>1, <3>3, <3>4
    <3>6. [kind |-> R!First(y.pending), at |-> DueTime(r, t, y)] \in R!Reminder
      BY <3>2 DEF R!Reminder, R!Scheduled
    <3>7. <<[kind |-> R!First(y.pending), at |-> DueTime(r, t, y)]>>
            \o R!PlanFrom(r, t, GoneAt(r, Passed(y), DueTime(r, t, y))) \in Seq(R!Reminder)
      BY <3>5, <3>6, Prefixed
    <3> QED BY <2>1, <3>5, <3>7, PlanUnfolds
  <2>2. CASE ~Deadlines(r, t, y) /\ y.left > 0
    <3> DEFINE at == R!Later(y.next, t)
    <3>1. at \in Nat
      BY Moments
    <3> HIDE DEF at
    <3>2. Counted(y) \in R!Loop(r) /\ Weight(Counted(y)) < Weight(y)
      BY <2>2, LoopCounted
    <3>3. /\ GoneAt(r, Counted(y), at) \in R!Loop(r)
          /\ Weight(GoneAt(r, Counted(y), at)) = Weight(Counted(y))
      BY <3>1, <3>2, LoopGone
    <3>4. Ok(GoneAt(r, Counted(y), at))
      BY <1>1, <3>2, <3>3
    <3>5. [kind |-> "automatic", at |-> at] \in R!Reminder
      BY <3>1 DEF R!Reminder, R!Scheduled
    <3>6. <<[kind |-> "automatic", at |-> at]>> \o R!PlanFrom(r, t, GoneAt(r, Counted(y), at))
             \in Seq(R!Reminder)
      BY <3>4, <3>5, Prefixed
    <3> QED BY <2>2, <3>6, PlanUnfolds DEF at
  <2>3. CASE ~Deadlines(r, t, y) /\ ~(y.left > 0)
    <3>1. R!PlanFrom(r, t, y) = <<>>
      BY <2>3, PlanUnfolds
    <3>2. <<>> \in Seq(R!Reminder)
      OBVIOUS
    <3> QED BY <3>1, <3>2
  <2> QED BY <2>1, <2>2, <2>3
<1> HIDE DEF Ok
<1>2. bad = {}
  <2> SUFFICES ASSUME bad # {} PROVE FALSE
    OBVIOUS
  <2>1. PICK n \in bad : \A m \in bad : n <= m
    BY Least
  <2>2. PICK y \in R!Loop(r) : Weight(y) = n /\ ~Ok(y)
    BY <2>1
  <2>3. PICK z \in R!Loop(r) : Weight(z) < Weight(y) /\ ~Ok(z)
    BY <1>1, <2>2
  <2>4. Weight(z) \in bad
    BY <2>3, LoopFields
  <2> QED BY <2>1, <2>2, <2>3, <2>4, LoopFields
<1> QED BY <1>2, LoopFields DEF Ok

\* Nothing of the loop at y is due at t.
Ahead(r, t, y) ==
    /\ \A k \in y.pending : R!DeadlineDue(r, k) > t
    /\ y.left > 0 => y.next > t

\* Until something is due the plan stays what it is, and is later.
LEMMA PlanStands ==
    ASSUME NEW r \in R!Request, NEW t \in Nat
    PROVE  \A y \in R!Loop(r) : Ahead(r, t, y) =>
               /\ R!PlanFrom(r, t, y) = R!PlanFrom(r, t + 1, y)
               /\ \A i \in DOMAIN R!PlanFrom(r, t, y) : R!PlanFrom(r, t, y)[i].at > t
<1> DEFINE Ok(y) == Ahead(r, t, y) =>
               /\ R!PlanFrom(r, t, y) = R!PlanFrom(r, t + 1, y)
               /\ \A i \in DOMAIN R!PlanFrom(r, t, y) : R!PlanFrom(r, t, y)[i].at > t
           bad == {n \in Nat : \E y \in R!Loop(r) : Weight(y) = n /\ ~Ok(y)}
<1>1. ASSUME NEW y \in R!Loop(r), \A z \in R!Loop(r) : Weight(z) < Weight(y) => Ok(z),
             Ahead(r, t, y)
      PROVE  /\ R!PlanFrom(r, t, y) = R!PlanFrom(r, t + 1, y)
             /\ \A i \in DOMAIN R!PlanFrom(r, t, y) : R!PlanFrom(r, t, y)[i].at > t
  <2>0. t + 1 \in Nat
    OBVIOUS
  <2>1. /\ y.pending # {} => /\ DueTime(r, t, y) = DueTime(r, t + 1, y)
                             /\ DueTime(r, t, y) > t /\ DueTime(r, t, y) \in Nat
        /\ y.left > 0 => /\ R!Later(y.next, t) = R!Later(y.next, t + 1)
                         /\ R!Later(y.next, t) > t /\ R!Later(y.next, t) \in Nat
    <3>1. /\ y.pending # {} => R!First(y.pending) \in y.pending
          /\ R!DeadlineDue(r, R!First(y.pending)) \in Int /\ y.next \in Nat
      BY LoopPassed, LoopFields, Moments
    <3> QED BY <1>1, <3>1 DEF Ahead, DueTime, R!Later
  <2>2. Deadlines(r, t, y) <=> Deadlines(r, t + 1, y)
    <3>1. CASE y.pending = {} \/ y.left = 0
      BY <3>1 DEF Deadlines
    <3>2. CASE y.pending # {} /\ y.left # 0
      <4>1. y.left > 0
        BY <3>2, LoopFields
      <4> QED BY <2>1, <3>2, <4>1 DEF Deadlines, DueTime
    <3> QED BY <3>1, <3>2
  <2>3. CASE Deadlines(r, t, y) /\ R!IsRecent(r, R!First(y.pending), y.last)
    <3>1. /\ Passed(y) \in R!Loop(r) /\ Weight(Passed(y)) < Weight(y)
          /\ Passed(y).pending \subseteq y.pending
          /\ Passed(y).next = y.next /\ Passed(y).left = y.left
      BY <2>3, LoopPassed DEF Deadlines
    <3>2. Ahead(r, t, Passed(y))
      BY <1>1, <3>1 DEF Ahead
    <3>3. /\ R!PlanFrom(r, t, Passed(y)) = R!PlanFrom(r, t + 1, Passed(y))
          /\ \A i \in DOMAIN R!PlanFrom(r, t, Passed(y)) : R!PlanFrom(r, t, Passed(y))[i].at > t
      BY <1>1, <3>1, <3>2
    <3>4. /\ R!PlanFrom(r, t, y) = R!PlanFrom(r, t, Passed(y))
          /\ R!PlanFrom(r, t + 1, y) = R!PlanFrom(r, t + 1, Passed(y))
      BY <2>0, <2>2, <2>3, PlanUnfolds
    <3> QED BY <3>3, <3>4
  <2>4. CASE Deadlines(r, t, y) /\ ~R!IsRecent(r, R!First(y.pending), y.last)
    <3> DEFINE k == R!First(y.pending)
               at == DueTime(r, t, y)
               z == GoneAt(r, Passed(y), at)
    <3>1. /\ Passed(y) \in R!Loop(r) /\ Weight(Passed(y)) < Weight(y)
          /\ Passed(y).pending \subseteq y.pending
          /\ y.pending # {} /\ k \in y.pending /\ k \in {"before", "on_day"}
      BY <2>4, LoopPassed, LoopFields DEF Deadlines
    <3>2. at \in Nat /\ at > t /\ at = DueTime(r, t + 1, y)
      BY <2>1, <3>1
    <3>3. /\ R!PlanFrom(r, t, y) = <<[kind |-> k, at |-> at]>> \o R!PlanFrom(r, t, z)
          /\ R!PlanFrom(r, t + 1, y) = <<[kind |-> k, at |-> at]>> \o R!PlanFrom(r, t + 1, z)
      BY <2>0, <2>2, <2>4, <3>2, PlanUnfolds
    <3> HIDE DEF at
    <3> HIDE DEF k
    <3>4. /\ z \in R!Loop(r) /\ Weight(z) = Weight(Passed(y))
          /\ z.pending = Passed(y).pending /\ z.next > at /\ z.next \in Nat
      <4> DEFINE x == Passed(y)
      <4>1. x \in R!Loop(r)
        BY <3>1
      <4> HIDE DEF x
      <4>2. /\ GoneAt(r, x, at) \in R!Loop(r) /\ Weight(GoneAt(r, x, at)) = Weight(x)
            /\ GoneAt(r, x, at).pending = x.pending
            /\ GoneAt(r, x, at).next > at /\ GoneAt(r, x, at).next \in Nat
        BY <3>2, <4>1, LoopGone
      <4> QED BY <4>2 DEF x
    <3>5. Ahead(r, t, z)
      BY <1>1, <3>1, <3>2, <3>4 DEF Ahead
    <3> HIDE DEF z
    <3>6. /\ R!PlanFrom(r, t, z) = R!PlanFrom(r, t + 1, z)
          /\ \A i \in DOMAIN R!PlanFrom(r, t, z) : R!PlanFrom(r, t, z)[i].at > t
      BY <1>1, <3>1, <3>4, <3>5
    <3>7. [kind |-> k, at |-> at] \in R!Reminder /\ R!PlanFrom(r, t, z) \in Seq(R!Reminder)
      BY <3>1, <3>2, <3>4, PlanTyped DEF R!Reminder, R!Scheduled
    <3> DEFINE e == [kind |-> k, at |-> at]
               s == R!PlanFrom(r, t, z)
    <3>8. e \in R!Reminder /\ s \in Seq(R!Reminder) /\ e.at > t /\ \A i \in DOMAIN s : s[i].at > t
      BY <3>2, <3>6, <3>7
    <3> HIDE DEF e, s
    <3>9. \A i \in DOMAIN (<<e>> \o s) : (<<e>> \o s)[i].at > t
      BY <3>8, Prefixed
    <3> QED BY <3>3, <3>6, <3>9 DEF e, s
  <2>5. CASE ~Deadlines(r, t, y) /\ y.left > 0
    <3> DEFINE at == R!Later(y.next, t)
               z == GoneAt(r, Counted(y), at)
    <3>1. /\ Counted(y) \in R!Loop(r) /\ Weight(Counted(y)) < Weight(y)
          /\ Counted(y).pending = y.pending
      BY <2>5, LoopCounted
    <3>2. at \in Nat /\ at > t /\ at = R!Later(y.next, t + 1)
      BY <2>1, <2>5
    <3>3. /\ R!PlanFrom(r, t, y) = <<[kind |-> "automatic", at |-> at]>> \o R!PlanFrom(r, t, z)
          /\ R!PlanFrom(r, t + 1, y)
                = <<[kind |-> "automatic", at |-> at]>> \o R!PlanFrom(r, t + 1, z)
      BY <2>0, <2>2, <2>5, <3>2, PlanUnfolds
    <3> HIDE DEF at
    <3>4. /\ z \in R!Loop(r) /\ Weight(z) = Weight(Counted(y))
          /\ z.pending = y.pending /\ z.next > at /\ z.next \in Nat
      BY <3>1, <3>2, LoopGone
    <3>5. Ahead(r, t, z)
      BY <1>1, <3>2, <3>4 DEF Ahead
    <3> HIDE DEF z
    <3>6. /\ R!PlanFrom(r, t, z) = R!PlanFrom(r, t + 1, z)
          /\ \A i \in DOMAIN R!PlanFrom(r, t, z) : R!PlanFrom(r, t, z)[i].at > t
      BY <1>1, <3>1, <3>4, <3>5
    <3> DEFINE e == [kind |-> "automatic", at |-> at]
               s == R!PlanFrom(r, t, z)
    <3>7. e \in R!Reminder /\ s \in Seq(R!Reminder) /\ e.at > t /\ \A i \in DOMAIN s : s[i].at > t
      BY <3>2, <3>4, <3>6, PlanTyped DEF R!Reminder, R!Scheduled
    <3> HIDE DEF e, s
    <3>8. \A i \in DOMAIN (<<e>> \o s) : (<<e>> \o s)[i].at > t
      BY <3>7, Prefixed
    <3> QED BY <3>3, <3>6, <3>8 DEF e, s
  <2>6. CASE ~Deadlines(r, t, y) /\ ~(y.left > 0)
    <3>1. R!PlanFrom(r, t, y) = <<>> /\ R!PlanFrom(r, t + 1, y) = <<>>
      BY <2>0, <2>2, <2>6, PlanUnfolds
    <3> QED BY <3>1
  <2> QED BY <2>3, <2>4, <2>5, <2>6
<1> HIDE DEF Ok
<1>2. bad = {}
  <2> SUFFICES ASSUME bad # {} PROVE FALSE
    OBVIOUS
  <2>1. PICK n \in bad : \A m \in bad : n <= m
    BY Least
  <2>2. PICK y \in R!Loop(r) : Weight(y) = n /\ ~Ok(y)
    BY <2>1
  <2>3. PICK z \in R!Loop(r) : Weight(z) < Weight(y) /\ ~Ok(z)
    BY <1>1, <2>2 DEF Ok
  <2>4. Weight(z) \in bad
    BY <2>3, LoopFields
  <2> QED BY <2>1, <2>2, <2>3, <2>4, LoopFields
<1> QED BY <1>2, LoopFields DEF Ok

Late(r, t, y) == {k \in y.pending : R!DeadlineDue(r, k) <= t}
Without(y, kinds) == [y EXCEPT !.pending = @ \ kinds]

\* What comes too soon after another reminder is passed over first.
LEMMA LateArePassed ==
    ASSUME NEW r \in R!Request, NEW t \in Nat, NEW u \in Nat, t <= u, NEW y \in R!Loop(r),
           \A k \in Late(r, t, y) : R!IsRecent(r, k, y.last),
           "on_day" \in Late(r, t, y) => "before" \notin y.pending
    PROVE  R!PlanFrom(r, u, y) = R!PlanFrom(r, u, Without(y, Late(r, t, y)))
<1> DEFINE k == R!First(y.pending)
<1>1. CASE Late(r, t, y) = {}
  <2>1. Without(y, {}) = y
    BY DEF Without, R!Loop
  <2> QED BY <1>1, <2>1
<1>2. CASE Late(r, t, y) # {}
  <2>1. y.pending # {} /\ Late(r, t, y) = {k}
    BY <1>2, LoopFields DEF Late, R!First
  <2>2. R!DeadlineDue(r, k) <= t /\ R!IsRecent(r, k, y.last)
    BY <2>1 DEF Late
  <2>3. DueTime(r, u, y) = u
    BY <2>2, Moments DEF DueTime, R!Later
  <2>4. Deadlines(r, u, y)
    BY <2>1, <2>3, Moments DEF Deadlines, DueTime
  <2>5. R!PlanFrom(r, u, y) = R!PlanFrom(r, u, Passed(y))
    BY <2>2, <2>4, PlanUnfolds
  <2>6. Passed(y) = Without(y, Late(r, t, y))
    BY <2>1 DEF Passed, Without
  <2> QED BY <2>5, <2>6
<1> QED BY <1>1, <1>2

\* The reminders sent by the moment t.
SentBy(r, t, rows) ==
    /\ rows \in Seq(R!Reminder) /\ r.created <= t
    /\ \A i \in DOMAIN rows : rows[i].at \in Nat /\ rows[i].at <= t

LEMMA Numbers ==
    ASSUME NEW rows \in Seq(R!Reminder), NEW k
    PROVE  /\ R!Number(rows, k) \in Nat
           /\ \A e \in R!Reminder :
                 R!Number(Append(rows, e), k) = R!Number(rows, k) + (IF e.kind = k THEN 1 ELSE 0)
<1> DEFINE Of(s) == {i \in DOMAIN s : s[i].kind = k}
<1>1. IsFiniteSet(Of(rows)) /\ Cardinality(Of(rows)) \in Nat
  BY Positions
<1>2. \A s : R!Number(s, k) = Cardinality(Of(s))
  BY ReminderSets DEF R!Number
<1>3. ASSUME NEW e \in R!Reminder
      PROVE  Cardinality(Of(Append(rows, e))) = Cardinality(Of(rows)) + (IF e.kind = k THEN 1 ELSE 0)
  <2>1. /\ DOMAIN Append(rows, e) = DOMAIN rows \cup {Len(rows) + 1}
        /\ Len(rows) + 1 \notin DOMAIN rows
        /\ Append(rows, e)[Len(rows) + 1] = e
        /\ \A i \in DOMAIN rows : Append(rows, e)[i] = rows[i]
    BY Appended
  <2>2. CASE e.kind = k
    <3>1. Of(Append(rows, e)) = Of(rows) \cup {Len(rows) + 1} /\ Len(rows) + 1 \notin Of(rows)
      BY <2>1, <2>2
    <3> QED BY <1>1, <2>2, <3>1, OneMore
  <2>3. CASE e.kind # k
    <3>1. Of(Append(rows, e)) = Of(rows)
      BY <2>1, <2>3
    <3> HIDE DEF Of
    <3> QED BY <1>1, <2>3, <3>1
  <2> QED BY <2>2, <2>3
<1> HIDE DEF Of
<1> QED BY <1>1, <1>2, <1>3

LEMMA Latest ==
    ASSUME NEW T \in SUBSET Nat, NEW x \in T, \A y \in T : y <= x
    PROVE  (CHOOSE s \in T : \A u \in T : u <= s) = x
<1> DEFINE c == CHOOSE s \in T : \A u \in T : u <= s
<1>1. c \in T /\ \A u \in T : u <= c
  OBVIOUS
<1> HIDE DEF c
<1>2. c = x
  BY <1>1
<1> QED BY <1>2 DEF c

LEMMA Starts ==
    ASSUME NEW r \in R!Request, NEW t \in Nat, NEW rows, SentBy(r, t, rows)
    PROVE  /\ R!LoopStart(r, t, rows) \in R!Loop(r)
           /\ R!LoopStart(r, t, rows).last \in R!LastOf(r, rows)
           /\ \A s \in R!LastOf(r, rows) :
                 s \in Nat /\ s <= t /\ s <= R!LoopStart(r, t, rows).last
<1> DEFINE x == R!LoopStart(r, t, rows)
           lasts == R!LastOf(r, rows)
           anchors == R!Times(rows, R!Interval)
<1>1. lasts \in SUBSET Nat /\ lasts # {} /\ \A s \in lasts : s <= t
  BY DEF SentBy, R!LastOf, R!Request
<1>2. anchors \in SUBSET Nat /\ \A s \in anchors : s <= t
  BY DEF SentBy, R!Times
<1>3. x.last \in lasts /\ \A s \in lasts : s <= x.last
  <2>1. PICK m \in lasts : \A s \in lasts : s <= m
    <3> HIDE DEF lasts
    <3> QED BY <1>1, Greatest
  <2>2. x.last = CHOOSE s \in lasts : \A u \in lasts : u <= s
    BY DEF R!LoopStart
  <2> QED BY <2>1, <2>2
<1>4. x.next \in Nat
  <2>1. x.next = R!NextDue(r, anchors)
    BY DEF R!LoopStart
  <2>2. CASE anchors = {}
    BY <2>1, <2>2 DEF R!NextDue, R!AtClock, R!DayOf, R!Day, R!Request
  <2>3. CASE anchors # {}
    <3> HIDE DEF anchors, x
    <3>1. PICK m \in anchors : \A s \in anchors : s <= m
      BY <1>2, <2>3, Greatest
    <3>2. (CHOOSE s \in anchors : \A u \in anchors : u <= s) = m
      BY <1>2, <3>1, Latest
    <3>3. x.next = R!AtClock(r, m, r.every) /\ m \in Nat
      BY <1>2, <2>1, <2>3, <3>2 DEF R!NextDue
    <3> QED BY <3>3 DEF R!AtClock, R!DayOf, R!Day, R!Request
  <2> QED BY <2>2, <2>3
<1>5. x.left \in 0..r.limit
  <2>1. R!Number(rows, "automatic") \in Nat /\ r.limit \in Nat
    BY Numbers DEF SentBy, R!Request
  <2>2. x.left = IF R!Number(rows, "automatic") < r.limit
                 THEN r.limit - R!Number(rows, "automatic") ELSE 0
    BY DEF R!LoopStart
  <2> HIDE DEF x
  <2> QED BY <2>1, <2>2
<1>6. x.pending \in SUBSET {"before", "on_day"}
  BY DEF R!LoopStart, R!DeadlineKinds
<1>7. x \in R!Loop(r)
  <2>1. x = [pending |-> x.pending, next |-> x.next, left |-> x.left, last |-> x.last]
    BY DEF R!LoopStart
  <2> HIDE DEF x
  <2> QED BY <1>1, <1>3, <1>4, <1>5, <1>6, <2>1 DEF R!Loop
<1> QED BY <1>1, <1>3, <1>7

\* A reminder of the deadline's day is no longer waited for with the one
\* before it.
LEMMA StartsInOrder ==
    ASSUME NEW r \in R!Request, NEW t \in Nat, NEW u \in Nat, t <= u, NEW rows,
           SentBy(r, t, rows), NEW x, x = R!LoopStart(r, u, rows)
    PROVE  /\ "on_day" \in Late(r, t, x) => "before" \notin x.pending
           /\ \A k \in x.pending : /\ k \in R!DeadlineKinds(r) /\ R!Number(rows, k) = 0
                                   /\ u < R!WindowEnd(r, k)
<1>1. r.day \in Nat /\ r.clock \in 1..2
  BY DEF R!Request
<1>2. ASSUME NEW k \in x.pending
      PROVE  /\ k \in R!DeadlineKinds(r) /\ R!Number(rows, k) = 0
             /\ u < R!WindowEnd(r, k)
  <2>1. /\ k \in R!DeadlineKinds(r) /\ R!Number(rows, k) = 0
        /\ R!Later(R!DeadlineDue(r, k), u) < R!WindowEnd(r, k)
    BY DEF R!LoopStart
  <2>2. R!DeadlineDue(r, k) \in Int
    BY <1>1 DEF R!DeadlineDue, R!Day, R!DaysBefore
  <2>3. R!WindowEnd(r, k) \in Int
    BY <1>1, <2>2 DEF R!WindowEnd, R!Sooner, R!Window, R!Deadline, R!Day
  <2>4. R!Later(R!DeadlineDue(r, k), u) >= u /\ R!Later(R!DeadlineDue(r, k), u) \in Int
    BY <2>2 DEF R!Later
  <2> QED BY <2>1, <2>3, <2>4
<1>3. ASSUME "on_day" \in Late(r, t, x), "before" \in x.pending PROVE FALSE
  <2>1. u < R!WindowEnd(r, "before") /\ R!DeadlineDue(r, "on_day") <= t
    BY <1>2, <1>3 DEF Late
  <2>2. R!DeadlineDue(r, "before") \in Int
        /\ R!DeadlineDue(r, "on_day") = R!DeadlineDue(r, "before") + 6
    BY <1>1 DEF R!DeadlineDue, R!Day, R!DaysBefore
  <2>3. R!WindowEnd(r, "before") \in Int /\ R!WindowEnd(r, "before") <= R!DeadlineDue(r, "before") + 2
    BY <1>1, <2>2 DEF R!WindowEnd, R!Sooner, R!Window, R!Deadline, R!Day
  <2> QED BY <2>1, <2>2, <2>3
<1> QED BY <1>2, <1>3

\* The deadline's reminders that are late and do not go came too soon.
LEMMA LateAreRecent ==
    ASSUME NEW r \in R!Request, NEW t \in Nat, NEW rows, SentBy(r, t, rows),
           NEW k \in R!DeadlineKinds(r), R!Number(rows, k) = 0,
           R!DeadlineDue(r, k) <= t, t < R!WindowEnd(r, k),
           k \notin R!DeadlineDueAt(r, t, rows),
           NEW last \in Nat, \A s \in R!LastOf(r, rows) : s \in Nat /\ s <= last
    PROVE  R!IsRecent(r, k, last)
<1>1. PICK s \in R!LastOf(r, rows) : R!IsRecent(r, k, s)
  BY DEF R!DeadlineDueAt
<1>2. R!DeadlineDue(r, k) \in Int
  BY DEF R!DeadlineDue, R!Day, R!DaysBefore, R!Request
<1> QED BY <1>1, <1>2 DEF R!IsRecent, R!Recent

\* When nothing is due, the next moment plans the same.
LEMMA NothingDue ==
    ASSUME NEW r \in R!Request, NEW t \in Nat, NEW rows, SentBy(r, t, rows),
           R!DueAt(r, t, rows) = "none"
    PROVE  /\ R!PlannedAt(r, t, rows) = R!PlannedAt(r, t + 1, rows)
           /\ \A i \in DOMAIN R!PlannedAt(r, t, rows) : R!PlannedAt(r, t, rows)[i].at > t
<1> DEFINE x == R!LoopStart(r, t, rows)
           y == R!LoopStart(r, t + 1, rows)
           z == Without(x, Late(r, t, x))
<1>1. R!DeadlineDueAt(r, t, rows) = {} /\ ~R!AutomaticDueAt(r, t, rows)
  BY DEF R!DueAt, R!First
<1>2. t + 1 \in Nat /\ SentBy(r, t + 1, rows)
  BY DEF SentBy, R!Request
<1>3. /\ x \in R!Loop(r) /\ y \in R!Loop(r)
      /\ \A s \in R!LastOf(r, rows) : s \in Nat /\ s <= x.last
  BY <1>2, Starts
<1>4. y.next = x.next /\ y.left = x.left /\ y.last = x.last
  BY DEF R!LoopStart
<1>5. /\ "on_day" \in Late(r, t, x) => "before" \notin x.pending
      /\ "on_day" \in Late(r, t, y) => "before" \notin y.pending
      /\ \A k \in x.pending : /\ k \in R!DeadlineKinds(r) /\ R!Number(rows, k) = 0
                              /\ t < R!WindowEnd(r, k)
      /\ \A k \in y.pending : /\ k \in R!DeadlineKinds(r) /\ R!Number(rows, k) = 0
                              /\ t + 1 < R!WindowEnd(r, k)
  BY <1>2, StartsInOrder
<1>6. r.day \in Nat /\ r.clock \in 1..2 /\ r.limit \in Nat
  BY DEF R!Request
<1>7. \A k : R!DeadlineDue(r, k) \in Int /\ R!DeadlineDue(r, k) < R!WindowEnd(r, k)
              /\ R!WindowEnd(r, k) \in Int
  BY <1>6 DEF R!DeadlineDue, R!WindowEnd, R!Deadline, R!Sooner, R!Window, R!Day, R!DaysBefore
<1>8. x.pending \ Late(r, t, x) = y.pending \ Late(r, t, y)
  <2>1. ASSUME NEW k, R!DeadlineDue(r, k) > t
        PROVE  k \in x.pending <=> k \in y.pending
    <3>1. R!Later(R!DeadlineDue(r, k), t) = R!DeadlineDue(r, k)
          /\ R!Later(R!DeadlineDue(r, k), t + 1) = R!DeadlineDue(r, k)
      BY <1>7, <2>1 DEF R!Later
    <3> QED BY <3>1 DEF R!LoopStart
  <2>2. \A k \in x.pending \cup y.pending : ~(R!DeadlineDue(r, k) <= t) => R!DeadlineDue(r, k) > t
    BY <1>7
  <2> HIDE DEF x, y
  <2> QED BY <1>7, <2>1, <2>2 DEF Late
<1>9. x.left > 0 => x.next > t
  <2>1. R!Number(rows, "automatic") \in Nat
    BY Numbers DEF SentBy
  <2>2. /\ x.left = IF R!Number(rows, "automatic") < r.limit
                    THEN r.limit - R!Number(rows, "automatic") ELSE 0
        /\ x.next = R!NextDue(r, R!Times(rows, R!Interval))
    BY DEF R!LoopStart
  <2>3. x.next \in Nat
    BY <1>3, LoopFields
  <2> HIDE DEF x
  <2> QED BY <1>1, <1>6, <2>1, <2>2, <2>3 DEF R!AutomaticDueAt
<1> HIDE DEF x, y
<1>10. /\ \A k \in Late(r, t, x) : R!IsRecent(r, k, x.last)
       /\ \A k \in Late(r, t, y) : R!IsRecent(r, k, y.last)
  <2>1. x.last \in Nat
    BY <1>3, LoopFields
  <2>2. ASSUME NEW k \in x.pending \cup y.pending, R!DeadlineDue(r, k) <= t
        PROVE  R!IsRecent(r, k, x.last)
    <3>1. k \in R!DeadlineKinds(r) /\ R!Number(rows, k) = 0 /\ t < R!WindowEnd(r, k)
      BY <1>5, <1>7
    <3>2. k \notin R!DeadlineDueAt(r, t, rows)
      BY <1>1
    <3> QED BY <1>3, <2>1, <2>2, <3>1, <3>2, LateAreRecent
  <2> QED BY <1>4, <2>2 DEF Late
<1>11. z = Without(y, Late(r, t, y))
  BY <1>3, <1>4, <1>8 DEF Without, R!Loop
<1>12. /\ z \in R!Loop(r) /\ z.pending = x.pending \ Late(r, t, x)
       /\ z.left = x.left /\ z.next = x.next
  BY <1>3 DEF Without, R!Loop
<1>13. Ahead(r, t, z)
  BY <1>7, <1>9, <1>12 DEF Ahead, Late
<1>14. R!PlanFrom(r, t, x) = R!PlanFrom(r, t, z)
  BY <1>3, <1>5, <1>10, LateArePassed
<1>15. R!PlanFrom(r, t + 1, y) = R!PlanFrom(r, t + 1, z)
  <2>1. t <= t + 1
    OBVIOUS
  <2> QED BY <1>2, <1>3, <1>5, <1>10, <1>11, <2>1, LateArePassed
<1> HIDE DEF z
<1>16. /\ R!PlanFrom(r, t, z) = R!PlanFrom(r, t + 1, z)
       /\ \A i \in DOMAIN R!PlanFrom(r, t, z) : R!PlanFrom(r, t, z)[i].at > t
  BY <1>12, <1>13, PlanStands
<1>17. R!PlannedAt(r, t, rows) = R!PlanFrom(r, t, x)
       /\ R!PlannedAt(r, t + 1, rows) = R!PlanFrom(r, t + 1, y)
  BY DEF R!PlannedAt, x, y
<1> QED BY <1>14, <1>15, <1>16, <1>17

\* What is sent now moves every start to this moment.
LEMMA StartsAfter ==
    ASSUME NEW r \in R!Request, NEW t \in Nat, NEW rows, SentBy(r, t, rows),
           NEW k \in R!Scheduled, NEW e, e = [kind |-> k, at |-> t],
           NEW x, x = R!LoopStart(r, t, rows),
           NEW y, y = R!LoopStart(r, t, Append(rows, e))
    PROVE  /\ y \in R!Loop(r) /\ SentBy(r, t, Append(rows, e))
           /\ y.pending = x.pending \ {k}
           /\ y.left = IF k = "automatic" /\ x.left > 0 THEN x.left - 1 ELSE x.left
           /\ y.next = R!AtClock(r, t, r.every) /\ y.last = t
<1>1. /\ e \in R!Reminder /\ e.kind = k /\ e.at = t
      /\ rows \in Seq(R!Reminder) /\ r.limit \in Nat
  BY DEF R!Reminder, SentBy, R!Request
<1>2. /\ Append(rows, e) \in Seq(R!Reminder) /\ Len(rows) \in Nat
      /\ DOMAIN Append(rows, e) = DOMAIN rows \cup {Len(rows) + 1}
      /\ Append(rows, e)[Len(rows) + 1] = e
      /\ \A i \in DOMAIN rows : Append(rows, e)[i] = rows[i]
  BY <1>1, Appended
<1> DEFINE more == Append(rows, e)
<1> HIDE DEF more
<1>3. SentBy(r, t, more)
  BY <1>1, <1>2 DEF SentBy, more
<1>4. y \in R!Loop(r)
  BY <1>3, Starts DEF more
<1>5. \A j : R!Number(more, j) = R!Number(rows, j) + (IF k = j THEN 1 ELSE 0)
             /\ R!Number(rows, j) \in Nat
  BY <1>1, Numbers DEF more
<1>6. y.pending = x.pending \ {k}
  <2>1. \A j : R!Number(more, j) = 0 <=> R!Number(rows, j) = 0 /\ j # k
    BY <1>5
  <2> QED BY <2>1 DEF R!LoopStart, more
<1>7. y.left = IF k = "automatic" /\ x.left > 0 THEN x.left - 1 ELSE x.left
  <2>1. /\ x.left = IF R!Number(rows, "automatic") < r.limit
                    THEN r.limit - R!Number(rows, "automatic") ELSE 0
        /\ y.left = IF R!Number(more, "automatic") < r.limit
                    THEN r.limit - R!Number(more, "automatic") ELSE 0
    BY DEF R!LoopStart, more
  <2> QED BY <1>1, <1>5, <2>1
<1>8. y.next = R!AtClock(r, t, r.every)
  <2> DEFINE anchors == R!Times(more, R!Interval)
  <2>1. t \in anchors
    BY <1>1, <1>2 DEF R!Times, R!Interval, more
  <2>2. anchors \in SUBSET Nat /\ \A s \in anchors : s <= t
    BY <1>3 DEF SentBy, R!Times
  <2>3. y.next = R!NextDue(r, anchors)
    BY DEF R!LoopStart, more
  <2> HIDE DEF anchors
  <2>4. (CHOOSE s \in anchors : \A u \in anchors : u <= s) = t
    BY <2>1, <2>2, Latest
  <2> QED BY <2>1, <2>3, <2>4 DEF R!NextDue
<1>9. y.last = t
  <2>1. t \in R!LastOf(r, more)
    BY <1>1, <1>2 DEF R!LastOf, more
  <2>2. /\ y.last \in R!LastOf(r, more)
        /\ \A s \in R!LastOf(r, more) : s \in Nat /\ s <= t /\ s <= y.last
    BY <1>3, Starts DEF more
  <2>3. t <= y.last /\ y.last <= t /\ y.last \in Nat
    BY <2>1, <2>2
  <2> QED BY <2>3
<1> QED BY <1>3, <1>4, <1>6, <1>7, <1>8, <1>9 DEF more

\* When something is due the plan has it first, and the rest is planned after.
LEMMA DueIsPlanned ==
    ASSUME NEW r \in R!Request, NEW t \in Nat, NEW rows, SentBy(r, t, rows),
           NEW k, k = R!DueAt(r, t, rows), k # "none",
           NEW e, e = [kind |-> k, at |-> t]
    PROVE  /\ k \in R!Scheduled
           /\ R!PlannedAt(r, t, rows) = <<e>> \o R!PlannedAt(r, t, Append(rows, e))
           /\ R!PlannedAt(r, t, Append(rows, e)) \in Seq(R!Reminder)
<1> DEFINE x == R!LoopStart(r, t, rows)
           y == R!LoopStart(r, t, Append(rows, e))
           soon == R!DeadlineDueAt(r, t, rows)
<1>1. /\ k \in R!Scheduled
      /\ \/ soon # {} /\ k = R!First(soon)
         \/ soon = {} /\ R!AutomaticDueAt(r, t, rows) /\ k = "automatic"
  BY DEF R!DueAt, R!First, R!Scheduled
<1>2. /\ x \in R!Loop(r) /\ x.last \in R!LastOf(r, rows)
      /\ \A s \in R!LastOf(r, rows) : s \in Nat /\ s <= t /\ s <= x.last
  BY Starts
<1>3. /\ y \in R!Loop(r)
      /\ y.pending = x.pending \ {k}
      /\ y.left = IF k = "automatic" /\ x.left > 0 THEN x.left - 1 ELSE x.left
      /\ y.next = R!AtClock(r, t, r.every) /\ y.last = t
  BY <1>1, StartsAfter
<1>4. /\ "on_day" \in Late(r, t, x) => "before" \notin x.pending
      /\ \A j \in x.pending : /\ j \in R!DeadlineKinds(r) /\ R!Number(rows, j) = 0
                              /\ t < R!WindowEnd(r, j)
  BY StartsInOrder
<1>5. r.limit \in Nat /\ \A j : R!DeadlineDue(r, j) \in Int
  BY DEF R!DeadlineDue, R!Day, R!DaysBefore, R!Request
<1>6. /\ R!PlannedAt(r, t, rows) = R!PlanFrom(r, t, x)
      /\ R!PlannedAt(r, t, Append(rows, e)) = R!PlanFrom(r, t, y)
      /\ R!PlanFrom(r, t, y) \in Seq(R!Reminder)
  BY <1>3, PlanTyped DEF R!PlannedAt
<1>7. R!PlanFrom(r, t, x) = <<e>> \o R!PlanFrom(r, t, y)
  <2>1. CASE soon # {} /\ k = R!First(soon)
    <3>1. /\ k \in soon /\ k \in R!DeadlineKinds(r) /\ k \in {"before", "on_day"}
      BY <2>1 DEF R!First, R!DeadlineDueAt, R!DeadlineKinds
    <3>2. /\ R!Number(rows, k) = 0 /\ R!DeadlineDue(r, k) <= t /\ t < R!WindowEnd(r, k)
          /\ ~R!IsRecent(r, k, x.last)
      BY <1>2, <3>1 DEF R!DeadlineDueAt
    <3>3. R!Later(R!DeadlineDue(r, k), t) = t
      BY <1>5, <3>2 DEF R!Later
    <3>4. k \in x.pending
      BY <3>1, <3>2, <3>3 DEF R!LoopStart
    <3>5. k \in Late(r, t, x)
      BY <3>2, <3>4 DEF Late
    <3> HIDE DEF x, y, soon
    <3>6. R!First(x.pending) = k
      BY <1>4, <3>1, <3>4, <3>5 DEF R!First
    <3>7. DueTime(r, t, x) = t
      BY <3>3, <3>6 DEF DueTime
    <3>8. Deadlines(r, t, x)
      BY <1>2, <3>3, <3>4, <3>6, Moments DEF Deadlines
    <3>9. R!PlanFrom(r, t, x) = <<e>> \o R!PlanFrom(r, t, GoneAt(r, Passed(x), t))
      BY <1>2, <3>2, <3>6, <3>7, <3>8, PlanUnfolds
    <3>10. GoneAt(r, Passed(x), t) = y
      <4>1. k # "automatic"
        BY <3>1
      <4>2. y.left = x.left
        BY <1>3, <4>1
      <4> QED BY <1>2, <1>3, <3>6, <4>2 DEF GoneAt, Passed, R!Loop
    <3> QED BY <3>9, <3>10
  <2>2. CASE soon = {} /\ R!AutomaticDueAt(r, t, rows) /\ k = "automatic"
    <3> DEFINE z == Without(x, Late(r, t, x))
    <3>1. x.left > 0 /\ x.next <= t
      <4>1. R!Number(rows, "automatic") \in Nat
        BY Numbers DEF SentBy
      <4>2. /\ x.left = IF R!Number(rows, "automatic") < r.limit
                        THEN r.limit - R!Number(rows, "automatic") ELSE 0
            /\ x.next = R!NextDue(r, R!Times(rows, R!Interval))
        BY DEF R!LoopStart
      <4>3. x.next \in Nat
        BY <1>2, LoopFields
      <4> HIDE DEF x
      <4> QED BY <1>5, <2>2, <4>1, <4>2, <4>3 DEF R!AutomaticDueAt
    <3>2. \A j \in Late(r, t, x) : R!IsRecent(r, j, x.last)
      <4> SUFFICES ASSUME NEW j \in Late(r, t, x) PROVE R!IsRecent(r, j, x.last)
        OBVIOUS
      <4>1. x.last \in Nat
        BY <1>2
      <4>2. /\ j \in R!DeadlineKinds(r) /\ R!Number(rows, j) = 0
            /\ t < R!WindowEnd(r, j) /\ R!DeadlineDue(r, j) <= t
        BY <1>4 DEF Late
      <4>3. j \notin R!DeadlineDueAt(r, t, rows)
        BY <2>2
      <4> HIDE DEF x
      <4> QED BY <1>2, <4>1, <4>2, <4>3, LateAreRecent
    <3> HIDE DEF x, y
    <3>3. /\ y.pending = x.pending /\ y.left = x.left - 1
      <4>1. "automatic" \notin x.pending
        BY <1>2, LoopFields
      <4> QED BY <1>3, <2>2, <3>1, <4>1
    <3>4. Late(r, t, y) = Late(r, t, x)
      BY <3>3 DEF Late
    <3>5. /\ z \in R!Loop(r) /\ z.pending = x.pending \ Late(r, t, x)
          /\ z.left = x.left /\ z.next = x.next
      BY <1>2 DEF Without, R!Loop
    <3>6. R!PlanFrom(r, t, x) = R!PlanFrom(r, t, z)
      BY <1>2, <1>4, <3>2, LateArePassed
    <3>7. R!PlanFrom(r, t, y) = R!PlanFrom(r, t, Without(y, Late(r, t, y)))
      <4>1. \A j \in Late(r, t, y) : R!IsRecent(r, j, y.last)
        <5>1. x.last \in Nat /\ x.last <= t
          BY <1>2
        <5> QED BY <1>3, <1>5, <3>2, <3>4, <5>1 DEF R!IsRecent, R!Recent
      <4> QED BY <1>3, <1>4, <3>3, <3>4, <4>1, LateArePassed
    <3>8. R!Later(z.next, t) = t
      BY <3>1, <3>5, LoopFields DEF R!Later
    <3>9. ~Deadlines(r, t, z)
      <4> SUFFICES ASSUME Deadlines(r, t, z) PROVE FALSE
        OBVIOUS
      <4>1. z.pending # {} /\ z.left # 0
        BY <3>1, <3>5 DEF Deadlines
      <4>2. R!First(z.pending) \in z.pending
        BY <3>5, <4>1, LoopPassed
      <4>3. R!DeadlineDue(r, R!First(z.pending)) > t
        BY <1>5, <3>5, <4>2 DEF Late
      <4> QED BY <1>5, <3>8, <4>1, <4>3 DEF Deadlines, R!Later
    <3>10. R!PlanFrom(r, t, z) = <<e>> \o R!PlanFrom(r, t, GoneAt(r, Counted(z), t))
      BY <2>2, <3>1, <3>5, <3>8, <3>9, PlanUnfolds
    <3>11. GoneAt(r, Counted(z), t) = Without(y, Late(r, t, y))
      BY <1>2, <1>3, <3>3, <3>4 DEF GoneAt, Counted, Without, R!Loop
    <3> QED BY <3>6, <3>7, <3>10, <3>11
  <2> QED BY <1>1, <2>1, <2>2
<1> QED BY <1>1, <1>6, <1>7

-----------------------------------------------------------------------------
(* The plan the sender is shown: the invariant *)

\* What is shown is what would be planned now.
PlanOk == plan = R!Planned /\ req.created <= now

LEMMA RequestNow ==
    ASSUME R!SettingsAssumption, RemindersInv, PlanOk
    PROVE  /\ req \in R!Request /\ now \in Nat /\ now + 1 \in Nat
           /\ SentBy(req, now, reminders)
BY RowTypes DEF R!SettingsAssumption, RemindersInv, RemindersTyped, PlanOk, SentBy

\* A worker that sends what the plan has first takes it off the plan.
LEMMA PlanSend ==
    ASSUME R!SettingsAssumption, RemindersInv, PlanOk, NEW w \in Workers, R!Send(w)
    PROVE  PlanOk'
<1> DEFINE e == [kind |-> wk[w], at |-> now]
           k == R!DueAt(req, now, reminders)
<1>1. /\ reminders' = Append(reminders, e)
      /\ UNCHANGED <<req, now, state, enabled>>
      /\ plan' = IF R!AsPlanned(w) THEN Tail(plan) ELSE R!Planned'
  BY DEF R!Send
<1>2. /\ req \in R!Request /\ now \in Nat /\ SentBy(req, now, reminders)
  BY RequestNow
<1>3. CASE R!AsPlanned(w)
  <2>1. plan # <<>> /\ Head(plan) = e
    BY <1>3 DEF R!AsPlanned
  <2>2. R!Remindable /\ plan = R!PlannedAt(req, now, reminders)
    BY <2>1 DEF PlanOk, R!Planned
  <2>3. k # "none"
    <3> SUFFICES ASSUME k = "none" PROVE FALSE
      OBVIOUS
    <3>1. \A i \in DOMAIN plan : plan[i].at > now
      BY <1>2, <2>2, NothingDue
    <3>2. R!LoopStart(req, now, reminders) \in R!Loop(req)
      BY <1>2, Starts
    <3>3. plan \in Seq(R!Reminder)
      BY <1>2, <2>2, <3>2, PlanTyped DEF R!PlannedAt
    <3>4. 1 \in DOMAIN plan /\ plan[1] = e
      BY <2>1, <3>3
    <3>5. e.at = now
      OBVIOUS
    <3>6. now > now
      BY <3>1, <3>4, <3>5
    <3> QED BY <1>2, <3>6
  <2> DEFINE d == [kind |-> k, at |-> now]
  <2>4. /\ k \in R!Scheduled
        /\ plan = <<d>> \o R!PlannedAt(req, now, Append(reminders, d))
        /\ R!PlannedAt(req, now, Append(reminders, d)) \in Seq(R!Reminder)
    BY <1>2, <2>2, <2>3, DueIsPlanned
  <2>5. d \in R!Reminder
    BY <1>2, <2>4 DEF R!Reminder
  <2> HIDE DEF d, e
  <2>6. Head(plan) = d /\ Tail(plan) = R!PlannedAt(req, now, Append(reminders, d))
    BY <2>4, <2>5, Prefixed
  <2>7. R!Remindable' /\ Tail(plan) = R!PlannedAt(req', now', reminders')
    BY <1>1, <2>1, <2>2, <2>6 DEF R!Remindable
  <2> QED BY <1>1, <1>3, <2>7 DEF PlanOk, R!Planned
<1>4. CASE ~R!AsPlanned(w)
  BY <1>1, <1>4 DEF PlanOk
<1> QED BY <1>3, <1>4

LEMMA PlanClock ==
    ASSUME R!SettingsAssumption, RemindersInv, PlanOk, R!Tick
    PROVE  PlanOk'
<1>1. /\ now' = now + 1 /\ UNCHANGED <<req, state, enabled, reminders>>
      /\ plan' = IF R!DueNow = "none" THEN plan ELSE R!Planned'
  BY DEF R!Tick
<1>2. req \in R!Request /\ now \in Nat /\ SentBy(req, now, reminders) /\ req.created \in Nat
  BY RequestNow DEF R!Request
<1>3. req'.created <= now'
  BY <1>1, <1>2 DEF PlanOk
<1>4. plan' = R!Planned'
  <2>1. CASE R!DueNow # "none"
    BY <1>1, <2>1
  <2>2. CASE R!DueNow = "none" /\ R!Remindable
    <3>1. R!DueAt(req, now, reminders) = "none"
      BY <2>2 DEF R!DueNow
    <3>2. R!PlannedAt(req, now, reminders) = R!PlannedAt(req, now + 1, reminders)
      BY <1>2, <3>1, NothingDue
    <3>3. R!Remindable'
      BY <1>1, <2>2 DEF R!Remindable
    <3> QED BY <1>1, <2>2, <3>2, <3>3 DEF PlanOk, R!Planned
  <2>3. CASE R!DueNow = "none" /\ ~R!Remindable
    <3>1. ~R!Remindable'
      BY <1>1, <2>3 DEF R!Remindable
    <3> QED BY <1>1, <2>3, <3>1 DEF PlanOk, R!Planned
  <2> QED BY <2>1, <2>2, <2>3
<1> QED BY <1>3, <1>4 DEF PlanOk

LEMMA PlanStep ==
    R!SettingsAssumption /\ RemindersInv /\ PlanOk /\ [R!Next]_reminderVars => PlanOk'
<1> SUFFICES ASSUME R!SettingsAssumption, RemindersInv, PlanOk, [R!Next]_reminderVars
             PROVE  PlanOk'
  OBVIOUS
<1>1. CASE R!Tick
  BY <1>1, PlanClock
<1>2. ASSUME NEW w \in Workers, R!Send(w) PROVE PlanOk'
  BY <1>2, PlanSend
<1>3. CASE R!Change \/ \E p \in Senders : R!ManualSend(p)
  <2>1. plan' = R!Planned' /\ req' = req /\ now' = now
    BY <1>3 DEF R!Change, R!ManualSend
  <2> QED BY <2>1 DEF PlanOk
<1>4. CASE \/ \E w \in Workers : R!Take(w) \/ R!Crash(w)
           \/ \E p \in Senders : R!ManualCheck(p) \/ R!CombinedCheck(p)
           \/ UNCHANGED reminderVars
  <2>1. UNCHANGED <<req, now, state, enabled, reminders, plan>>
    BY <1>4 DEF R!Take, R!Crash, R!ManualCheck, R!CombinedCheck, reminderVars
  <2> QED BY <2>1 DEF PlanOk, R!Planned, R!Remindable
<1> QED BY <1>1, <1>2, <1>3, <1>4 DEF R!Next

LEMMA PlanInit == R!SettingsAssumption /\ R!Init => PlanOk
<1> SUFFICES ASSUME R!SettingsAssumption, R!Init PROVE PlanOk
  OBVIOUS
<1>1. /\ now = req.created /\ R!Remindable /\ reminders = <<>>
      /\ plan = R!PlannedAt(req, req.created, <<>>)
  BY DEF R!Init, R!Remindable
<1>2. req.created \in Nat
  BY ReminderSettings DEF R!Init
<1> QED BY <1>1, <1>2 DEF PlanOk, R!Planned

LEMMA PlanHeld ==
    ASSUME R!SettingsAssumption, RemindersInv, PlanOk
    PROVE  R!PlanComesTrue
<1>1. /\ req \in R!Request /\ now \in Nat /\ SentBy(req, now, reminders)
  BY RequestNow
<1>2. CASE R!DueNow = "none"
  <2>1. CASE R!Remindable
    BY <1>1, <1>2, <2>1, NothingDue DEF R!DueNow, R!PlanComesTrue, PlanOk, R!Planned
  <2>2. CASE ~R!Remindable
    <3>1. plan = <<>>
      BY <2>2 DEF PlanOk, R!Planned
    <3> QED BY <1>2, <3>1 DEF R!PlanComesTrue, PlanOk
  <2> QED BY <2>1, <2>2
<1>3. CASE R!DueNow # "none"
  <2> DEFINE k == R!DueNow
             d == [kind |-> k, at |-> now]
  <2>1. R!Remindable /\ k = R!DueAt(req, now, reminders)
    BY <1>3 DEF R!DueNow
  <2>2. /\ k \in R!Scheduled
        /\ plan = <<d>> \o R!PlannedAt(req, now, Append(reminders, d))
        /\ R!PlannedAt(req, now, Append(reminders, d)) \in Seq(R!Reminder)
    BY <1>1, <1>3, <2>1, DueIsPlanned DEF PlanOk, R!Planned
  <2>3. d \in R!Reminder
    BY <1>1, <2>2 DEF R!Reminder
  <2> HIDE DEF d
  <2>4. plan # <<>> /\ Head(plan) = d
    BY <2>2, <2>3, Prefixed
  <2> QED BY <1>3, <2>4 DEF d, R!PlanComesTrue, PlanOk
<1> QED BY <1>2, <1>3

(* The reminders planned for a request are those that go out: as long as     *)
(* nobody changes anything and the task is not late, the task sends exactly  *)
(* what ReminderScheduleService.planned has for the moment.                  *)
THEOREM PlanComesTrueAlways == PartSpec => []PlanComesTrue
<1> DEFINE I == RemindersInv /\ PlanOk
<1>1. PartInit => I
  BY MailingsAssumption, RemindersInit, PlanInit DEF PartInit
<1>2. I /\ [PartNext]_<<part, vars, reminderVars, mailVars>> => I'
  <2>1. [PartNext]_<<part, vars, reminderVars, mailVars>> => [R!Next]_reminderVars
    BY DEF PartNext
  <2> QED BY <2>1, MailingsAssumption, RemindersStep, PlanStep
<1>3. I => PlanComesTrue
  BY MailingsAssumption, PlanHeld DEF PlanComesTrue
<1> QED BY <1>1, <1>2, <1>3, PTL DEF PartSpec
=============================================================================
