--------------------------- MODULE MCOffice_proofs ---------------------------
(***************************************************************************)
(* Proofs about the office of an account, for any number of requests,      *)
(* workers, plans, clients, spellings, documents, customers and links.     *)
(*                                                                         *)
(* Places of the plan.  The invariant is inductive together with what the  *)
(* holder of the billing row knows (CheckStaysGood): its count, made under *)
(* the lock, bounds the places taken now and those it is about to take.    *)
(*                                                                         *)
(* Panel links.  A browser that nothing overtook, in the middle of a       *)
(* sign-in, looked at a link that still works or holds the token in force  *)
(* (VisitOk); the token in force is the one mailed last, or somebody is    *)
(* about to mail it (TokenMailed).                                         *)
(*                                                                         *)
(* Terms.  Of a document whose date was not moved, only what is on the     *)
(* site may be archived before its day, and then an older wording is       *)
(* archived too (Orderly), so that there is always one to accept.  The     *)
(* newest in force exists because a finite set of days has a greatest.     *)
(*                                                                         *)
(* Clients.  The pages about to add an address are counted with the rows   *)
(* that have it (AddressOk): a page that looks and finds none joins the    *)
(* first group, one that adds moves from the first to the second.          *)
(***************************************************************************)
EXTENDS MCOffice, FiniteSetTheorems, TLAPS

-----------------------------------------------------------------------------
(* Places of the plan *)

\* The places given under the plan in force.
Taken == InProgress \ over

\* Only an edit is an operation without a name.
OpKnown == \A w \in Workers : wk[w].pc \in {"check", "commit"} => wk[w].op \in Checked

IInv == TypeOK /\ OpKnown /\ CheckStaysGood /\ PlanNotOversold

-----------------------------------------------------------------------------
(* Counting *)

LEMMA SmallerFits ==
    ASSUME NEW A, NEW B, IsFiniteSet(A), B \subseteq A,
           NEW n \in Nat, Cardinality(A) <= n
    PROVE  Cardinality(B) <= n
<1>1. IsFiniteSet(B) /\ Cardinality(B) <= Cardinality(A)
    BY FS_Subset
<1>2. Cardinality(A) \in Nat /\ Cardinality(B) \in Nat
    BY <1>1, FS_CardinalityType
<1> QED BY <1>1, <1>2

LEMMA UnionFits ==
    ASSUME NEW A, NEW B, IsFiniteSet(A), IsFiniteSet(B),
           NEW n \in Nat, Cardinality(A) + Cardinality(B) <= n
    PROVE  /\ IsFiniteSet(A \cup B)
           /\ Cardinality(A \cup B) <= n
<1>1. /\ IsFiniteSet(A \cup B)
      /\ Cardinality(A \cup B) = Cardinality(A) + Cardinality(B) - Cardinality(A \cap B)
    BY FS_Union
<1>2. IsFiniteSet(A \cap B)
    BY FS_Subset, A \cap B \subseteq A
<1>3. /\ Cardinality(A) \in Nat
      /\ Cardinality(B) \in Nat
      /\ Cardinality(A \cap B) \in Nat
    BY <1>2, FS_CardinalityType
<1> QED BY <1>1, <1>3

-----------------------------------------------------------------------------
(* Types *)

LEMMA StoredType ==
    ASSUME NEW q \in Row, NEW op \in Checked
    PROVE  Stored(op, q) \in Row
BY DEF Stored, Row, Checked

LEMMA StartType ==
    ASSUME TypeOK, OpKnown, NEW w \in Workers, NEW op \in Checked \cup {"none"},
           NEW S \in SUBSET Requests, NEW copy \in Row, Start(w, op, S, copy)
    PROVE  TypeOK' /\ OpKnown'
<1>1. wk' \in [Workers -> Worker]
    BY DEF Start, TypeOK, Worker, Checked
<1>2. TypeOK'
    BY <1>1 DEF Start, TypeOK
<1>3. OpKnown'
    BY DEF Start, OpKnown, TypeOK, Worker, Checked
<1> QED BY <1>2, <1>3

LEMMA NewRowType == NewRow \in Row
BY DEF NewRow, Row

LEMMA IdleType == Idle \in Worker /\ Idle.pc = "idle"
BY NewRowType DEF Idle, Worker

(* Every step keeps the variables in their sets and the worker's operation *)
(* known.                                                                  *)
LEMMA TypeStep ==
    ASSUME TypeOK, OpKnown, [Next]_vars
    PROVE  TypeOK' /\ OpKnown'
<1> USE NewRowType, IdleType
<1>1. ASSUME NEW w \in Workers, NEW S \in SUBSET Requests, CreateBegin(w, S)
      PROVE  TypeOK' /\ OpKnown'
    BY <1>1, StartType DEF CreateBegin, Checked
<1>2. ASSUME NEW w \in Workers, NEW r \in Requests,
             \/ GuestSubmitBegin(w, r) \/ ConfirmBegin(w, r) \/ ReopenBegin(w, r)
      PROVE  TypeOK' /\ OpKnown'
    BY <1>2, StartType DEF GuestSubmitBegin, ConfirmBegin, ReopenBegin, Checked
<1>3. ASSUME NEW w \in Workers, NEW r \in Requests, EditBegin(w, r)
      PROVE  TypeOK' /\ OpKnown'
    BY <1>3, StartType DEF EditBegin, TypeOK
<1>4. ASSUME NEW w \in Workers, CheckPlan(w)
      PROVE  TypeOK' /\ OpKnown'
    <2>0. [wk[w] EXCEPT !.pc = "commit", !.lim = limit] \in Worker
        BY PlanAssumption DEF TypeOK, Worker
    <2>1. wk' \in [Workers -> Worker]
        BY <1>4, <2>0 DEF CheckPlan, TypeOK
    <2>2. TypeOK'
        BY <1>4, <2>1 DEF CheckPlan, TypeOK
    <2>3. OpKnown'
        <3>1. \A v \in Workers : v # w => wk'[v] = wk[v]
            BY <1>4 DEF CheckPlan, TypeOK
        <3>2. \/ wk'[w] = [wk[w] EXCEPT !.pc = "commit", !.lim = limit]
              \/ wk'[w] = Idle
            BY <1>4 DEF CheckPlan, TypeOK
        <3>3. wk[w].pc = "check" /\ wk[w] \in Worker
            BY <1>4 DEF CheckPlan, TypeOK
        <3>4. wk'[w].op = wk[w].op \/ wk'[w].pc = "idle"
            BY <3>2, <3>3, IdleType DEF Worker
        <3> QED BY <3>1, <3>3, <3>4 DEF OpKnown
    <2> QED BY <2>2, <2>3
<1>5. ASSUME NEW w \in Workers, Commit(w)
      PROVE  TypeOK' /\ OpKnown'
    <2>1. wk[w].op \in Checked /\ wk[w].S \in SUBSET Requests
        BY <1>5 DEF Commit, OpKnown, TypeOK, Worker
    <2>2. req' \in [Requests -> Row]
        BY <1>5, <2>1, StoredType DEF Commit, TypeOK
    <2>3. TypeOK'
        BY <1>5, <2>1, <2>2 DEF Commit, TypeOK
    <2>4. OpKnown'
        BY <1>5 DEF Commit, TypeOK, OpKnown
    <2> QED BY <2>3, <2>4
<1>6. ASSUME NEW w \in Workers, Rollback(w)
      PROVE  TypeOK' /\ OpKnown'
    BY <1>6 DEF Rollback, TypeOK, OpKnown
<1>7. ASSUME NEW w \in Workers, EditSave(w)
      PROVE  TypeOK' /\ OpKnown'
    <2>1. PICK r \in wk[w].S :
              LET q == [wk[w].copy EXCEPT !.done = Live(r) /\ req[r].done] IN
              Write(r, q) /\ Uncounted(r, q)
        BY <1>7 DEF EditSave
    <2>2. r \in Requests /\ wk[w].copy \in Row
        BY <2>1 DEF TypeOK, Worker
    <2>3. req' \in [Requests -> Row]
        BY <2>1, <2>2 DEF Write, Live, TypeOK, Row
    <2>4. over' \in SUBSET Requests
        BY <2>1, <2>2 DEF Uncounted, TypeOK
    <2>5. TypeOK'
        BY <1>7, <2>3, <2>4 DEF EditSave, TypeOK
    <2>6. OpKnown'
        BY <1>7 DEF EditSave, TypeOK, OpKnown
    <2> QED BY <2>5, <2>6
<1>8. ASSUME NEW r \in Requests,
             Release(r) \/ CloseRequest(r) \/ Complete(r) \/ Return(r) \/ Delete(r)
      PROVE  TypeOK' /\ OpKnown'
    <2>1. req' \in [Requests -> Row]
        <3>1. CASE Delete(r)
            BY <3>1 DEF Delete, Write, TypeOK, Row, NewRow
        <3>2. CASE Release(r) \/ CloseRequest(r) \/ Complete(r) \/ Return(r)
            <4>1. PICK q \in Row : req' = [req EXCEPT ![r] = q]
                BY <3>2 DEF Release, CloseRequest, Complete, Return, Write,
                            TypeOK, Row
            <4> QED BY <4>1 DEF TypeOK
        <3> QED BY <1>8, <3>1, <3>2
    <2>2. over' \in SUBSET Requests
        BY <1>8 DEF Release, CloseRequest, Complete, Return, Delete, Uncounted,
                    TypeOK
    <2>3. UNCHANGED <<verified, limit, lock, wk>>
        BY <1>8 DEF Release, CloseRequest, Complete, Return, Delete
    <2> QED BY <2>1, <2>2, <2>3 DEF TypeOK, OpKnown
<1>9. CASE ConfirmAddress
    BY <1>9 DEF ConfirmAddress, TypeOK, OpKnown
<1>10. ASSUME NEW l \in Limits, ChangePlan(l) \/ EndTrial(l)
       PROVE  TypeOK' /\ OpKnown'
    <2>1. over' \in SUBSET Requests
        BY <1>10 DEF ChangePlan, EndTrial, SetLimit, InProgress, TypeOK
    <2> QED BY <1>10, <2>1 DEF ChangePlan, EndTrial, SetLimit, TypeOK, OpKnown
<1>11. CASE UNCHANGED vars
    BY <1>11 DEF vars, TypeOK, OpKnown
<1> QED BY <1>1, <1>2, <1>3, <1>4, <1>5, <1>6, <1>7, <1>8, <1>9, <1>10, <1>11
        DEF Next

THEOREM TypeCorrect == Spec => []TypeOK
<1>1. Init => TypeOK /\ OpKnown
    BY NewRowType, IdleType DEF Init, TypeOK, OpKnown
<1>2. TypeOK /\ OpKnown /\ [Next]_vars => TypeOK' /\ OpKnown'
    BY TypeStep
<1> QED BY <1>1, <1>2, PTL DEF Spec

-----------------------------------------------------------------------------
(* The places *)

LEMMA Finite ==
    ASSUME TypeOK
    PROVE  /\ IsFiniteSet(InProgress)
           /\ IsFiniteSet(Taken)
           /\ limit \in Nat
           /\ \A w \in Workers : IsFiniteSet(wk[w].S) /\ IsFiniteSet(Taken \cup wk[w].S)
<1>1. ASSUME NEW S \in SUBSET Requests
      PROVE  IsFiniteSet(S)
    BY FS_Subset, PlanAssumption
<1>2. InProgress \in SUBSET Requests /\ Taken \in SUBSET Requests
    BY DEF InProgress, Taken
<1>3. \A w \in Workers : wk[w].S \in SUBSET Requests
    BY DEF TypeOK, Worker
<1>4. limit \in Nat
    BY PlanAssumption DEF TypeOK
<1> QED BY <1>1, <1>2, <1>3, <1>4

(* A step that gives no place, changes no plan and leaves whoever holds    *)
(* the billing row alone keeps the counts good.                            *)
LEMMA NoPlaceGiven ==
    ASSUME IInv, Taken' \subseteq Taken, UNCHANGED <<limit, lock>>,
           \A w \in Workers : \/ wk'[w] = wk[w]
                              \/ wk[w].pc # "commit" /\ wk'[w].pc # "commit"
    PROVE  CheckStaysGood' /\ PlanNotOversold'
<1> USE DEF IInv
<1>1. PlanNotOversold'
    BY Finite, SmallerFits DEF PlanNotOversold, Taken
<1>2. ASSUME NEW w \in Workers
      PROVE  /\ wk'[w].pc = "commit" <=> lock' = w
             /\ wk'[w].pc = "commit" =>
                  /\ limit' <= wk'[w].lim
                  /\ wk'[w].lim = limit' =>
                       Cardinality((InProgress' \ over') \cup wk'[w].S) <= limit'
    <2>1. CASE wk'[w] = wk[w]
        <3>1. (Taken \cup wk[w].S)' \subseteq Taken \cup wk[w].S
            BY <2>1
        <3>2. ASSUME Cardinality(Taken \cup wk[w].S) <= limit
              PROVE  Cardinality(Taken' \cup wk[w].S) <= limit
            BY <3>1, <3>2, <2>1, Finite, SmallerFits
        <3> QED BY <2>1, <3>2 DEF CheckStaysGood, Taken
    <2>2. CASE wk[w].pc # "commit" /\ wk'[w].pc # "commit"
        BY <2>2 DEF CheckStaysGood
    <2> QED BY <2>1, <2>2
<1>3. CheckStaysGood'
    BY <1>2 DEF CheckStaysGood
<1> QED BY <1>1, <1>3

(* One row is written: its place is either counted as uncounted, or not    *)
(* taken anew.                                                             *)
LEMMA WriteGivesNoPlace ==
    ASSUME TypeOK, NEW r \in Requests, NEW q, Write(r, q),
           \/ Uncounted(r, q)
           \/ UNCHANGED over /\ (InProgressRow(q) => InProgressRow(req[r]))
    PROVE  Taken' \subseteq Taken
<1>1. ASSUME NEW s \in Requests
      PROVE  req'[s] = IF s = r THEN q ELSE req[s]
    BY DEF Write, TypeOK
<1>2. SUFFICES ASSUME NEW s \in Requests, InProgressRow(req'[s]), s \notin over'
               PROVE  InProgressRow(req[s]) /\ s \notin over
    BY DEF Taken, InProgress
<1>3. s \notin over
    BY <1>2 DEF Uncounted
<1>4. InProgressRow(req[s])
    BY <1>1, <1>2 DEF Uncounted
<1> QED BY <1>3, <1>4

(* Starting to serve a request. *)
LEMMA StartGivesNoPlace ==
    ASSUME IInv, NEW w \in Workers, NEW op, NEW S, NEW copy, Start(w, op, S, copy)
    PROVE  CheckStaysGood' /\ PlanNotOversold'
<1>1. Taken' = Taken
    BY DEF Start, Taken, InProgress
<1>2. \A u \in Workers : \/ wk'[u] = wk[u]
                         \/ wk[u].pc # "commit" /\ wk'[u].pc # "commit"
    BY DEF Start, IInv, TypeOK
<1> QED BY <1>1, <1>2, NoPlaceGiven DEF Start

LEMMA CheckGood ==
    ASSUME IInv, NEW w \in Workers, CheckPlan(w)
    PROVE  CheckStaysGood' /\ PlanNotOversold'
<1> USE DEF IInv
<1>1. Taken' = Taken
    BY DEF CheckPlan, Taken, InProgress
<1>2. CASE Cardinality(Counted(w)) + Cardinality(wk[w].S) <= limit
    <2>1. Taken \subseteq Counted(w)
        BY DEF Taken, InProgress, Counted, InProgressRow, Stored, TypeOK, Row
    <2>2. IsFiniteSet(Counted(w)) /\ IsFiniteSet(wk[w].S) /\ limit \in Nat
        BY Finite, FS_Subset, PlanAssumption DEF Counted
    <2>3. Cardinality(Counted(w) \cup wk[w].S) <= limit
        BY <1>2, <2>2, UnionFits
    <2>4. IsFiniteSet(Counted(w) \cup wk[w].S)
        BY <1>2, <2>2, UnionFits
    <2>5. Cardinality(Taken \cup wk[w].S) <= limit
        <3>1. Taken \cup wk[w].S \subseteq Counted(w) \cup wk[w].S
            BY <2>1
        <3> QED BY <2>2, <2>3, <2>4, <3>1, SmallerFits
    <2>6. /\ lock' = w /\ limit' = limit
          /\ wk' = [wk EXCEPT ![w] = [@ EXCEPT !.pc = "commit", !.lim = limit]]
        BY <1>2 DEF CheckPlan
    <2>7. \A u \in Workers : wk[u].pc # "commit"
        BY PlanAssumption DEF CheckStaysGood, CheckPlan
    <2>8. \A u \in Workers : wk'[u].pc = "commit" <=> u = w
        BY <2>6, <2>7 DEF TypeOK, Worker
    <2>9. wk'[w].lim = limit /\ wk'[w].S = wk[w].S
        BY <2>6 DEF TypeOK, Worker
    <2>10. Cardinality((Taken \cup wk[w].S)') <= limit'
        BY <1>1, <2>5, <2>6, <2>9
    <2>11. \A u \in Workers : wk'[u].pc = "commit" <=> lock' = u
        BY <2>6, <2>8
    <2>12. limit' <= wk'[w].lim
        BY <2>2, <2>6, <2>9
    <2>13. CheckStaysGood'
        BY <2>8, <2>10, <2>11, <2>12 DEF CheckStaysGood, Taken
    <2> QED BY <1>1, <2>6, <2>13 DEF PlanNotOversold, Taken
<1>3. CASE ~(Cardinality(Counted(w)) + Cardinality(wk[w].S) <= limit)
    <2>1. wk' = [wk EXCEPT ![w] = Idle] /\ UNCHANGED <<lock, limit>>
        BY <1>3 DEF CheckPlan
    <2>2. \A u \in Workers : \/ wk'[u] = wk[u]
                             \/ wk[u].pc # "commit" /\ wk'[u].pc # "commit"
        BY <2>1, IdleType DEF CheckPlan, TypeOK
    <2> QED BY <1>1, <2>1, <2>2, NoPlaceGiven
<1> QED BY <1>2, <1>3

(* The holder of the billing row lets it go: nobody is past the check.     *)
LEMMA Released ==
    ASSUME IInv, NEW w \in Workers, wk[w].pc = "commit",
           lock' = NoWorker, wk' = [wk EXCEPT ![w] = Idle]
    PROVE  CheckStaysGood'
<1>1. \A u \in Workers : u # w => wk[u].pc # "commit"
    BY DEF IInv, CheckStaysGood
<1>2. \A u \in Workers : wk'[u].pc # "commit"
    BY <1>1, IdleType DEF IInv, TypeOK
<1> QED BY <1>2, PlanAssumption DEF CheckStaysGood

LEMMA CommitGood ==
    ASSUME IInv, NEW w \in Workers, Commit(w)
    PROVE  CheckStaysGood' /\ PlanNotOversold'
<1> USE DEF IInv
<1>1. CheckStaysGood'
    BY Released DEF Commit
<1>2. \A r \in Requests : r \notin wk[w].S => req'[r] = req[r]
    BY DEF Commit
<1>3. CASE wk[w].lim = limit
    <2>1. Taken' \subseteq Taken \cup wk[w].S
        BY <1>2, <1>3 DEF Commit, Taken, InProgress
    <2>2. Cardinality(Taken \cup wk[w].S) <= limit
        BY <1>3 DEF CheckStaysGood, Commit, Taken
    <2>3. Cardinality(Taken') <= limit
        BY <2>1, <2>2, Finite, SmallerFits
    <2> QED BY <1>1, <2>3 DEF PlanNotOversold, Taken, Commit
<1>4. CASE wk[w].lim # limit
    <2>1. Taken' \subseteq Taken
        BY <1>2, <1>4 DEF Commit, Taken, InProgress
    <2>2. Cardinality(Taken') <= limit
        BY <2>1, Finite, SmallerFits DEF PlanNotOversold, Taken
    <2> QED BY <1>1, <2>2 DEF PlanNotOversold, Taken, Commit
<1> QED BY <1>3, <1>4

LEMMA RollbackGood ==
    ASSUME IInv, NEW w \in Workers, Rollback(w)
    PROVE  CheckStaysGood' /\ PlanNotOversold'
<1>1. CheckStaysGood'
    BY Released DEF Rollback
<1>2. PlanNotOversold'
    BY DEF Rollback, IInv, PlanNotOversold, InProgress
<1> QED BY <1>1, <1>2

LEMMA EditSaveGood ==
    ASSUME IInv, NEW w \in Workers, EditSave(w)
    PROVE  CheckStaysGood' /\ PlanNotOversold'
<1> USE DEF IInv
<1>1. PICK r \in wk[w].S :
          LET q == [wk[w].copy EXCEPT !.done = Live(r) /\ req[r].done] IN
          Write(r, q) /\ Uncounted(r, q)
    BY DEF EditSave
<1>2. Taken' \subseteq Taken
    <2>1. r \in Requests
        BY DEF TypeOK, Worker
    <2> QED BY <1>1, <2>1, WriteGivesNoPlace
<1>3. \A u \in Workers : \/ wk'[u] = wk[u]
                         \/ wk[u].pc # "commit" /\ wk'[u].pc # "commit"
    BY IdleType DEF EditSave, TypeOK
<1> QED BY <1>2, <1>3, NoPlaceGiven DEF EditSave

LEMMA RowStepGood ==
    ASSUME IInv, NEW r \in Requests,
           Release(r) \/ CloseRequest(r) \/ Complete(r) \/ Return(r) \/ Delete(r)
    PROVE  CheckStaysGood' /\ PlanNotOversold'
<1> USE DEF IInv
<1>1. UNCHANGED <<limit, lock, wk>>
    BY DEF Release, CloseRequest, Complete, Return, Delete
<1>2. Taken' \subseteq Taken
    <2>1. CASE Release(r)
        BY <2>1, WriteGivesNoPlace DEF Release
    <2>2. CASE Return(r)
        BY <2>2, WriteGivesNoPlace DEF Return
    <2>3. CASE CloseRequest(r)
        <3>1. ~InProgressRow([req[r] EXCEPT !.closed = TRUE])
            BY DEF InProgressRow, TypeOK, Row
        <3> QED BY <2>3, <3>1, WriteGivesNoPlace DEF CloseRequest
    <2>4. CASE Complete(r)
        <3>1. ~InProgressRow([req[r] EXCEPT !.done = TRUE])
            BY DEF InProgressRow, TypeOK, Row
        <3> QED BY <2>4, <3>1, WriteGivesNoPlace DEF Complete
    <2>5. CASE Delete(r)
        <3>1. ~InProgressRow([NewRow EXCEPT !.row = "gone"])
            BY DEF InProgressRow, NewRow
        <3> QED BY <2>5, <3>1, WriteGivesNoPlace DEF Delete
    <2> QED BY <2>1, <2>2, <2>3, <2>4, <2>5
<1> QED BY <1>1, <1>2, NoPlaceGiven

LEMMA PlanStepGood ==
    ASSUME IInv, NEW l \in Limits, ChangePlan(l) \/ EndTrial(l)
    PROVE  CheckStaysGood' /\ PlanNotOversold'
<1> USE DEF IInv
<1>1. /\ limit' = l /\ l \in Nat /\ limit \in Nat
      /\ UNCHANGED <<req, lock, wk>>
      /\ over' = IF l < limit THEN over \cup InProgress ELSE over
    BY PlanAssumption, Finite DEF ChangePlan, EndTrial, SetLimit
<1>2. InProgress' = InProgress
    BY <1>1 DEF InProgress
<1>3. CASE l < limit
    <2>1. InProgress' \ over' = {}
        BY <1>1, <1>2, <1>3
    <2>2. PlanNotOversold'
        BY <1>1, <2>1, FS_EmptySet DEF PlanNotOversold
    <2>3. ASSUME NEW w \in Workers, wk[w].pc = "commit"
          PROVE  limit' <= wk[w].lim /\ wk[w].lim # limit'
        <3>1. wk[w].lim \in Limits \cup {0}
            BY DEF TypeOK, Worker
        <3>2. limit <= wk[w].lim
            BY <2>3 DEF CheckStaysGood
        <3>3. wk[w].lim \in Nat
            <4>1. CASE wk[w].lim \in Limits
                <5>1. Limits \subseteq Nat
                    BY PlanAssumption
                <5> QED BY <4>1, <5>1
            <4>2. CASE wk[w].lim = 0
                BY <4>2
            <4> QED BY <3>1, <4>1, <4>2
        <3>4. l < wk[w].lim
            BY <1>1, <1>3, <3>2, <3>3
        <3> QED BY <1>1, <3>3, <3>4
    <2>4. CheckStaysGood'
        BY <1>1, <2>3 DEF CheckStaysGood
    <2> QED BY <2>2, <2>4
<1>4. CASE ~(l < limit)
    <2>1. ChangePlan(l)
        BY <1>4 DEF EndTrial
    <2>2. \A w \in Workers : wk[w].pc # "commit"
        BY <2>1, PlanAssumption DEF ChangePlan, CheckStaysGood
    <2>3. CheckStaysGood'
        BY <1>1, <2>2 DEF CheckStaysGood
    <2>4. Cardinality(InProgress \ over) \in Nat
        BY Finite, FS_CardinalityType DEF Taken
    <2>5. PlanNotOversold'
        BY <1>1, <1>2, <1>4, <2>4 DEF PlanNotOversold
    <2> QED BY <2>3, <2>5
<1> QED BY <1>3, <1>4

LEMMA InvStep ==
    ASSUME IInv, [Next]_vars
    PROVE  IInv'
<1>1. TypeOK' /\ OpKnown'
    BY TypeStep DEF IInv
<1>2. ASSUME NEW w \in Workers, NEW S \in SUBSET Requests, CreateBegin(w, S)
      PROVE  CheckStaysGood' /\ PlanNotOversold'
    BY <1>2, StartGivesNoPlace DEF CreateBegin
<1>3. ASSUME NEW w \in Workers, NEW r \in Requests,
             \/ GuestSubmitBegin(w, r) \/ ConfirmBegin(w, r)
             \/ ReopenBegin(w, r) \/ EditBegin(w, r)
      PROVE  CheckStaysGood' /\ PlanNotOversold'
    BY <1>3, StartGivesNoPlace
       DEF GuestSubmitBegin, ConfirmBegin, ReopenBegin, EditBegin
<1>4. ASSUME NEW w \in Workers,
             CheckPlan(w) \/ Commit(w) \/ Rollback(w) \/ EditSave(w)
      PROVE  CheckStaysGood' /\ PlanNotOversold'
    BY <1>4, CheckGood, CommitGood, RollbackGood, EditSaveGood
<1>5. ASSUME NEW r \in Requests,
             Release(r) \/ CloseRequest(r) \/ Complete(r) \/ Return(r) \/ Delete(r)
      PROVE  CheckStaysGood' /\ PlanNotOversold'
    BY <1>5, RowStepGood
<1>6. ASSUME ConfirmAddress
      PROVE  CheckStaysGood' /\ PlanNotOversold'
    <2>1. Taken' = Taken
        BY <1>6 DEF ConfirmAddress, Taken, InProgress
    <2>2. UNCHANGED <<limit, lock>>
        BY <1>6 DEF ConfirmAddress
    <2>3. \A w \in Workers : wk'[w] = wk[w]
        BY <1>6 DEF ConfirmAddress
    <2> QED BY <2>1, <2>2, <2>3, NoPlaceGiven
<1>7. ASSUME NEW l \in Limits, ChangePlan(l) \/ EndTrial(l)
      PROVE  CheckStaysGood' /\ PlanNotOversold'
    BY <1>7, PlanStepGood
<1>8. ASSUME UNCHANGED vars
      PROVE  CheckStaysGood' /\ PlanNotOversold'
    <2>1. Taken' = Taken
        BY <1>8 DEF vars, Taken, InProgress
    <2>2. UNCHANGED <<limit, lock>>
        BY <1>8 DEF vars
    <2>3. \A w \in Workers : wk'[w] = wk[w]
        BY <1>8 DEF vars
    <2> QED BY <2>1, <2>2, <2>3, NoPlaceGiven
<1>9. CheckStaysGood' /\ PlanNotOversold'
    BY <1>2, <1>3, <1>4, <1>5, <1>6, <1>7, <1>8 DEF Next
<1> QED BY <1>1, <1>9 DEF IInv

LEMMA InvInit ==
    ASSUME Init
    PROVE  IInv
<1>1. TypeOK /\ OpKnown
    BY NewRowType, IdleType DEF Init, TypeOK, OpKnown
<1>2. CheckStaysGood
    BY IdleType, PlanAssumption DEF Init, CheckStaysGood
<1>3. InProgress \ over = {}
    BY DEF Init, InProgress, InProgressRow, NewRow
<1>4. limit \in Nat
    BY PlanAssumption DEF Init
<1>5. PlanNotOversold
    BY <1>3, <1>4, FS_EmptySet DEF PlanNotOversold
<1> QED BY <1>1, <1>2, <1>5 DEF IInv

(* No plan is oversold, whatever is created, reopened, confirmed, edited   *)
(* and paid for at once.                                                   *)
THEOREM NotOversold == Spec => []PlanNotOversold
<1>1. Init => IInv
    BY InvInit
<1>2. IInv /\ [Next]_vars => IInv'
    BY InvStep
<1>3. IInv => PlanNotOversold
    BY DEF IInv
<1> QED BY <1>1, <1>2, <1>3, PTL DEF Spec

(* What a worker counted under the lock is still true when it commits.     *)
THEOREM CheckedCountHolds == Spec => []CheckStaysGood
<1>1. Init => IInv
    BY InvInit
<1>2. IInv /\ [Next]_vars => IInv'
    BY InvStep
<1>3. IInv => CheckStaysGood
    BY DEF IInv
<1> QED BY <1>1, <1>2, <1>3, PTL DEF Spec

-----------------------------------------------------------------------------
(* Finite sets of numbers *)

\* A nonempty finite set of numbers has a greatest.
LEMMA Greatest ==
    ASSUME NEW F, F \subseteq Int, IsFiniteSet(F), F # {}
    PROVE  \E g \in F : \A x \in F : x <= g
<1> DEFINE Above(x) == {y \in F : x < y}
           Chain == {Above(x) : x \in F}
<1>1. IsWellFoundedOn(StrictSubsetOrdering(F), FiniteSubsetsOf(F))
  BY FS_StrictSubsetOrderingWellFounded
<1>2. Chain \subseteq FiniteSubsetsOf(F) /\ Chain # {}
  <2>1. ASSUME NEW x \in F PROVE Above(x) \in FiniteSubsetsOf(F)
    <3>1. Above(x) \in SUBSET F
      OBVIOUS
    <3> QED BY <3>1, FS_Subset DEF FiniteSubsetsOf
  <2> QED BY <2>1
<1>3. PICK low \in Chain : \A c \in Chain : <<c, low>> \notin StrictSubsetOrdering(F)
  <2> HIDE DEF Chain
  <2> QED BY <1>1, <1>2, WFMin
<1>4. PICK g \in F : low = Above(g)
  BY <1>3
<1>5. ASSUME NEW x \in F, ~(x <= g) PROVE FALSE
  <2>0. /\ g < x /\ ~(x < x)
        /\ \A y \in F : x < y => g < y
    <3>1. x \in Int /\ g \in Int /\ \A y \in F : y \in Int
      OBVIOUS
    <3> QED BY <1>5, <3>1
  <2>1. x \in Above(g) /\ x \notin Above(x) /\ Above(x) \subseteq Above(g)
    BY <2>0
  <2>2. <<Above(x), Above(g)>> \in StrictSubsetOrdering(F)
    BY <2>1 DEF StrictSubsetOrdering
  <2> QED BY <1>3, <1>4, <2>2
<1> QED BY <1>5

-----------------------------------------------------------------------------
(* Panel links *)

PanelHand == [pc : {"idle", "ask", "login", "mail", "rotate"},
              link : [kind : {"none", "panel", "email"}, token : Nat, day : Nat], token : Nat]

LinksTyped ==
    /\ visit \in [Workers -> PanelHand]
    /\ session \in [Workers -> {"nobody", "account", "other"}]
    /\ access \in Nat /\ made \in Nat /\ day \in Nat /\ crashes \in Nat
    /\ \A l \in links : l \in [kind : {"panel", "email"}, token : Nat, day : Nat]

\* Who is about to get in looked at a link that still works, and who is
\* about to mail holds the token in force - or was crossed.
VisitOk(b) ==
    b \notin crossed =>
        /\ visit[b].pc = "login" => P!UserFor(visit[b].link)
        /\ visit[b].pc = "mail" => visit[b].token = access

\* The token in force was mailed last, or somebody is about to mail it.
TokenMailed ==
    crashes = 0 /\ access # 0 =>
        \/ newest.token = access
        \/ newest.overtaken
        \/ \E b \in Workers : visit[b].pc = "mail" /\ visit[b].token = access

LinksInv == LinksTyped /\ (\A b \in Workers : VisitOk(b)) /\ TokenMailed

\* One request moves on, and the links that work stay as they are.
OneVisits(b, v) ==
    /\ visit' = [visit EXCEPT ![b] = v]
    /\ v \in PanelHand
    /\ UNCHANGED <<access, made, links, day>>

LEMMA VisitMoves ==
    ASSUME LinksInv, NEW b \in Workers, NEW v, OneVisits(b, v)
    PROVE  /\ visit'[b] = v
           /\ \A c \in Workers : c # b => visit'[c] = visit[c]
           /\ visit' \in [Workers -> PanelHand]
BY DEF LinksInv, LinksTyped, OneVisits

LEMMA VisitsOk ==
    ASSUME LinksInv, NEW b \in Workers, NEW v, OneVisits(b, v),
           crossed \subseteq crossed' \cup {b},
           b \notin crossed' => /\ v.pc = "login" => P!UserFor(v.link)
                                /\ v.pc = "mail" => v.token = access
    PROVE  \A c \in Workers : VisitOk(c)'
<1>1. /\ visit'[b] = v
      /\ \A c \in Workers : c # b => visit'[c] = visit[c]
  BY VisitMoves
<1>2. ASSUME NEW l PROVE P!UserFor(l)' = P!UserFor(l)
  BY DEF OneVisits, P!UserFor, P!TokenMatches, P!Expired
<1>3. ASSUME NEW c \in Workers PROVE VisitOk(c)'
  <2>1. CASE c = b
    <3>1. (b \notin crossed' /\ v.pc = "login" => P!UserFor(v.link)')
          /\ (b \notin crossed' /\ v.pc = "mail" => v.token = access')
      BY <1>2 DEF OneVisits
    <3>2. v.link = visit'[b].link
      BY <1>1
    <3>3. b \notin crossed' /\ v.pc = "login" => (P!UserFor(visit[b].link))'
      BY <3>1, <3>2, <1>1 DEF OneVisits, P!UserFor, P!TokenMatches, P!Expired
    <3> QED BY <1>1, <2>1, <3>1, <3>3 DEF VisitOk
  <2>2. CASE c # b
    <3>1. visit'[c] = visit[c] /\ (c \notin crossed' => c \notin crossed) /\ VisitOk(c)
      BY <1>1, <2>2 DEF LinksInv
    <3>2. P!UserFor(visit[c].link) => P!UserFor(visit[c].link)'
      BY <3>1 DEF OneVisits, P!UserFor, P!TokenMatches, P!Expired
    <3> QED BY <3>1, <3>2 DEF VisitOk, OneVisits
  <2> QED BY <2>1, <2>2
<1> QED BY <1>3

LEMMA TokenStays ==
    ASSUME LinksInv, NEW b \in Workers, NEW v, OneVisits(b, v),
           visit[b].pc # "mail", newest' = newest, crashes' = crashes
    PROVE  TokenMailed'
<1>1. /\ visit'[b] = v
      /\ \A c \in Workers : c # b => visit'[c] = visit[c]
      /\ access' = access
  BY VisitMoves DEF OneVisits
<1>2. ASSUME NEW c \in Workers, visit[c].pc = "mail", visit[c].token = access
      PROVE  visit'[c].pc = "mail" /\ visit'[c].token = access'
  BY <1>1, <1>2
<1> QED BY <1>1, <1>2 DEF LinksInv, TokenMailed

LEMMA LinkUsed ==
    ASSUME LinksInv, NEW b \in Workers,
           \/ \E l \in links : P!Open(b, l) \/ P!Resend(b, l)
           \/ \E yes \in BOOLEAN : P!Answer(b, yes)
           \/ P!AskAgain(b) \/ P!RotateBegin(b)
    PROVE  LinksInv'
<1>t. LinksTyped /\ visit[b] \in PanelHand /\ visit[b].link \in [kind : {"none", "panel", "email"}, token : Nat, day : Nat]
  BY DEF LinksInv, LinksTyped, PanelHand
<1>n. P!NoLink \in [kind : {"none", "panel", "email"}, token : Nat, day : Nat]
      /\ P!Idle \in PanelHand /\ P!Idle.pc = "idle"
  BY DEF P!NoLink, P!Idle, PanelHand
<1>1. PICK v : /\ OneVisits(b, v)
               /\ visit[b].pc # "mail"
               /\ v.pc = "login" => P!UserFor(v.link)
               /\ v.pc = "mail" => v.token = access
               /\ crossed' = crossed \ {b}
               /\ UNCHANGED <<session, newest, crashes>>
  <2>1. CASE \E l \in links : P!Open(b, l)
    <3>1. PICK l \in links : P!Open(b, l)
      BY <2>1
    <3> DEFINE v == [pc |-> IF session[b] = "other" THEN "ask" ELSE "login", link |-> l, token |-> 0]
    <3>2. v \in PanelHand /\ v.link = l
      BY <1>t, <3>1 DEF LinksTyped, PanelHand
    <3>3. OneVisits(b, v) /\ P!UserFor(v.link) /\ v.pc # "mail"
      BY <3>1, <3>2 DEF OneVisits, P!Open, P!Step
    <3> QED BY <3>1, <3>3 DEF P!Open
  <2>2. CASE \E l \in links : P!Resend(b, l)
    <3>1. PICK l \in links : P!Resend(b, l)
      BY <2>2
    <3> DEFINE v == [pc |-> "mail", link |-> P!NoLink, token |-> access]
    <3>2. v \in PanelHand /\ v.token = access /\ v.pc = "mail"
      BY <1>t, <1>n DEF LinksTyped, PanelHand
    <3>3. OneVisits(b, v)
      BY <3>1, <3>2 DEF OneVisits, P!Resend, P!Step
    <3> QED BY <3>1, <3>2, <3>3 DEF P!Resend
  <2>3. CASE \E yes \in BOOLEAN : P!Answer(b, yes)
    <3>1. PICK yes \in BOOLEAN : P!Answer(b, yes)
      BY <2>3
    <3>2. CASE yes /\ P!UserFor(visit[b].link)
      <4> DEFINE v == [pc |-> "login", link |-> visit[b].link, token |-> 0]
      <4>1. v \in PanelHand /\ v.pc = "login" /\ v.link = visit[b].link
        BY <1>t DEF LinksTyped, PanelHand
      <4>2. OneVisits(b, v)
        BY <3>1, <3>2, <4>1 DEF OneVisits, P!Answer, P!Step
      <4> QED BY <3>1, <3>2, <4>1, <4>2 DEF P!Answer
    <3>3. CASE ~(yes /\ P!UserFor(visit[b].link))
      <4>1. OneVisits(b, P!Idle)
        BY <1>n, <3>1, <3>3 DEF OneVisits, P!Answer, P!Done
      <4> QED BY <1>n, <3>1, <4>1 DEF P!Answer
    <3> QED BY <3>2, <3>3
  <2>4. CASE P!AskAgain(b)
    <3> DEFINE v == [pc |-> "mail", link |-> P!NoLink, token |-> access]
    <3>2. v \in PanelHand /\ v.token = access /\ v.pc = "mail"
      BY <1>t, <1>n DEF LinksTyped, PanelHand
    <3>3. OneVisits(b, v)
      BY <2>4, <3>2 DEF OneVisits, P!AskAgain, P!Step
    <3> QED BY <2>4, <3>2, <3>3 DEF P!AskAgain
  <2>5. CASE P!RotateBegin(b)
    <3> DEFINE v == [pc |-> "rotate", link |-> P!NoLink, token |-> 0]
    <3>2. v \in PanelHand /\ v.pc = "rotate"
      BY <1>t, <1>n DEF LinksTyped, PanelHand
    <3>3. OneVisits(b, v)
      BY <2>5, <3>2 DEF OneVisits, P!RotateBegin, P!Step
    <3> QED BY <2>5, <3>2, <3>3 DEF P!RotateBegin
  <2> QED BY <2>1, <2>2, <2>3, <2>4, <2>5
<1>2. \A c \in Workers : VisitOk(c)'
  BY <1>1, VisitsOk
<1>3. TokenMailed'
  BY <1>1, TokenStays
<1>4. LinksTyped'
  BY <1>t, <1>1, VisitMoves DEF LinksTyped, OneVisits
<1> QED BY <1>2, <1>3, <1>4 DEF LinksInv

LEMMA LinkLogin ==
    ASSUME LinksInv, NEW b \in Workers, P!Login(b) \/ P!Crash(b)
    PROVE  LinksInv'
<1>n. P!Idle \in PanelHand /\ P!Idle.pc = "idle"
  BY DEF P!NoLink, P!Idle, PanelHand
<1>1. OneVisits(b, P!Idle) /\ crossed' = crossed /\ newest' = newest
  BY <1>n DEF P!Login, P!Crash, P!Done, OneVisits
<1>2. \A c \in Workers : VisitOk(c)'
  BY <1>n, <1>1, VisitsOk
<1>3. TokenMailed'
  <2>1. CASE P!Login(b)
    BY <1>1, <2>1, TokenStays DEF P!Login
  <2>2. CASE P!Crash(b)
    <3>1. crashes' = crashes + 1 /\ crashes \in Nat
      BY <2>2 DEF P!Crash, LinksInv, LinksTyped
    <3>2. crashes' # 0
      BY <3>1
    <3> QED BY <3>2 DEF TokenMailed
  <2> QED BY <2>1, <2>2
<1>4. LinksTyped'
  <2>1. session' \in [Workers -> {"nobody", "account", "other"}]
    BY DEF P!Login, P!Crash, LinksInv, LinksTyped
  <2> QED BY <2>1, <1>1, VisitMoves DEF LinksInv, LinksTyped, OneVisits, P!Login, P!Crash
<1> QED BY <1>2, <1>3, <1>4 DEF LinksInv

LEMMA LinkRotated ==
    ASSUME LinksInv, NEW b \in Workers, P!Rotate(b)
    PROVE  LinksInv'
<1>t. LinksTyped /\ visit[b].pc = "rotate"
  BY DEF LinksInv, P!Rotate
<1>n. /\ P!NoLink \in [kind : {"none", "panel", "email"}, token : Nat, day : Nat]
      /\ P!Idle \in PanelHand /\ P!Idle.pc = "idle"
  BY DEF P!NoLink, P!Idle, PanelHand
<1>1. CASE access = 0 \/ made = MaxLinks
  <2>1. OneVisits(b, P!Idle) /\ crossed' = crossed /\ UNCHANGED <<newest, crashes, session>>
    BY <1>n, <1>1 DEF P!Rotate, P!Done, OneVisits
  <2>2. \A c \in Workers : VisitOk(c)'
    BY <1>n, <2>1, VisitsOk
  <2>3. TokenMailed'
    BY <1>t, <2>1, TokenStays
  <2>4. LinksTyped'
    BY <1>t, <2>1, VisitMoves DEF LinksTyped, OneVisits
  <2> QED BY <2>2, <2>3, <2>4 DEF LinksInv
<1>2. CASE ~(access = 0 \/ made = MaxLinks)
  <2> DEFINE v == [pc |-> "mail", link |-> P!NoLink, token |-> made + 1]
  <2>1. v \in PanelHand /\ v.pc = "mail" /\ v.token = made + 1
    BY <1>t, <1>n DEF LinksTyped, PanelHand
  <2>2. /\ visit' = [visit EXCEPT ![b] = v]
        /\ access' = made + 1 /\ made' = made + 1
        /\ crossed' = P!UnderWay \ {b}
        /\ UNCHANGED <<links, session, day, crashes, newest>>
    BY <1>2 DEF P!Rotate, P!Step
  <2> HIDE DEF v
  <2>3. /\ visit'[b] = v
        /\ \A c \in Workers : c # b => visit'[c] = visit[c]
        /\ visit' \in [Workers -> PanelHand]
    BY <1>t, <2>1, <2>2 DEF LinksTyped
  <2>4. ASSUME NEW c \in Workers PROVE VisitOk(c)'
    <3>1. CASE c = b
      BY <2>1, <2>2, <2>3, <3>1 DEF VisitOk
    <3>2. CASE c # b
      <4>1. c \notin crossed' => visit'[c].pc = "idle"
        BY <2>2, <2>3, <3>2 DEF P!UnderWay
      <4> QED BY <4>1 DEF VisitOk
    <3> QED BY <3>1, <3>2
  <2>5. TokenMailed'
    BY <2>1, <2>2, <2>3 DEF TokenMailed
  <2>6. LinksTyped'
    BY <1>t, <2>2, <2>3 DEF LinksTyped
  <2> QED BY <2>4, <2>5, <2>6 DEF LinksInv
<1> QED BY <1>1, <1>2

LEMMA LinkMailed ==
    ASSUME LinksInv, NEW b \in Workers, P!MailLink(b)
    PROVE  LinksInv'
<1>t. LinksTyped /\ visit[b].pc = "mail" /\ visit[b] \in PanelHand /\ VisitOk(b)
  BY DEF LinksInv, LinksTyped, P!MailLink
<1>n. P!Idle \in PanelHand /\ P!Idle.pc = "idle"
  BY DEF P!NoLink, P!Idle, PanelHand
<1>1. /\ visit' = [visit EXCEPT ![b] = P!Idle]
      /\ newest' = [token |-> visit[b].token, overtaken |-> b \in crossed]
      /\ links' = links \cup {P!Link("panel", visit[b].token)}
      /\ UNCHANGED <<access, made, session, day, crashes, crossed>>
  BY DEF P!MailLink, P!Done
<1>2. /\ visit'[b] = P!Idle
      /\ \A c \in Workers : c # b => visit'[c] = visit[c]
      /\ visit' \in [Workers -> PanelHand]
  BY <1>t, <1>n, <1>1 DEF LinksTyped
<1>3. ASSUME NEW c \in Workers PROVE VisitOk(c)'
  <2>1. CASE c = b
    BY <1>n, <1>2, <2>1 DEF VisitOk
  <2>2. CASE c # b
    <3>1. visit'[c] = visit[c] /\ VisitOk(c)
      BY <1>2, <2>2 DEF LinksInv
    <3>2. P!UserFor(visit[c].link) => P!UserFor(visit[c].link)'
      BY <1>1, <3>1 DEF P!UserFor, P!TokenMatches, P!Expired
    <3> QED BY <1>1, <3>1, <3>2 DEF VisitOk
  <2> QED BY <2>1, <2>2
<1>4. TokenMailed'
  <2>1. newest'.overtaken \/ newest'.token = access'
    BY <1>t, <1>1 DEF VisitOk
  <2> QED BY <2>1 DEF TokenMailed
<1>5. LinksTyped'
  <2>1. P!Link("panel", visit[b].token) \in [kind : {"panel", "email"}, token : Nat, day : Nat]
    BY <1>t DEF LinksTyped, P!Link, PanelHand
  <2> QED BY <1>t, <1>1, <1>2, <2>1 DEF LinksTyped
<1> QED BY <1>3, <1>4, <1>5 DEF LinksInv

\* A password, a day later, a mailed link, a session's end.
LEMMA LinksAround ==
    ASSUME LinksInv,
           \/ P!Everyday \/ P!SetPassword \/ P!NextDay
           \/ \E b \in Workers : P!SignOut(b)
    PROVE  LinksInv'
<1>t. LinksTyped
  BY DEF LinksInv
<1>1. visit' = visit /\ UNCHANGED <<made, crashes, newest>>
  BY DEF P!Everyday, P!SetPassword, P!NextDay, P!SignOut
<1>2. LinksTyped'
  <2>1. session' \in [Workers -> {"nobody", "account", "other"}]
    BY <1>t DEF LinksTyped, P!Everyday, P!SetPassword, P!NextDay, P!SignOut
  <2>2. access' \in Nat /\ day' \in Nat
    BY <1>t DEF LinksTyped, P!Everyday, P!SetPassword, P!NextDay, P!SignOut
  <2>3. P!Link("email", access) \in [kind : {"panel", "email"}, token : Nat, day : Nat]
    BY <1>t DEF LinksTyped, P!Link
  <2>4. \A l \in links' : l \in [kind : {"panel", "email"}, token : Nat, day : Nat]
    BY <1>t, <2>3 DEF LinksTyped, P!Everyday, P!SetPassword, P!NextDay, P!SignOut
  <2> QED BY <1>t, <1>1, <2>1, <2>2, <2>4 DEF LinksTyped
<1>3. ASSUME NEW c \in Workers PROVE VisitOk(c)'
  <2>1. CASE P!SetPassword
    <3>1. c \notin crossed' => visit[c].pc = "idle"
      BY <2>1 DEF P!SetPassword, P!UnderWay
    <3> QED BY <1>1, <3>1 DEF VisitOk
  <2>2. CASE P!NextDay
    <3>1. c \notin crossed' => visit[c].pc # "login" /\ c \notin crossed
      BY <2>2 DEF P!NextDay
    <3> QED BY <1>1, <2>2, <3>1 DEF VisitOk, LinksInv, P!NextDay
  <2>3. CASE P!Everyday \/ \E b \in Workers : P!SignOut(b)
    <3>1. UNCHANGED <<access, day, crossed>>
      BY <2>3 DEF P!Everyday, P!SignOut
    <3>2. P!UserFor(visit[c].link) => P!UserFor(visit[c].link)'
      BY <1>1, <3>1 DEF P!UserFor, P!TokenMatches, P!Expired
    <3> QED BY <1>1, <3>1, <3>2 DEF VisitOk, LinksInv
  <2> QED BY <2>1, <2>2, <2>3
<1>4. TokenMailed'
  <2>1. access' = 0 \/ access' = access
    BY DEF P!Everyday, P!SetPassword, P!NextDay, P!SignOut
  <2> QED BY <1>1, <2>1 DEF TokenMailed, LinksInv
<1> QED BY <1>2, <1>3, <1>4 DEF LinksInv

LEMMA LinksStep == LinksInv /\ P!Next => LinksInv'
<1> SUFFICES ASSUME LinksInv, P!Next PROVE LinksInv'
  OBVIOUS
<1>1. CASE P!Everyday \/ P!SetPassword \/ P!NextDay
  BY <1>1, LinksAround
<1>2. ASSUME NEW b \in Workers, NEW l \in links, P!Open(b, l) \/ P!Resend(b, l) PROVE LinksInv'
  BY <1>2, LinkUsed
<1>3. ASSUME NEW b \in Workers,
             (\E yes \in BOOLEAN : P!Answer(b, yes)) \/ P!AskAgain(b) \/ P!RotateBegin(b)
      PROVE  LinksInv'
  BY <1>3, LinkUsed
<1>4. ASSUME NEW b \in Workers, P!Login(b) \/ P!Crash(b) PROVE LinksInv'
  BY <1>4, LinkLogin
<1>5. ASSUME NEW b \in Workers, P!SignOut(b) PROVE LinksInv'
  BY <1>5, LinksAround
<1>6. ASSUME NEW b \in Workers, P!Rotate(b) PROVE LinksInv'
  BY <1>6, LinkRotated
<1>7. ASSUME NEW b \in Workers, P!MailLink(b) PROVE LinksInv'
  BY <1>7, LinkMailed
<1> QED BY <1>1, <1>2, <1>3, <1>4, <1>5, <1>6, <1>7 DEF P!Next

(* The permanent link mailed last opens the panel, and links replaced or    *)
(* expired open it for nobody but who had opened them before, for any       *)
(* browsers, days and number of links.                                      *)
THEOREM PanelLinksOpen == PartSpec => PanelLinksHold
<1> DEFINE Step ==
      \A b \in Workers : session'[b] = "account" /\ session[b] # "account" =>
          b \in crossed \/ (visit[b].link.token = access /\ ~P!Expired(visit[b].link))
<1>1. PartInit => LinksInv
  <2> SUFFICES ASSUME PartInit PROVE LinksInv
    OBVIOUS
  <2>1. P!Init
    BY DEF PartInit
  <2>2. LinksTyped
    BY <2>1 DEF P!Init, LinksTyped, PanelHand, P!Idle, P!NoLink, P!Link
  <2>3. \A b \in Workers : visit[b].pc = "idle"
    BY <2>1 DEF P!Init, P!Idle
  <2> QED BY <2>1, <2>2, <2>3 DEF P!Init, LinksInv, VisitOk, TokenMailed
<1>2. LinksInv /\ [PartNext]_<<part, vars, clientVars, legalVars, linkVars>> => LinksInv'
  <2> SUFFICES ASSUME LinksInv, [PartNext]_<<part, vars, clientVars, legalVars, linkVars>>
               PROVE  LinksInv'
    OBVIOUS
  <2>1. CASE P!Next
    BY <2>1, LinksStep
  <2>2. CASE UNCHANGED linkVars
    BY <2>2 DEF linkVars, LinksInv, LinksTyped, VisitOk, TokenMailed, P!UserFor, P!TokenMatches, P!Expired
  <2> QED BY <2>1, <2>2 DEF PartNext
<1>3. LinksInv => P!NewestLinkWorks
  <2> SUFFICES ASSUME LinksInv, P!Quiet, crashes = 0, access # 0
               PROVE  newest.token = access \/ newest.overtaken
    BY DEF P!NewestLinkWorks
  <2>1. \A b \in Workers : visit[b].pc # "mail"
    BY DEF P!Quiet, P!Idle
  <2> QED BY <2>1 DEF LinksInv, TokenMailed
<1>4. LinksInv /\ [PartNext]_<<part, vars, clientVars, legalVars, linkVars>> => [Step]_P!vars
  <2> SUFFICES ASSUME LinksInv, [PartNext]_<<part, vars, clientVars, legalVars, linkVars>>,
                      NEW b \in Workers, session'[b] = "account", session[b] # "account"
               PROVE  b \in crossed \/ (visit[b].link.token = access /\ ~P!Expired(visit[b].link))
    OBVIOUS
  <2>1. P!Login(b)
    <3>1. P!Next
      BY DEF PartNext, linkVars
    <3>2. ~(\/ P!Everyday \/ P!SetPassword \/ P!NextDay)
      BY DEF LinksInv, LinksTyped, P!Everyday, P!SetPassword, P!NextDay
    <3>3. ASSUME NEW c \in Workers,
                 \/ \E l \in links : P!Open(c, l) \/ P!Resend(c, l)
                 \/ \E yes \in BOOLEAN : P!Answer(c, yes)
                 \/ P!AskAgain(c) \/ P!RotateBegin(c) \/ P!Rotate(c) \/ P!MailLink(c)
                 \/ P!Crash(c)
          PROVE  FALSE
      BY <3>3 DEF P!Open, P!Resend, P!Answer, P!AskAgain, P!RotateBegin, P!Rotate, P!MailLink, P!Crash
    <3>4. ASSUME NEW c \in Workers, P!SignOut(c) PROVE FALSE
      BY <3>4 DEF P!SignOut, LinksInv, LinksTyped
    <3>5. ASSUME NEW c \in Workers, P!Login(c) PROVE c = b
      BY <3>5 DEF P!Login, LinksInv, LinksTyped
    <3> QED BY <3>1, <3>2, <3>3, <3>4, <3>5 DEF P!Next
  <2> QED BY <2>1 DEF P!Login, LinksInv, VisitOk, P!UserFor, P!TokenMatches
<1> QED BY <1>1, <1>2, <1>3, <1>4, PTL DEF PartSpec, PanelLinksHold, P!PanelLinksHold, P!OldLinksStop, P!vars

-----------------------------------------------------------------------------
(* Terms *)

TermsTyped ==
    /\ today \in Nat
    /\ site \in [Documents -> V!Wordings]
    /\ \A d \in Documents : site[d].document = d
    /\ archive \in SUBSET V!Wordings
    /\ orders \in [Customers -> SUBSET (Documents \X V!Days)]

\* Only the wording on the site may be archived before its day, and one that
\* is not in force there has an earlier one archived.
Orderly(d) ==
    d \notin odd =>
        /\ \A x \in archive : x.document = d => x.version <= today \/ x = site[d]
        /\ ~V!InForceOnSite(d) => V!Earlier(d) # {}

TermsInv ==
    /\ TermsTyped
    /\ \A d \in Documents : Orderly(d)
    /\ V!AcceptedBeforeBought

LEMMA WordingTyped ==
    ASSUME V!LegalAssumption
    PROVE  /\ MaxDay \in Nat \ {0} /\ MaxTexts \in Nat \ {0}
           /\ IsFiniteSet(1..MaxDay) /\ IsFiniteSet(1..MaxTexts)
           /\ \A x \in V!Wordings : /\ x.version \in 1..MaxDay /\ x.text \in 1..MaxTexts
                                    /\ x.version \in Nat /\ x.text \in Nat
                                    /\ x.document \in Documents
<1>1. MaxDay \in Nat \ {0} /\ MaxTexts \in Nat \ {0}
  BY DEF V!LegalAssumption
<1>2. IsFiniteSet(1..MaxDay) /\ IsFiniteSet(1..MaxTexts)
  BY <1>1, FS_Interval
<1>3. ASSUME NEW x \in V!Wordings
      PROVE  x.version \in 1..MaxDay /\ x.text \in 1..MaxTexts /\ x.document \in Documents
  BY DEF V!Wordings, V!Days
<1> QED BY <1>1, <1>2, <1>3

\* Of any wordings there is a newest.
LEMMA NewestAmong ==
    ASSUME V!LegalAssumption, NEW W, W \subseteq V!Wordings, W # {}
    PROVE  V!Newest(W) \in W
<1> DEFINE versions == {x.version : x \in W}
<1>1. PICK v \in versions : \A u \in versions : u <= v
  <2>1. versions \subseteq 1..MaxDay /\ versions # {}
    BY WordingTyped
  <2>2. versions \subseteq Int /\ IsFiniteSet(versions)
    BY <2>1, WordingTyped, FS_Subset
  <2> HIDE DEF versions
  <2> QED BY <2>1, <2>2, Greatest
<1> DEFINE last == {x \in W : x.version = v}
           texts == {x.text : x \in last}
<1>2. PICK t \in texts : \A u \in texts : u <= t
  <2>1. texts \subseteq 1..MaxTexts /\ texts # {}
    BY <1>1, WordingTyped
  <2>2. texts \subseteq Int /\ IsFiniteSet(texts)
    BY <2>1, WordingTyped, FS_Subset
  <2> HIDE DEF texts
  <2> QED BY <2>1, <2>2, Greatest
<1>3. PICK x \in W : x.version = v /\ x.text = t
  BY <1>2
<1>4. ASSUME NEW y \in W
      PROVE  y.version < x.version \/ (y.version = x.version /\ y.text <= x.text)
  <2>1. y.version \in Nat /\ v \in Nat /\ y.version <= v
    BY <1>1, WordingTyped
  <2>2. y.version = v => y.text <= t
    BY <1>2
  <2> QED BY <1>3, <2>1, <2>2
<1> QED BY <1>3, <1>4 DEF V!Newest

\* What applies to a document is a wording of it, in force unless the
\* document is odd.
LEMMA AppliesInForce ==
    ASSUME V!LegalAssumption, TermsInv, NEW d \in Documents
    PROVE  /\ V!Applies(d) \in V!Wordings /\ V!Applies(d).document = d
           /\ d \notin odd => /\ V!Applies(d).version <= today
                              /\ V!Applies(d) \in V!InForce(d)
<1>t. TermsTyped /\ Orderly(d)
  BY DEF TermsInv
<1>1. CASE V!InForceOnSite(d)
  <2>1. V!InForce(d) = {site[d]}
    BY <1>1 DEF V!InForce
  <2>2. V!Applies(d) = site[d]
    BY <2>1 DEF V!Applies
  <2> QED BY <1>t, <1>1, <2>1, <2>2 DEF TermsTyped, V!InForceOnSite
<1>2. CASE ~V!InForceOnSite(d) /\ V!Earlier(d) = {}
  <2>1. V!InForce(d) = {} /\ d \in odd
    BY <1>t, <1>2 DEF V!InForce, Orderly
  <2>2. V!Applies(d) = site[d]
    BY <2>1 DEF V!Applies
  <2> QED BY <1>t, <2>1, <2>2 DEF TermsTyped
<1>3. CASE ~V!InForceOnSite(d) /\ V!Earlier(d) # {}
  <2>1. V!Earlier(d) \subseteq V!Wordings
    BY <1>t DEF V!Earlier, TermsTyped
  <2>2. V!Newest(V!Earlier(d)) \in V!Earlier(d)
    BY <1>3, <2>1, NewestAmong
  <2>3. V!InForce(d) = {V!Newest(V!Earlier(d))}
    BY <1>3 DEF V!InForce
  <2>4. V!Applies(d) = V!Newest(V!Earlier(d))
    BY <2>3 DEF V!Applies
  <2>5. PICK x \in V!Earlier(d) : V!Applies(d) = x
    BY <2>2, <2>4
  <2>6. x \in archive /\ x.document = d /\ x.version < site[d].version
    BY DEF V!Earlier
  <2>7. x.version \in Nat /\ site[d].version \in Nat
    BY <1>t, <2>6, WordingTyped DEF TermsTyped
  <2>8. x # site[d]
    BY <2>6, <2>7
  <2>9. d \notin odd => x.version <= today
    BY <1>t, <2>6, <2>8 DEF Orderly
  <2> QED BY <2>1, <2>3, <2>4, <2>5, <2>6, <2>9
<1> QED BY <1>1, <1>2, <1>3

\* Wordings that apply, or are on the site, may be archived.
LEMMA MoreArchived ==
    ASSUME V!LegalAssumption, TermsInv, UNCHANGED <<today, site, odd>>,
           \A x \in archive' \ archive : \E d \in Documents : x \in {V!Applies(d), site[d]},
           archive \subseteq archive'
    PROVE  /\ archive' \in SUBSET V!Wordings
           /\ \A d \in Documents : Orderly(d)'
<1>t. TermsTyped /\ \A d \in Documents : Orderly(d)
  BY DEF TermsInv
<1>1. ASSUME NEW x \in archive' \ archive, NEW d \in Documents, d \notin odd, x.document = d
      PROVE  x.version <= today \/ x = site[d]
  <2>1. PICK e \in Documents : x \in {V!Applies(e), site[e]}
    OBVIOUS
  <2>2. CASE x = V!Applies(e)
    <3>1. e = d
      BY <1>1, <2>2, AppliesInForce
    <3> QED BY <1>1, <2>2, <3>1, AppliesInForce
  <2>3. CASE x = site[e]
    BY <1>t, <1>1, <2>3 DEF TermsTyped
  <2> QED BY <2>1, <2>2, <2>3
<1>2. ASSUME NEW x \in archive' \ archive PROVE x \in V!Wordings
  <2>1. PICK e \in Documents : x \in {V!Applies(e), site[e]}
    OBVIOUS
  <2> QED BY <1>t, <2>1, AppliesInForce DEF TermsTyped
<1>3. ASSUME NEW d \in Documents PROVE Orderly(d)'
  <2>1. V!InForceOnSite(d)' = V!InForceOnSite(d)
    BY DEF V!InForceOnSite
  <2>2. V!Earlier(d) # {} => V!Earlier(d)' # {}
    BY DEF V!Earlier
  <2> QED BY <1>t, <1>1, <2>1, <2>2 DEF Orderly
<1> QED BY <1>t, <1>2, <1>3 DEF TermsTyped

\* What is held against a person keeps to what is in force.
LEMMA NotedEarly ==
    ASSUME V!LegalAssumption, TermsInv, NEW u \in Customers, V!NoteEarly(u)
    PROVE  \A w \in Customers, d \in Documents : <<w, d>> \in early' => <<w, d>> \in early \/ d \in odd
<1> SUFFICES ASSUME NEW w \in Customers, NEW d \in Documents, <<w, d>> \in early', <<w, d>> \notin early
             PROVE  d \in odd
  OBVIOUS
<1>1. V!Applies(d).version > today
  BY DEF V!NoteEarly
<1>2. V!Applies(d).version \in Nat /\ today \in Nat
  BY AppliesInForce, WordingTyped DEF TermsInv, TermsTyped
<1>3. ~(V!Applies(d).version <= today)
  BY <1>1, <1>2
<1> QED BY <1>3, AppliesInForce

LEMMA TermsDeployed ==
    ASSUME V!LegalAssumption, TermsInv, NEW d \in Documents, NEW v \in V!Days, V!Deploy(d, v)
    PROVE  TermsInv'
<1>t. TermsTyped /\ \A e \in Documents : Orderly(e)
  BY DEF TermsInv
<1>1. V!LastText \in 1..MaxTexts
  <2> DEFINE texts == {site[e].text : e \in Documents}
  <2>1. texts \subseteq 1..MaxTexts /\ texts # {}
    BY <1>t, WordingTyped DEF TermsTyped
  <2>2. texts \subseteq Int /\ IsFiniteSet(texts)
    BY <2>1, WordingTyped, FS_Subset
  <2>3. PICK t \in texts : \A n \in texts : n <= t
    <3> HIDE DEF texts
    <3> QED BY <2>1, <2>2, Greatest
  <2>4. /\ t \in 1..MaxTexts
        /\ \E e \in Documents : site[e].text = t
        /\ \A e \in Documents : site[e].text <= t
    BY <2>1, <2>3
  <2> QED BY <2>4 DEF V!LastText
<1> DEFINE r == [document |-> d, version |-> v, text |-> 1 + V!LastText]
<1>2. r \in V!Wordings /\ r.version = v /\ r.document = d
  <2>1. 1 + V!LastText \in 1..MaxTexts
    BY <1>1, WordingTyped DEF V!Deploy
  <2> QED BY <2>1 DEF V!Wordings
<1>3. /\ site' = [site EXCEPT ![d] = r]
      /\ v >= site[d].version
      /\ odd' = IF ~V!InForceOnSite(d) \/ site[d] \notin archive THEN odd \cup {d} ELSE odd
      /\ UNCHANGED <<today, archive, accepted, orders, early>>
  BY DEF V!Deploy
<1> HIDE DEF r
<1>4. /\ site'[d] = r
      /\ \A e \in Documents : e # d => site'[e] = site[e]
      /\ site' \in [Documents -> V!Wordings]
  BY <1>t, <1>2, <1>3 DEF TermsTyped
<1>5. ASSUME NEW e \in Documents PROVE Orderly(e)'
  <2>1. CASE e # d
    <3>1. /\ site'[e] = site[e]
          /\ e \notin odd' => e \notin odd
      BY <1>3, <1>4, <2>1
    <3> QED BY <1>t, <1>3, <3>1 DEF Orderly, V!InForceOnSite, V!Earlier
  <2>2. CASE e = d
    <3> SUFFICES ASSUME d \notin odd'
                 PROVE  /\ \A x \in archive : x.document = d => x.version <= today
                        /\ ~(v <= today) => \E x \in archive : x.document = d /\ x.version < v
      BY <1>2, <1>3, <1>4, <2>2 DEF Orderly, V!InForceOnSite, V!Earlier
    <3>1. d \notin odd /\ V!InForceOnSite(d) /\ site[d] \in archive
      BY <1>3
    <3>2. site[d].version <= today /\ site[d].document = d
      BY <1>t, <3>1 DEF V!InForceOnSite, TermsTyped
    <3>3. \A x \in archive : x.document = d => x.version <= today
      BY <1>t, <3>1, <3>2 DEF Orderly
    <3>4. site[d].version \in Nat /\ today \in Nat /\ v \in Nat
      BY <1>t, WordingTyped DEF TermsTyped, V!Days
    <3>5. ~(v <= today) => site[d].version < v
      BY <3>2, <3>4
    <3> QED BY <3>1, <3>2, <3>3, <3>5
  <2> QED BY <2>1, <2>2
<1>6. TermsTyped'
  BY <1>t, <1>2, <1>3, <1>4 DEF TermsTyped
<1>7. V!AcceptedBeforeBought'
  <2>1. odd \subseteq odd'
    BY <1>3
  <2> QED BY <1>3, <2>1 DEF TermsInv, V!AcceptedBeforeBought
<1> QED BY <1>5, <1>6, <1>7 DEF TermsInv

LEMMA TermsRecorded ==
    ASSUME V!LegalAssumption, TermsInv, NEW u \in Customers, V!RecordAcceptance(u),
           UNCHANGED <<today, site, orders, odd>>
    PROVE  TermsInv'
<1>t. TermsTyped /\ V!AcceptedBeforeBought
  BY DEF TermsInv
<1>1. archive' \in SUBSET V!Wordings /\ \A d \in Documents : Orderly(d)'
  <2>1. archive' = archive \cup {V!Applies(d) : d \in Documents}
    BY DEF V!RecordAcceptance, V!Archived
  <2> QED BY <2>1, MoreArchived
<1>2. V!AcceptedBeforeBought'
  <2>1. \A w \in Customers, d \in Documents : <<w, d>> \in early' => <<w, d>> \in early \/ d \in odd
    BY NotedEarly DEF V!RecordAcceptance
  <2>2. accepted \subseteq accepted'
    BY DEF V!RecordAcceptance
  <2> QED BY <1>t, <2>1, <2>2 DEF V!AcceptedBeforeBought
<1> QED BY <1>t, <1>1, <1>2 DEF TermsInv, TermsTyped

LEMMA TermsBought ==
    ASSUME V!LegalAssumption, TermsInv, NEW u \in Customers, V!Checkout(u)
    PROVE  TermsInv'
<1>t. TermsTyped /\ V!AcceptedBeforeBought
  BY DEF TermsInv
<1>1. archive' \in SUBSET V!Wordings /\ \A d \in Documents : Orderly(d)'
  <2>1. archive' = archive \cup {site[d] : d \in Documents} /\ UNCHANGED <<today, site, odd>>
    BY DEF V!Checkout
  <2> QED BY <2>1, MoreArchived
<1> DEFINE bought == {<<d, V!Applies(d).version>> : d \in Documents}
<1>2. orders' = [orders EXCEPT ![u] = @ \cup bought] /\ UNCHANGED <<today, site, odd, accepted>>
  BY DEF V!Checkout
<1>3. bought \in SUBSET (Documents \X V!Days)
  BY AppliesInForce DEF V!Wordings
<1>4. ASSUME NEW o \in bought, o[1] \notin odd PROVE <<u, o[1], o[2]>> \in accepted
  <2>1. PICK d \in Documents : o = <<d, V!Applies(d).version>>
    OBVIOUS
  <2>2. V!Applies(d) \in V!InForce(d)
    BY <1>4, <2>1, AppliesInForce
  <2>3. d \notin V!ToAccept(u)
    BY DEF V!Checkout, V!NeedsAcceptance
  <2> QED BY <2>1, <2>2, <2>3 DEF V!ToAccept
<1> HIDE DEF bought
<1>5. /\ orders'[u] = orders[u] \cup bought
      /\ \A w \in Customers : w # u => orders'[w] = orders[w]
      /\ orders' \in [Customers -> SUBSET (Documents \X V!Days)]
  BY <1>t, <1>2, <1>3 DEF TermsTyped
<1>6. V!AcceptedBeforeBought'
  <2>1. \A w \in Customers, d \in Documents : <<w, d>> \in early' => <<w, d>> \in early \/ d \in odd
    BY NotedEarly DEF V!Checkout
  <2>2. ASSUME NEW w \in Customers, NEW o \in orders'[w], o[1] \notin odd
        PROVE  <<w, o[1], o[2]>> \in accepted
    BY <1>t, <1>4, <1>5, <2>2 DEF V!AcceptedBeforeBought
  <2> QED BY <1>t, <1>2, <2>1, <2>2 DEF V!AcceptedBeforeBought
<1> QED BY <1>t, <1>1, <1>2, <1>5, <1>6 DEF TermsInv, TermsTyped

LEMMA TermsAround ==
    ASSUME V!LegalAssumption, TermsInv, V!ArchiveAll \/ V!Tick
    PROVE  TermsInv'
<1>t. TermsTyped /\ V!AcceptedBeforeBought /\ \A d \in Documents : Orderly(d)
  BY DEF TermsInv
<1>1. CASE V!ArchiveAll
  <2>1. archive' = archive \cup {site[d] : d \in Documents}
        /\ UNCHANGED <<today, site, accepted, orders, early, odd>>
    BY <1>1 DEF V!ArchiveAll, V!people
  <2>2. archive' \in SUBSET V!Wordings /\ \A d \in Documents : Orderly(d)'
    BY <2>1, MoreArchived
  <2> QED BY <1>t, <2>1, <2>2 DEF TermsInv, TermsTyped, V!AcceptedBeforeBought
<1>2. CASE V!Tick
  <2>1. today' = today + 1 /\ UNCHANGED <<site, archive, accepted, orders, early, odd>>
    BY <1>2 DEF V!Tick, V!people
  <2>2. ASSUME NEW n \in Nat, n <= today PROVE n <= today'
    BY <1>t, <2>1, <2>2 DEF TermsTyped
  <2>3. ASSUME NEW d \in Documents PROVE Orderly(d)'
    <3>1. site[d].version \in Nat /\ \A x \in archive : x.version \in Nat
      BY <1>t, WordingTyped DEF TermsTyped
    <3> QED BY <1>t, <2>1, <2>2, <3>1 DEF Orderly, V!InForceOnSite, V!Earlier
  <2> QED BY <1>t, <2>1, <2>3 DEF TermsInv, TermsTyped, V!AcceptedBeforeBought
<1> QED BY <1>1, <1>2

LEMMA TermsKept ==
    ASSUME TermsInv, UNCHANGED <<today, site, archive, accepted, orders, early, odd>>
    PROVE  TermsInv'
BY DEF TermsInv, TermsTyped, Orderly, V!InForceOnSite, V!Earlier, V!AcceptedBeforeBought

LEMMA TermsStep == V!LegalAssumption /\ TermsInv /\ V!Next => TermsInv'
<1> SUFFICES ASSUME V!LegalAssumption, TermsInv, V!Next PROVE TermsInv'
  OBVIOUS
<1>1. ASSUME NEW d \in Documents, NEW v \in V!Days, V!Deploy(d, v) PROVE TermsInv'
  BY <1>1, TermsDeployed
<1>2. CASE V!ArchiveAll \/ V!Tick
  BY <1>2, TermsAround
<1>3. ASSUME NEW u \in Customers, V!Join(u) PROVE TermsInv'
  BY <1>3, TermsRecorded DEF V!Join
<1>4. ASSUME NEW u \in Customers, V!Accept(u) PROVE TermsInv'
  <2>1. CASE V!NeedsAcceptance(u)
    BY <1>4, <2>1, TermsRecorded DEF V!Accept
  <2>2. CASE ~V!NeedsAcceptance(u)
    BY <1>4, <2>2, TermsKept DEF V!Accept
  <2> QED BY <2>1, <2>2
<1>5. ASSUME NEW u \in Customers, V!Checkout(u) PROVE TermsInv'
  BY <1>5, TermsBought
<1>6. ASSUME NEW u \in Customers, V!AcceptPage(u) PROVE TermsInv'
  BY <1>6, TermsKept DEF V!AcceptPage
<1>7. CASE V!Publish
  BY <1>7, TermsKept DEF V!Publish, V!people
<1>8. ASSUME NEW w \in Senders,
             V!Send(w, Customers) \/ V!SendKilled(w) \/ \E u \in Customers : V!Send(w, {u}) \/ V!SendNext(w, u)
      PROVE  TermsInv'
  BY <1>8, TermsKept DEF V!Send, V!SendKilled, V!SendNext, V!people
<1> QED BY <1>1, <1>2, <1>3, <1>4, <1>5, <1>6, <1>7, <1>8 DEF V!Next

(* Nobody accepts a version or buys on it before its day, and whoever buys  *)
(* has accepted what is bought on, but for the documents that are odd - for *)
(* any documents, people, days and deployments.                             *)
THEOREM BoughtOnAccepted == ASSUME V!LegalAssumption PROVE PartSpec => []AcceptedBeforeBought
<1>1. PartInit => TermsInv
  <2> SUFFICES ASSUME PartInit PROVE TermsInv
    OBVIOUS
  <2>1. V!Init /\ today = 1
    BY DEF PartInit, V!Init
  <2> DEFINE first(d) == [document |-> d, version |-> 1, text |-> 1]
  <2>2. \A d \in Documents : first(d) \in V!Wordings /\ first(d).version = 1 /\ first(d).document = d
    BY WordingTyped DEF V!Wordings, V!Days
  <2>3. site = [d \in Documents |-> first(d)]
    BY <2>1 DEF V!Init
  <2> HIDE DEF first
  <2>4. \A d \in Documents : site[d] \in V!Wordings /\ site[d].version = 1 /\ site[d].document = d
    BY <2>2, <2>3
  <2>5. \A x \in archive : x \in V!Wordings /\ x.version = 1
    BY <2>1, <2>4 DEF V!Init
  <2>6. TermsTyped
    BY <2>1, <2>3, <2>4, <2>5 DEF TermsTyped, V!Init
  <2>7. \A d \in Documents : Orderly(d)
    BY <2>1, <2>4, <2>5 DEF Orderly, V!InForceOnSite
  <2>8. V!AcceptedBeforeBought
    BY <2>1 DEF V!Init, V!AcceptedBeforeBought
  <2> QED BY <2>6, <2>7, <2>8 DEF TermsInv
<1>2. TermsInv /\ [PartNext]_<<part, vars, clientVars, legalVars, linkVars>> => TermsInv'
  <2> SUFFICES ASSUME TermsInv, [PartNext]_<<part, vars, clientVars, legalVars, linkVars>>
               PROVE  TermsInv'
    OBVIOUS
  <2>1. CASE V!Next
    BY <2>1, TermsStep
  <2>2. CASE UNCHANGED legalVars
    BY <2>2, TermsKept DEF legalVars
  <2> QED BY <2>1, <2>2 DEF PartNext
<1>3. TermsInv => AcceptedBeforeBought
  BY DEF TermsInv, AcceptedBeforeBought
<1> QED BY <1>1, <1>2, <1>3, PTL DEF PartSpec

-----------------------------------------------------------------------------
(* Clients *)

\* The notions of finite sets are those of Clients.
LEMMA ClientSets == \A Z : C!Cardinality(Z) = Cardinality(Z) /\ C!IsFiniteSet(Z) = IsFiniteSet(Z)
BY DEF C!Cardinality, Cardinality, C!IsFiniteSet, IsFiniteSet

Found(m) == {c \in C!Rows \ byHand : MailboxOf[email[c]] = m}

Coming(m) ==
    {w \in Pages : /\ hand[w].doing \in {"create", "import"}
                   /\ \E b \in hand[w].new : MailboxOf[b] = m}

\* Of a mailbox there are no more rows, added and about to be, than pages.
AddressOk(m) ==
    /\ IsFiniteSet(Found(m))
    /\ Cardinality(Found(m)) + Cardinality(Coming(m)) <= Cardinality(Pages)

\* A page adds an address of each mailbox at most.
PageOk(w) ==
    hand[w].doing \in {"create", "import"} =>
        \A a, b \in hand[w].new : MailboxOf[a] = MailboxOf[b] => a = b

ClientsInv ==
    /\ email = [c \in Requests |-> email[c]]
    /\ hand = [w \in Pages |-> hand[w]]
    /\ \A w \in Pages : PageOk(w)
    /\ \A m : AddressOk(m)

LEMMA ComingFits ==
    ASSUME C!ClientAssumption, NEW m
    PROVE  /\ IsFiniteSet(Pages) /\ IsFiniteSet(Coming(m))
           /\ Cardinality(Coming(m)) \in Nat /\ Cardinality(Pages) \in Nat
           /\ Cardinality(Coming(m)) <= Cardinality(Pages)
<1>1. IsFiniteSet(Pages)
  BY ClientSets DEF C!ClientAssumption
<1>2. Coming(m) \in SUBSET Pages
  BY DEF Coming
<1> QED BY <1>1, <1>2, FS_Subset, FS_CardinalityType

LEMMA PageMoves ==
    ASSUME ClientsInv, NEW w \in Pages, NEW h, hand' = [hand EXCEPT ![w] = h]
    PROVE  /\ hand' = [v \in Pages |-> hand'[v]]
           /\ hand'[w] = h
           /\ \A v \in Pages : v # w => hand'[v] = hand[v]
BY DEF ClientsInv

\* No row more and no page more about to add one.
LEMMA FewerOk ==
    ASSUME C!ClientAssumption, NEW m, AddressOk(m), Found(m)' \subseteq Found(m), Coming(m)' \subseteq Coming(m)
    PROVE  AddressOk(m)'
<1>1. IsFiniteSet(Found(m)') /\ Cardinality(Found(m)') <= Cardinality(Found(m))
  BY FS_Subset DEF AddressOk
<1>2. Cardinality(Coming(m)') <= Cardinality(Coming(m)) /\ Cardinality(Coming(m)') \in Nat
  BY ComingFits, FS_Subset, FS_CardinalityType
<1>3. Cardinality(Found(m)) \in Nat /\ Cardinality(Found(m)') \in Nat
  BY <1>1, FS_CardinalityType DEF AddressOk
<1>4. Cardinality(Found(m)) + Cardinality(Coming(m)) <= Cardinality(Pages)
  BY DEF AddressOk
<1>5. Cardinality(Found(m)') + Cardinality(Coming(m)') <= Cardinality(Pages)
  BY <1>1, <1>2, <1>3, <1>4, ComingFits
<1> QED BY <1>1, <1>5 DEF AddressOk

\* A page that looked and found nobody.
LEMMA NobodyOk ==
    ASSUME C!ClientAssumption, NEW m, Found(m)' = {}
    PROVE  AddressOk(m)'
<1>1. Coming(m)' \subseteq Pages /\ IsFiniteSet(Pages)
  BY ComingFits DEF Coming
<1>2. /\ Cardinality(Coming(m)') <= Cardinality(Pages)
      /\ Cardinality(Coming(m)') \in Nat
  BY <1>1, FS_Subset, FS_CardinalityType
<1>3. IsFiniteSet(Found(m)') /\ Cardinality(Found(m)') = 0
  BY FS_EmptySet
<1>4. Cardinality(Found(m)') + Cardinality(Coming(m)') <= Cardinality(Pages)
  BY <1>2, <1>3
<1> QED BY <1>3, <1>4 DEF AddressOk

\* One row is added by a page that was about to.
LEMMA AddedOk ==
    ASSUME C!ClientAssumption, NEW m, AddressOk(m), NEW c, NEW w \in Coming(m),
           Found(m)' \subseteq Found(m) \cup {c}, Coming(m)' \subseteq Coming(m) \ {w}
    PROVE  AddressOk(m)'
<1>1. /\ IsFiniteSet(Found(m) \cup {c})
      /\ Cardinality(Found(m) \cup {c}) <= Cardinality(Found(m)) + 1
      /\ Cardinality(Found(m)) \in Nat
  <2>1. IsFiniteSet(Found(m)) /\ Cardinality(Found(m)) \in Nat
    BY FS_CardinalityType DEF AddressOk
  <2>2. CASE c \in Found(m)
    <3>1. Found(m) \cup {c} = Found(m)
      BY <2>2
    <3>2. Cardinality(Found(m)) <= Cardinality(Found(m)) + 1
      BY <2>1
    <3> QED BY <2>1, <3>1, <3>2
  <2>3. CASE c \notin Found(m)
    <3>1. IsFiniteSet(Found(m) \cup {c}) /\ Cardinality(Found(m) \cup {c}) = Cardinality(Found(m)) + 1
      BY <2>1, <2>3, FS_AddElement
    <3> QED BY <2>1, <3>1
  <2> QED BY <2>2, <2>3
<1>2. IsFiniteSet(Found(m)') /\ Cardinality(Found(m)') <= Cardinality(Found(m) \cup {c})
  BY <1>1, FS_Subset
<1>3. Cardinality(Coming(m) \ {w}) = Cardinality(Coming(m)) - 1 /\ IsFiniteSet(Coming(m) \ {w})
  BY ComingFits, FS_RemoveElement
<1>4. Cardinality(Coming(m)') <= Cardinality(Coming(m)) - 1 /\ Cardinality(Coming(m)') \in Nat
  BY <1>3, FS_Subset, FS_CardinalityType
<1>5. Cardinality(Found(m)) + Cardinality(Coming(m)) <= Cardinality(Pages)
  BY DEF AddressOk
<1>6. Cardinality(Found(m)') \in Nat /\ Cardinality(Found(m) \cup {c}) \in Nat
  BY <1>1, <1>2, FS_CardinalityType
<1>7. Cardinality(Found(m)') + Cardinality(Coming(m)') <= Cardinality(Pages)
  BY <1>1, <1>2, <1>4, <1>5, <1>6, ComingFits
<1> QED BY <1>2, <1>7 DEF AddressOk

\* No row of anybody's is added.
NoneAdded ==
    /\ email' = [c \in Requests |-> email'[c]]
    /\ \A m : Found(m)' \subseteq Found(m)

LEMMA PagesStay ==
    ASSUME C!ClientAssumption, ClientsInv, NoneAdded, hand' = hand
    PROVE  ClientsInv'
<1>1. ASSUME NEW m PROVE AddressOk(m)'
  <2>1. AddressOk(m) /\ Found(m)' \subseteq Found(m) /\ Coming(m)' = Coming(m)
    BY DEF ClientsInv, NoneAdded, Coming
  <2> QED BY <2>1, FewerOk
<1> QED BY <1>1 DEF ClientsInv, NoneAdded, PageOk

LEMMA PageRests ==
    ASSUME C!ClientAssumption, ClientsInv, NoneAdded, NEW w \in Pages, NEW h,
           hand' = [hand EXCEPT ![w] = h], h.doing \notin {"create", "import"}
    PROVE  ClientsInv'
<1>1. /\ hand' = [v \in Pages |-> hand'[v]]
      /\ hand'[w] = h
      /\ \A v \in Pages : v # w => hand'[v] = hand[v]
  BY PageMoves
<1>2. ASSUME NEW m PROVE AddressOk(m)'
  <2>1. AddressOk(m) /\ Found(m)' \subseteq Found(m)
    BY DEF ClientsInv, NoneAdded
  <2>2. Coming(m)' \subseteq Coming(m)
    BY <1>1 DEF Coming
  <2> QED BY <2>1, <2>2, FewerOk
<1>3. \A v \in Pages : PageOk(v)'
  BY <1>1 DEF ClientsInv, PageOk
<1> QED BY <1>1, <1>2, <1>3 DEF ClientsInv, NoneAdded

\* A page looks for the addresses of a set, and finds none of them.
LEMMA PageLooks ==
    ASSUME C!ClientAssumption, ClientsInv, UNCHANGED <<email, byHand>>, NEW w \in Pages, NEW h,
           hand' = [hand EXCEPT ![w] = h],
           \A a \in h.new : C!Existing(a) = {},
           \A a, b \in h.new : MailboxOf[a] = MailboxOf[b] => a = b
    PROVE  ClientsInv'
<1>1. /\ hand' = [v \in Pages |-> hand'[v]]
      /\ hand'[w] = h
      /\ \A v \in Pages : v # w => hand'[v] = hand[v]
  BY PageMoves
<1>2. ASSUME NEW m PROVE AddressOk(m)'
  <2>1. Found(m)' = Found(m) /\ AddressOk(m)
    BY DEF Found, C!Rows, ClientsInv
  <2>2. CASE \E b \in h.new : MailboxOf[b] = m
    <3>1. Found(m) = {}
      BY <2>2 DEF Found, C!Existing, C!SameAddress
    <3> QED BY <2>1, <3>1, NobodyOk
  <2>3. CASE ~\E b \in h.new : MailboxOf[b] = m
    <3>1. Coming(m)' \subseteq Coming(m)
      BY <1>1, <2>3 DEF Coming
    <3> QED BY <2>1, <3>1, FewerOk
  <2> QED BY <2>2, <2>3
<1>3. \A v \in Pages : PageOk(v)'
  BY <1>1 DEF ClientsInv, PageOk
<1> QED BY <1>1, <1>2, <1>3 DEF ClientsInv

\* A page adds what it did not find.
AddsWhatItFound(w) ==
    /\ hand[w].doing \in {"create", "import"}
    /\ C!Added(hand[w].new)
    /\ byHand' = byHand

LEMMA PageAdds ==
    ASSUME C!ClientAssumption, ClientsInv, NEW w \in Pages, NEW h,
           AddsWhatItFound(w),
           hand' = [hand EXCEPT ![w] = h], h.doing \notin {"create", "import"}
    PROVE  ClientsInv'
<1> USE DEF AddsWhatItFound
<1>1. /\ hand' = [v \in Pages |-> hand'[v]]
      /\ hand'[w] = h
      /\ \A v \in Pages : v # w => hand'[v] = hand[v]
  BY PageMoves
<1> DEFINE as == hand[w].new
<1>2. PICK row \in [as -> Requests \ C!Rows] :
         email' = [c \in Requests |-> IF \E a \in as : row[a] = c THEN CHOOSE a \in as : row[a] = c
                                      ELSE email[c]]
  BY DEF C!Added
<1>3. ASSUME NEW c \in Requests
      PROVE  \/ email'[c] = email[c]
             \/ email'[c] \in as /\ row[email'[c]] = c
  BY <1>2
<1>4. \A a, b \in as : MailboxOf[a] = MailboxOf[b] => a = b
  BY DEF ClientsInv, PageOk
<1>5. ASSUME NEW m PROVE AddressOk(m)'
  <2>1. AddressOk(m)
    BY DEF ClientsInv
  <2>2. CASE \E a \in as : MailboxOf[a] = m
    <3>1. PICK a \in as : MailboxOf[a] = m
      BY <2>2
    <3>2. w \in Coming(m) /\ Coming(m)' \subseteq Coming(m) \ {w}
      BY <1>1, <3>1 DEF Coming
    <3>3. Found(m)' \subseteq Found(m) \cup {row[a]}
      <4>1. SUFFICES ASSUME NEW c \in Requests, c \notin byHand, email'[c] # NoRow, MailboxOf[email'[c]] = m
                     PROVE  c \in Found(m) \/ c = row[a]
        BY DEF Found, C!Rows
      <4>2. CASE email'[c] = email[c]
        BY <4>1, <4>2 DEF Found, C!Rows
      <4>3. CASE email'[c] \in as /\ row[email'[c]] = c
        BY <1>4, <3>1, <4>1, <4>3
      <4> QED BY <1>3, <4>2, <4>3
    <3> QED BY <2>1, <3>2, <3>3, AddedOk
  <2>3. CASE ~\E a \in as : MailboxOf[a] = m
    <3>1. Coming(m)' \subseteq Coming(m)
      BY <1>1 DEF Coming
    <3>2. Found(m)' \subseteq Found(m)
      <4>1. SUFFICES ASSUME NEW c \in Requests, c \notin byHand, email'[c] # NoRow, MailboxOf[email'[c]] = m
                     PROVE  c \in Found(m)
        BY DEF Found, C!Rows
      <4> QED BY <1>3, <2>3, <4>1 DEF Found, C!Rows
    <3> QED BY <2>1, <3>1, <3>2, FewerOk
  <2> QED BY <2>2, <2>3
<1>6. \A v \in Pages : PageOk(v)'
  BY <1>1 DEF ClientsInv, PageOk
<1>7. email' = [c \in Requests |-> email'[c]]
  BY <1>2
<1> QED BY <1>1, <1>5, <1>6, <1>7 DEF ClientsInv

LEMMA TypedAddsNone ==
    ASSUME ClientsInv, NEW c \in Requests, NEW a, C!Typed(c, a)
    PROVE  NoneAdded /\ hand' = hand
<1>1. email' = [email EXCEPT ![c] = a] /\ byHand' = byHand \cup {c} /\ hand' = hand
  BY DEF C!Typed
<1>2. \A d \in Requests : d # c => email'[d] = email[d]
  BY <1>1 DEF ClientsInv
<1>3. \A m : Found(m)' \subseteq Found(m)
  BY <1>1, <1>2 DEF Found, C!Rows
<1> QED BY <1>1, <1>3 DEF NoneAdded, ClientsInv

LEMMA GoneAddsNone ==
    ASSUME ClientsInv, NEW cs, C!Gone(cs)
    PROVE  NoneAdded
<1>1. /\ email' = [c \in Requests |-> IF c \in cs THEN NoRow ELSE email[c]]
      /\ byHand' = byHand \ cs
  BY DEF C!Gone
<1>2. ASSUME NEW m PROVE Found(m)' \subseteq Found(m)
  <2>1. SUFFICES ASSUME NEW c \in Requests, email'[c] # NoRow, c \notin byHand', MailboxOf[email'[c]] = m
                 PROVE  c \in Found(m)
    BY DEF Found, C!Rows
  <2>2. c \notin cs /\ email'[c] = email[c]
    BY <1>1, <2>1
  <2> QED BY <1>1, <2>1, <2>2 DEF Found, C!Rows
<1> QED BY <1>1, <1>2 DEF NoneAdded

LEMMA SameAddsNone ==
    ASSUME ClientsInv, UNCHANGED <<email, byHand>>
    PROVE  NoneAdded
BY DEF ClientsInv, NoneAdded, Found, C!Rows

LEMMA LookedUp ==
    ASSUME C!ClientAssumption, ClientsInv, NEW w \in Pages, C!RequestCreate(w)
    PROVE  ClientsInv'
<1>1. UNCHANGED <<email, byHand>>
  BY DEF C!RequestCreate
<1>2. ASSUME NEW c, C!Starts(w, "request", c, {}) PROVE ClientsInv'
  <2> DEFINE h == [doing |-> "request", about |-> c, new |-> {}]
  <2>1. hand' = [hand EXCEPT ![w] = h] /\ h.doing = "request"
    BY <1>2 DEF C!Starts
  <2> QED BY <1>1, <2>1, SameAddsNone, PageRests
<1>3. ASSUME NEW a \in Spellings, C!Existing(a) = {}, C!Starts(w, "create", NoRow, {a}) PROVE ClientsInv'
  <2> DEFINE h == [doing |-> "create", about |-> NoRow, new |-> {a}]
  <2>1. hand' = [hand EXCEPT ![w] = h] /\ h.new = {a}
    BY <1>3 DEF C!Starts
  <2> HIDE DEF h
  <2>2. \A b \in h.new : C!Existing(b) = {}
    BY <1>3, <2>1
  <2> QED BY <1>1, <2>1, <2>2, PageLooks
<1> QED BY <1>2, <1>3 DEF C!RequestCreate, C!LookUp

LEMMA ClientsMade ==
    ASSUME C!ClientAssumption, ClientsInv, NEW w \in Pages,
           C!CreateMissing(w) \/ (\E r \in ClientRequests : C!CreateMany(w, r)) \/ C!RunImport(w)
    PROVE  ClientsInv'
<1>1. /\ hand[w].doing \in {"create", "import"}
      /\ C!Added(hand[w].new)
      /\ byHand' = byHand
  BY DEF C!CreateMissing, C!CreateMany, C!RunImport, C!Does
<1>2. PICK h : hand' = [hand EXCEPT ![w] = h] /\ h.doing \notin {"create", "import"}
  <2>1. CASE C!CreateMissing(w)
    <3>1. PICK c : hand' = [hand EXCEPT ![w] = [doing |-> "request", about |-> c, new |-> {}]]
      BY <2>1 DEF C!CreateMissing
    <3> DEFINE h == [doing |-> "request", about |-> c, new |-> {}]
    <3>2. hand' = [hand EXCEPT ![w] = h] /\ h.doing = "request"
      BY <3>1
    <3> HIDE DEF h
    <3>3. h.doing # "create" /\ h.doing # "import"
      BY <3>2
    <3> QED BY <3>2, <3>3
  <2>2. CASE \E r \in ClientRequests : C!CreateMany(w, r)
    <3>1. hand' = [hand EXCEPT ![w] = C!Idle]
      BY <2>2 DEF C!CreateMany, C!Rests
    <3>2. C!Idle.doing # "create" /\ C!Idle.doing # "import"
      BY DEF C!Idle
    <3> QED BY <3>1, <3>2
  <2>3. CASE C!RunImport(w)
    <3> DEFINE h == [hand[w] EXCEPT !.doing = "imported", !.new = {}]
    <3>1. hand' = [hand EXCEPT ![w] = h]
      BY <2>3 DEF C!RunImport
    <3>2. h.doing # "create" /\ h.doing # "import"
      BY <1>1
    <3> HIDE DEF h
    <3> QED BY <3>1, <3>2
  <2> QED BY <2>1, <2>2, <2>3
<1>3. AddsWhatItFound(w)
  BY <1>1 DEF AddsWhatItFound
<1> QED BY <1>2, <1>3, PageAdds

LEMMA FileChecked ==
    ASSUME C!ClientAssumption, ClientsInv, NEW w \in Pages, NEW d \in Imports, C!CheckRows(w, d)
    PROVE  ClientsInv'
<1>1. PICK new \in SUBSET table[d] :
         /\ \A a \in new : C!Existing(a) = {}
         /\ \A a, b \in new : C!SameAddress(a, b) => a = b
         /\ C!Starts(w, "import", d, new)
  BY DEF C!CheckRows
<1> DEFINE h == [doing |-> "import", about |-> d, new |-> new]
<1>2. hand' = [hand EXCEPT ![w] = h] /\ h.new = new
  BY <1>1 DEF C!Starts
<1> HIDE DEF h
<1>3. /\ \A a \in h.new : C!Existing(a) = {}
      /\ \A a, b \in h.new : MailboxOf[a] = MailboxOf[b] => a = b
  BY <1>1, <1>2 DEF C!SameAddress
<1>4. UNCHANGED <<email, byHand>>
  BY DEF C!CheckRows
<1> QED BY <1>2, <1>3, <1>4, PageLooks

\* A page starts, or ends, something that adds no client.
LEMMA PageTurns ==
    ASSUME C!ClientAssumption, ClientsInv, NEW w \in Pages,
           \/ C!RequestRefused(w) \/ C!UploadClears(w) \/ C!ImportFails(w) \/ C!ImportDone(w)
           \/ \E r \in ClientRequests : C!CreateRequest(w, r)
           \/ \E d \in Imports, as \in SUBSET Spellings \ {{}} : C!UploadStores(w, d, as)
           \/ \E cs \in SUBSET Requests : C!BulkDelete(w, cs)
    PROVE  ClientsInv'
<1>1. UNCHANGED <<email, byHand>>
  BY DEF C!RequestRefused, C!UploadClears, C!ImportFails, C!ImportDone, C!CreateRequest,
         C!UploadStores, C!BulkDelete
<1>2. \E h : hand' = [hand EXCEPT ![w] = h] /\ h.doing \notin {"create", "import"}
  <2>1. ASSUME C!Rests(w)
        PROVE  \E h : hand' = [hand EXCEPT ![w] = h] /\ h.doing \notin {"create", "import"}
    <3>1. hand' = [hand EXCEPT ![w] = C!Idle]
      BY <2>1 DEF C!Rests
    <3>2. C!Idle.doing # "create" /\ C!Idle.doing # "import"
      BY DEF C!Idle
    <3> QED BY <3>1, <3>2
  <2>2. ASSUME NEW doing \in {"upload", "bulk"}, NEW new, C!Starts(w, doing, NoRow, new)
        PROVE  \E h : hand' = [hand EXCEPT ![w] = h] /\ h.doing \notin {"create", "import"}
    <3> DEFINE h == [doing |-> doing, about |-> NoRow, new |-> new]
    <3>1. hand' = [hand EXCEPT ![w] = h] /\ h.doing = doing
      BY <2>2 DEF C!Starts
    <3> QED BY <3>1
  <2> QED BY <2>1, <2>2 DEF C!RequestRefused, C!UploadClears, C!ImportFails, C!ImportDone,
             C!CreateRequest, C!UploadStores, C!BulkDelete
<1> QED BY <1>1, <1>2, SameAddsNone, PageRests

LEMMA ClientDeleted ==
    ASSUME C!ClientAssumption, ClientsInv, NEW w \in Pages,
           \/ \E c \in Requests : C!ClientDelete(w, c)
           \/ C!DeleteRow(w) \/ C!BulkDeleteNext(w)
           \/ \E rs \in SUBSET ClientRequests : C!RequestBulkDelete(w, rs)
    PROVE  ClientsInv'
<1>1. CASE \E c \in Requests : C!DeleteLook(w, c)
  <2>1. PICK c \in Requests : C!DeleteLook(w, c)
    BY <1>1
  <2> DEFINE h == [doing |-> "delete", about |-> c, new |-> {}]
  <2>2. hand' = [hand EXCEPT ![w] = h] /\ h.doing = "delete" /\ UNCHANGED <<email, byHand>>
    BY <2>1 DEF C!DeleteLook, C!Starts
  <2> HIDE DEF h
  <2> QED BY <2>2, SameAddsNone, PageRests
<1>2. ASSUME NEW cs, C!DeletedWithHistory(cs), hand' = hand PROVE ClientsInv'
  <2>1. NoneAdded
    BY <1>2, GoneAddsNone DEF C!DeletedWithHistory
  <2> QED BY <1>2, <2>1, PagesStay
<1>3. CASE C!DeleteRow(w)
  <2>1. NoneAdded
    <3>1. CASE C!Protected(hand[w].about)
      BY <1>3, <3>1, SameAddsNone DEF C!DeleteRow
    <3>2. CASE ~C!Protected(hand[w].about)
      <4>1. PICK cs : C!Gone(cs)
        BY <1>3, <3>2 DEF C!DeleteRow
      <4> QED BY <4>1, GoneAddsNone
    <3> QED BY <3>1, <3>2
  <2>2. hand' = [hand EXCEPT ![w] = C!Idle] /\ C!Idle.doing = "nothing"
    BY <1>3 DEF C!DeleteRow, C!Rests, C!Idle
  <2> QED BY <2>1, <2>2, PageRests
<1>4. CASE C!BulkDeleteNext(w)
  <2>1. CASE C!Rests(w) /\ UNCHANGED <<email, byHand>>
    <3>1. hand' = [hand EXCEPT ![w] = C!Idle] /\ C!Idle.doing = "nothing"
      BY <2>1 DEF C!Rests, C!Idle
    <3> QED BY <2>1, <3>1, SameAddsNone, PageRests
  <2>2. CASE ~(C!Rests(w) /\ UNCHANGED <<email, byHand>>)
    <3>1. PICK c \in hand[w].new :
             /\ C!DeletedWithHistory({c})
             /\ hand' = [hand EXCEPT ![w] = IF hand[w].new = {c} THEN C!Idle
                                           ELSE [hand[w] EXCEPT !.new = @ \ {c}]]
      BY <1>4, <2>2 DEF C!BulkDeleteNext
    <3>2. NoneAdded
      BY <3>1, GoneAddsNone DEF C!DeletedWithHistory
    <3> DEFINE h == IF hand[w].new = {c} THEN C!Idle ELSE [hand[w] EXCEPT !.new = @ \ {c}]
    <3>3. h.doing \notin {"create", "import"}
      <4>1. hand[w].doing = "bulk"
        BY <1>4 DEF C!BulkDeleteNext, C!Does
      <4>2. [hand[w] EXCEPT !.new = @ \ {c}].doing = hand[w].doing
        OBVIOUS
      <4>3. C!Idle.doing = "nothing"
        BY DEF C!Idle
      <4> QED BY <4>1, <4>2, <4>3
    <3>4. hand' = [hand EXCEPT ![w] = h]
      BY <3>1
    <3> HIDE DEF h
    <3> QED BY <3>2, <3>3, <3>4, PageRests
  <2> QED BY <2>1, <2>2
<1>5. CASE \E rs \in SUBSET ClientRequests : C!RequestBulkDelete(w, rs)
  BY <1>2, <1>5 DEF C!RequestBulkDelete
<1> QED BY <1>1, <1>2, <1>3, <1>4, <1>5 DEF C!ClientDelete

LEMMA ClientsStep == C!ClientAssumption /\ ClientsInv /\ C!Next => ClientsInv'
<1> SUFFICES ASSUME C!ClientAssumption, ClientsInv, C!Next PROVE ClientsInv'
  OBVIOUS
<1>1. ASSUME NEW c \in Requests, NEW a, C!Typed(c, a) PROVE ClientsInv'
  BY <1>1, TypedAddsNone, PagesStay
<1>2. ASSUME NEW a \in Spellings, C!ClientCreate(a) PROVE ClientsInv'
  BY <1>1, <1>2 DEF C!ClientCreate
<1>3. ASSUME NEW c \in Requests, NEW a \in Spellings, C!ClientEdit(c, a) PROVE ClientsInv'
  BY <1>1, <1>3 DEF C!ClientEdit
<1>4. ASSUME UNCHANGED <<email, byHand, hand>> PROVE ClientsInv'
  BY <1>4, SameAddsNone, PagesStay
<1>5. ASSUME \/ \E cs \in SUBSET Requests : C!SetMonthly(cs)
             \/ \E r \in ClientRequests : C!RequestDelete(r)
             \/ \E d \in Imports : C!DeleteOldImport(d)
      PROVE  ClientsInv'
  BY <1>4, <1>5 DEF C!SetMonthly, C!RequestDelete, C!DeleteOldImport
<1>6. ASSUME NEW w \in Pages, C!RequestCreate(w) PROVE ClientsInv'
  BY <1>6, LookedUp
<1>7. ASSUME NEW w \in Pages,
             C!CreateMissing(w) \/ (\E r \in ClientRequests : C!CreateMany(w, r)) \/ C!RunImport(w)
      PROVE  ClientsInv'
  BY <1>7, ClientsMade
<1>8. ASSUME NEW w \in Pages, NEW d \in Imports, C!CheckRows(w, d) PROVE ClientsInv'
  BY <1>8, FileChecked
<1>9. ASSUME NEW w \in Pages,
             \/ C!RequestRefused(w) \/ C!UploadClears(w) \/ C!ImportFails(w) \/ C!ImportDone(w)
             \/ \E r \in ClientRequests : C!CreateRequest(w, r)
             \/ \E d \in Imports, as \in SUBSET Spellings \ {{}} : C!UploadStores(w, d, as)
             \/ \E cs \in SUBSET Requests : C!BulkDelete(w, cs)
      PROVE  ClientsInv'
  BY <1>9, PageTurns
<1>10. ASSUME NEW w \in Pages,
              \/ \E c \in Requests : C!ClientDelete(w, c)
              \/ C!DeleteRow(w) \/ C!BulkDeleteNext(w)
              \/ \E rs \in SUBSET ClientRequests : C!RequestBulkDelete(w, rs)
       PROVE  ClientsInv'
  BY <1>10, ClientDeleted
<1> QED BY <1>2, <1>3, <1>5, <1>6, <1>7, <1>8, <1>9, <1>10 DEF C!Next

(* Of the clients that were found or imported one has an address, and one   *)
(* more for every other page that looked before it was there - for any      *)
(* clients, spellings, files and pages.                                     *)
THEOREM ClientsOnce == ASSUME C!ClientAssumption PROVE PartSpec => []OnePerAddress
<1>1. PartInit => ClientsInv
  <2> SUFFICES ASSUME PartInit PROVE ClientsInv
    OBVIOUS
  <2>1. C!Init
    BY DEF PartInit
  <2>2. \A w \in Pages : hand[w] = C!Idle
    BY <2>1 DEF C!Init
  <2>3. \A w \in Pages : hand[w].doing = "nothing"
    BY <2>2 DEF C!Idle
  <2>4. ASSUME NEW m PROVE AddressOk(m)
    <3>1. Found(m) = {} /\ Coming(m) = {}
      BY <2>1, <2>3 DEF C!Init, Found, Coming, C!Rows
    <3>2. Cardinality(Found(m)) = 0 /\ Cardinality(Coming(m)) = 0 /\ IsFiniteSet(Found(m))
      BY <3>1, FS_EmptySet
    <3> QED BY <3>2, ComingFits DEF AddressOk
  <2> QED BY <2>1, <2>3, <2>4 DEF C!Init, ClientsInv, PageOk
<1>2. ClientsInv /\ [PartNext]_<<part, vars, clientVars, legalVars, linkVars>> => ClientsInv'
  <2> SUFFICES ASSUME ClientsInv, [PartNext]_<<part, vars, clientVars, legalVars, linkVars>>
               PROVE  ClientsInv'
    OBVIOUS
  <2>1. CASE C!Next
    BY <2>1, ClientsStep
  <2>2. CASE UNCHANGED clientVars
    BY <2>2, SameAddsNone, PagesStay DEF clientVars
  <2> QED BY <2>1, <2>2 DEF PartNext
<1>3. ClientsInv => OnePerAddress
  <2> SUFFICES ASSUME ClientsInv, NEW a \in Spellings
               PROVE  Cardinality(Found(MailboxOf[a])) + Cardinality(Coming(MailboxOf[a])) <= Cardinality(Pages)
    BY ClientSets DEF OnePerAddress, C!OnePerAddress, C!Does, Found, Coming
  <2> QED BY DEF ClientsInv, AddressOk
<1> QED BY <1>1, <1>2, <1>3, PTL DEF PartSpec

=============================================================================
