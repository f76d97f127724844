---------------------------- MODULE MCItems_proofs ----------------------------
(***************************************************************************)
(* Proofs about MCItems, for any number of items, files and workers.       *)
(*                                                                         *)
(* Items (ItemLifecycle): the workers of one request interleave as they    *)
(* like.  Each theorem rests on what a worker knows of its item or file    *)
(* where it stands: HoldsFile, ReadOpen, FilesPlaced and ExtraNew, and on  *)
(* counts of workers for the two limits.                                   *)
(*                                                                         *)
(* One worker at a time (the part "alone"): AsRead says what the worker    *)
(* read and nobody has changed since; AgreeBut is what files and items     *)
(* have in common, but for the item the worker is at.                      *)
(*                                                                         *)
(* Keys (EncryptionKeys): KeysInv follows the row a worker copied and the  *)
(* rows a command still has to go through, what rewrap_document_keys       *)
(* leaves behind it, and the files of each document on the disk.           *)
(***************************************************************************)
EXTENDS MCItems, FiniteSetTheorems, TLAPS

RowType == [status : ItemStatus, naAccepted : BOOLEAN]

\* Whoever uploads or deletes a file works on the item it is for.
Holding == {"fetched", "counted", "unique", "stored", "delete", "deleted",
            "extra", "extra_mailing", "extra_saved"}

HoldsFile ==
    \A t \in Threads :
        th[t].pc \in Holding => /\ th[t].doc \in Docs
                               /\ th[t].item = ItemOf[th[t].doc]

\* The recipient's requests were read while the request was open.
SenderPcs == {"accept", "accept_docs", "reject", "reject_docs"}

ReadOpen ==
    \A t \in Threads :
        th[t].pc \notin SenderPcs \cup {"idle"} => th[t].openAtRead

\* An email is owed for a complete request, and not yet sent.
OwedIsDue == owed => Complete(present, item) /\ completeSent = 0

\* The emails sent and the workers that may still send one.
Mailing == {t \in Threads : th[t].pc \in {"mailing", "extra_mailing"}}
MailingBounded == completeSent + Cardinality(Mailing) <= Cardinality(Threads)

-----------------------------------------------------------------------------
(* Types *)

LEMMA IdleType == /\ Idle \in Thread
                  /\ Idle.pc = "idle" /\ Idle.doc = NoDoc /\ Idle.item = NoItem
BY DEF Idle, Thread, Pcs, SavePcs

LEMMA GoType ==
    ASSUME TypeOK, NEW t \in Threads, NEW pc \in Pcs, Go(t, pc)
    PROVE  th' \in [Threads -> Thread]
BY DEF Go, TypeOK, Thread

LEMMA DoneType ==
    ASSUME TypeOK, NEW t \in Threads, Done(t)
    PROVE  th' \in [Threads -> Thread]
BY IdleType DEF Done, TypeOK

LEMMA BeginType ==
    ASSUME TypeOK, NEW t \in Threads, NEW pc \in Pcs, NEW i \in Items,
           NEW d \in Docs \cup {NoDoc}, Begin(t, pc, i, d)
    PROVE  TypeOK'
<1>1. th' \in [Threads -> Thread]
    BY DEF Begin, TypeOK, Thread
<1> QED BY <1>1 DEF Begin, TypeOK

LEMMA AcceptFetchType ==
    ASSUME TypeOK, NEW t \in Threads, NEW S \in SUBSET ToReview, AcceptFetch(t, S)
    PROVE  TypeOK'
<1>1. WorkOn(S) \in SUBSET Work
    BY DEF WorkOn, ToReview, Work, Status, TypeOK
<1>2. th' \in [Threads -> Thread]
    BY <1>1, IdleType DEF AcceptFetch, TypeOK, Thread, Pcs
<1> QED BY <1>2 DEF AcceptFetch, TypeOK

LEMMA WriteType ==
    ASSUME TypeOK, NEW i, NEW new, i \in Items => new \in RowType, WriteItem(i, new)
    PROVE  item' \in [Items -> RowType]
BY DEF WriteItem, TypeOK, RowType

LEMMA SavedType ==
    ASSUME NEW op \in SavePcs, NEW now \in RowType
    PROVE  /\ Saved(op, now) \in RowType
           /\ Saved(op, now).status # "zaakceptowany" \/ now.status = "zaakceptowany"
BY DEF SavePcs, Saved, RowType, ItemStatus

LEMMA DecideType ==
    ASSUME TypeOK, NEW i, NEW decision \in DocStatus, DecideFiles(i, decision)
    PROVE  doc' \in [Docs -> DocStatus]
BY DEF DecideFiles, TypeOK

LEMMA TypeStep ==
    ASSUME TypeOK, HoldsFile, [Next]_vars
    PROVE  TypeOK'
<1> USE ConstantsAssumption
<1>1. ASSUME NEW t \in Threads, NEW d \in Docs, UploadBegin(t, d) \/ DeleteBegin(t, d)
      PROVE  TypeOK'
    <2>1. ItemOf[d] \in Items
        OBVIOUS
    <2> QED BY <1>1, <2>1, BeginType DEF UploadBegin, DeleteBegin, Pcs
<1>2. ASSUME NEW t \in Threads, NEW d \in Docs, ExtraBegin(t, d)
      PROVE  TypeOK'
    <2>1. th' \in [Threads -> Thread]
        BY <1>2 DEF ExtraBegin, TypeOK, Thread, Pcs, ExtraPcs
    <2> QED BY <1>2, <2>1 DEF ExtraBegin, TypeOK
<1>3. ASSUME NEW t \in Threads, NEW i \in Items,
             \/ ConfirmBegin(t, i) \/ UndoConfirmBegin(t, i)
             \/ MarkByRecipientBegin(t, i) \/ UndoByRecipientBegin(t, i)
             \/ MarkByOwnerBegin(t, i) \/ RefuseBegin(t, i) \/ RejectBegin(t, i)
      PROVE  TypeOK'
    BY <1>3, BeginType
       DEF ConfirmBegin, UndoConfirmBegin, MarkByRecipientBegin,
           UndoByRecipientBegin, MarkByOwnerBegin, RefuseBegin, RejectBegin,
           Pcs, SavePcs
<1>4. ASSUME NEW t \in Threads, NEW i \in Items, AcceptBegin(t, i)
      PROVE  TypeOK'
    <2>1. WorkOn({i}) \in SUBSET Work
        BY <1>4 DEF AcceptBegin, WorkOn, Work
    <2>2. th' \in [Threads -> Thread]
        BY <1>4, <2>1, IdleType DEF AcceptBegin, AcceptFetch, TypeOK, Thread, Pcs
    <2> QED BY <1>4, <2>2 DEF AcceptBegin, AcceptFetch, TypeOK
<1>5. ASSUME NEW t \in Threads, AcceptAllBegin(t)
      PROVE  TypeOK'
    BY <1>5, AcceptFetchType DEF AcceptAllBegin
<1>6. ASSUME NEW t \in Threads,
             \/ UploadCount(t) \/ UploadCheckDuplicate(t) \/ CompleteCheck(t)
             \/ DeleteCheckEmpty(t) \/ ExtraCheck(t)
      PROVE  TypeOK'
    <2>1. th' \in [Threads -> Thread]
        BY <1>6, GoType, DoneType
           DEF UploadCount, UploadCheckDuplicate, CompleteCheck,
               DeleteCheckEmpty, ExtraCheck, Pcs, SavePcs, ExtraPcs
    <2> QED BY <1>6, <2>1
            DEF UploadCount, UploadCheckDuplicate, CompleteCheck,
                DeleteCheckEmpty, ExtraCheck, TypeOK
<1>7. ASSUME NEW t \in Threads, UploadStore(t) \/ DeleteRow(t)
      PROVE  TypeOK'
    <2>1. th' \in [Threads -> Thread]
        BY <1>7, GoType DEF UploadStore, DeleteRow, Pcs
    <2>2. doc' \in [Docs -> DocStatus]
        BY <1>7 DEF UploadStore, DeleteRow, TypeOK, DocStatus
    <2> QED BY <1>7, <2>1, <2>2 DEF UploadStore, DeleteRow, TypeOK
<1>8. ASSUME NEW t \in Threads, UploadSave(t) \/ AnswerSave(t)
      PROVE  TypeOK'
    <2>1. th' \in [Threads -> Thread]
        BY <1>8, GoType DEF UploadSave, AnswerSave, Pcs
    <2>2. item' \in [Items -> RowType]
        <3>1. CASE UploadSave(t)
            BY <3>1, WriteType DEF UploadSave, SaveByRecipient, RowType, ItemStatus
        <3>2. CASE AnswerSave(t)
            <4>1. th[t].pc \in SavePcs
                BY <3>2 DEF AnswerSave, SavePcs
            <4>2. th[t].item \in Items => Saved(th[t].pc, item[th[t].item]) \in RowType
                BY <4>1, SavedType DEF TypeOK, RowType
            <4> QED BY <3>2, <4>2, WriteType DEF AnswerSave, SaveByRecipient
        <3> QED BY <1>8, <3>1, <3>2
    <2>3. owed' \in BOOLEAN
        BY <1>8 DEF UploadSave, AnswerSave, SaveByRecipient
    <2> QED BY <1>8, <2>1, <2>2, <2>3 DEF UploadSave, AnswerSave, TypeOK, RowType
<1>9. ASSUME NEW t \in Threads, CompleteSend(t)
      PROVE  TypeOK'
    <2>1. th' \in [Threads -> Thread]
        BY <1>9, DoneType DEF CompleteSend
    <2>2. completeSent' \in Nat
        <3>1. PICK sent \in {0, 1} : completeSent' = completeSent + sent
            BY <1>9 DEF CompleteSend
        <3> QED BY <3>1 DEF TypeOK
    <2> QED BY <1>9, <2>1, <2>2 DEF CompleteSend, TypeOK
<1>10. ASSUME NEW t \in Threads, ExtraCommit(t)
       PROVE  TypeOK'
    <2>1. th' \in [Threads -> Thread]
        BY <1>10, DoneType DEF ExtraCommit
    <2>2. item' \in [Items -> RowType]
        BY <1>10, WriteType DEF ExtraCommit, RowType, ItemStatus
    <2>3. doc' \in [Docs -> DocStatus]
        BY <1>10 DEF ExtraCommit, TypeOK, DocStatus
    <2>4. owed' \in BOOLEAN
        BY <1>10 DEF ExtraCommit, TypeOK
    <2>6. completeSent' \in Nat
        <3>1. CASE completeSent' = completeSent
            BY <3>1 DEF TypeOK
        <3>2. CASE \E sent \in {0, 1} : completeSent' = completeSent + sent
            <4>1. PICK sent \in {0, 1} : completeSent' = completeSent + sent
                BY <3>2
            <4> QED BY <4>1 DEF TypeOK
        <3> QED BY <1>10, <3>1, <3>2 DEF ExtraCommit
    <2>5. th[t].item \in Items
        BY <1>10 DEF ExtraCommit, HoldsFile, Holding
    <2> QED BY <1>10, <2>1, <2>2, <2>3, <2>4, <2>5, <2>6 DEF ExtraCommit, TypeOK, RowType
<1>11. ASSUME NEW t \in Threads, AcceptNotApplicable(t)
       PROVE  TypeOK'
    <2>1. PICK w \in th[t].todo :
              /\ WriteItem(w.item, [item[w.item] EXCEPT !.naAccepted = TRUE])
              /\ th' = [th EXCEPT ![t] = IF th[t].todo = {w} THEN Idle
                                         ELSE [th[t] EXCEPT !.todo = @ \ {w}]]
        BY <1>11 DEF AcceptNotApplicable
    <2>2. item' \in [Items -> RowType]
        BY <2>1, WriteType DEF RowType, TypeOK
    <2>3. th' \in [Threads -> Thread]
        <3>1. [th[t] EXCEPT !.todo = @ \ {w}] \in Thread
            BY DEF TypeOK, Thread
        <3>2. CASE th[t].todo = {w}
            BY <2>1, <3>2, IdleType DEF TypeOK
        <3>3. CASE th[t].todo # {w}
            <4>1. th' = [th EXCEPT ![t] = [th[t] EXCEPT !.todo = @ \ {w}]]
                BY <2>1, <3>3
            <4> QED BY <3>1, <4>1 DEF TypeOK
        <3> QED BY <3>2, <3>3
    <2> QED BY <1>11, <2>2, <2>3 DEF AcceptNotApplicable, TypeOK, RowType
<1>12. ASSUME NEW t \in Threads, AcceptSave(t)
       PROVE  TypeOK'
    <2>1. PICK w \in th[t].todo :
              /\ SaveBySender(w.item, [item[w.item] EXCEPT !.status = "zaakceptowany"])
              /\ th' = [th EXCEPT ![t] = [th[t] EXCEPT !.pc = "accept_docs", !.item = w.item,
                                                         !.todo = @ \ {w}]]
        BY <1>12 DEF AcceptSave
    <2>2. w.item \in Items
        BY DEF TypeOK, Thread, Work
    <2>3. item' \in [Items -> RowType]
        BY <2>1, WriteType DEF SaveBySender, RowType, TypeOK, ItemStatus
    <2>4. th' \in [Threads -> Thread]
        BY <2>1, <2>2 DEF TypeOK, Thread, Pcs
    <2>5. owed' \in BOOLEAN
        BY <2>1 DEF SaveBySender
    <2> QED BY <1>12, <2>3, <2>4, <2>5 DEF AcceptSave, TypeOK, RowType
<1>13. ASSUME NEW t \in Threads, AcceptDocs(t)
       PROVE  TypeOK'
    <2>1. th' \in [Threads -> Thread]
        <3>1. [th[t] EXCEPT !.pc = "accept", !.item = NoItem] \in Thread
            BY DEF TypeOK, Thread, Pcs
        <3> QED BY <1>13, <3>1, IdleType DEF AcceptDocs, TypeOK
    <2>2. doc' \in [Docs -> DocStatus]
        BY <1>13, DecideType DEF AcceptDocs, DocStatus
    <2> QED BY <1>13, <2>1, <2>2 DEF AcceptDocs, TypeOK
<1>14. ASSUME NEW t \in Threads, RejectDocs(t)
       PROVE  TypeOK'
    <2>1. th' \in [Threads -> Thread]
        BY <1>14, DoneType DEF RejectDocs
    <2>2. doc' \in [Docs -> DocStatus]
        BY <1>14, DecideType DEF RejectDocs, DocStatus
    <2> QED BY <1>14, <2>1, <2>2 DEF RejectDocs, TypeOK
<1>15. ASSUME NEW t \in Threads, RejectSave(t)
       PROVE  TypeOK'
    <2>1. th' \in [Threads -> Thread]
        BY <1>15, GoType DEF RejectSave, Pcs
    <2>2. item' \in [Items -> RowType]
        BY <1>15, WriteType
           DEF RejectSave, SaveBySender, RowType, ItemStatus, TypeOK
    <2>3. owed' \in BOOLEAN
        BY <1>15 DEF RejectSave, SaveBySender
    <2> QED BY <1>15, <2>1, <2>2, <2>3 DEF RejectSave, TypeOK, RowType
<1>16. ASSUME NEW t \in Threads, FinalSave(t)
       PROVE  TypeOK'
    <2>1. th' \in [Threads -> Thread]
        BY <1>16, DoneType DEF FinalSave
    <2>2. item' \in [Items -> RowType]
        BY <1>16, WriteType, SavedType
           DEF FinalSave, SaveBySender, RowType, TypeOK
    <2>3. owed' \in BOOLEAN
        BY <1>16 DEF FinalSave, SaveBySender
    <2> QED BY <1>16, <2>1, <2>2, <2>3 DEF FinalSave, TypeOK, RowType
<1>17. ASSUME NEW t \in Threads, Crash(t)
       PROVE  TypeOK'
    <2>1. th' \in [Threads -> Thread]
        BY <1>17, DoneType DEF Crash
    <2> QED BY <1>17, <2>1 DEF Crash, TypeOK
<1>18. CASE Close \/ Reopen
    BY <1>18 DEF Close, Reopen, TypeOK
<1>19. CASE UNCHANGED vars
    BY <1>19 DEF vars, TypeOK
<1> QED BY <1>1, <1>2, <1>3, <1>4, <1>5, <1>6, <1>7, <1>8, <1>9, <1>10, <1>11,
           <1>12, <1>13, <1>14, <1>15, <1>16, <1>17, <1>18, <1>19
        DEF Next, Recipient, Sender, Statement

-----------------------------------------------------------------------------
(* Who holds what *)

LEMMA HoldsStep ==
    ASSUME TypeOK, HoldsFile, [Next]_vars
    PROVE  HoldsFile'
<1> USE ConstantsAssumption
<1>1. ASSUME NEW t \in Threads, NEW pc, NEW i, NEW d, Begin(t, pc, i, d),
             pc \in Holding => d \in Docs /\ i = ItemOf[d]
      PROVE  HoldsFile'
    BY <1>1 DEF Begin, HoldsFile, TypeOK
<1>2. ASSUME NEW t \in Threads, NEW pc, Go(t, pc),
             pc \in Holding => th[t].pc \in Holding
      PROVE  HoldsFile'
    BY <1>2 DEF Go, HoldsFile, TypeOK, Thread
<1>3. ASSUME NEW t \in Threads, Done(t)
      PROVE  HoldsFile'
    BY <1>3, IdleType DEF Done, HoldsFile, TypeOK, Holding
<1>4. ASSUME NEW t \in Threads, NEW d \in Docs, UploadBegin(t, d) \/ DeleteBegin(t, d)
      PROVE  HoldsFile'
    BY <1>1, <1>4 DEF UploadBegin, DeleteBegin
<1>5. ASSUME NEW t \in Threads, NEW d \in Docs, ExtraBegin(t, d)
      PROVE  HoldsFile'
    BY <1>5 DEF ExtraBegin, HoldsFile, TypeOK
<1>6. ASSUME NEW t \in Threads, NEW i \in Items,
             \/ ConfirmBegin(t, i) \/ UndoConfirmBegin(t, i)
             \/ MarkByRecipientBegin(t, i) \/ UndoByRecipientBegin(t, i)
             \/ MarkByOwnerBegin(t, i) \/ RefuseBegin(t, i) \/ RejectBegin(t, i)
      PROVE  HoldsFile'
    BY <1>1, <1>6
       DEF ConfirmBegin, UndoConfirmBegin, MarkByRecipientBegin, Holding,
           UndoByRecipientBegin, MarkByOwnerBegin, RefuseBegin, RejectBegin
<1>7. ASSUME NEW t \in Threads, NEW S, AcceptFetch(t, S)
      PROVE  HoldsFile'
    BY <1>7, IdleType DEF AcceptFetch, HoldsFile, TypeOK, Holding, Idle
<1>8. ASSUME NEW t \in Threads,
             \/ UploadCount(t) \/ UploadCheckDuplicate(t) \/ UploadStore(t)
             \/ UploadSave(t) \/ CompleteCheck(t) \/ CompleteSend(t)
             \/ ExtraCommit(t) \/ RejectSave(t) \/ RejectDocs(t)
             \/ AnswerSave(t) \/ FinalSave(t) \/ DeleteRow(t)
             \/ DeleteCheckEmpty(t) \/ ExtraCheck(t) \/ Crash(t)
      PROVE  HoldsFile'
    BY <1>2, <1>3, <1>8
       DEF UploadCount, UploadCheckDuplicate, UploadStore, UploadSave,
           CompleteCheck, CompleteSend, ExtraCommit, RejectSave, RejectDocs,
           AnswerSave, FinalSave, DeleteRow, DeleteCheckEmpty, ExtraCheck, Crash,
           Holding
<1>9. ASSUME NEW t \in Threads,
             AcceptNotApplicable(t) \/ AcceptSave(t) \/ AcceptDocs(t)
      PROVE  HoldsFile'
    <2>1. CASE AcceptNotApplicable(t)
        BY <2>1, IdleType
           DEF AcceptNotApplicable, HoldsFile, TypeOK, Thread, Holding
    <2>2. CASE AcceptSave(t)
        BY <2>2 DEF AcceptSave, HoldsFile, TypeOK, Thread, Holding
    <2>3. CASE AcceptDocs(t)
        BY <2>3, IdleType DEF AcceptDocs, HoldsFile, TypeOK, Thread, Holding
    <2> QED BY <1>9, <2>1, <2>2, <2>3
<1>10. CASE Close \/ Reopen \/ UNCHANGED vars
    BY <1>10 DEF Close, Reopen, vars, HoldsFile
<1> QED BY <1>4, <1>5, <1>6, <1>7, <1>8, <1>9, <1>10
        DEF Next, Recipient, Sender, Statement, AcceptBegin, AcceptAllBegin

LEMMA InitType ==
    ASSUME Init
    PROVE  TypeOK /\ HoldsFile
<1>1. th \in [Threads -> Thread] /\ HoldsFile
    BY IdleType DEF Init, HoldsFile, Holding
<1>2. item \in [Items -> RowType] /\ doc \in [Docs -> DocStatus]
    BY DEF Init, RowType, ItemStatus, DocStatus
<1>3. crashes \in 0..MaxCrashes /\ completeSent \in Nat
    BY ConstantsAssumption DEF Init
<1> QED BY <1>1, <1>2, <1>3 DEF Init, TypeOK, RowType

(* The types hold in every state. *)
THEOREM TypeCorrect == Spec => []TypeOK
<1>1. Init => TypeOK /\ HoldsFile
    BY InitType
<1>2. TypeOK /\ HoldsFile /\ [Next]_vars => TypeOK' /\ HoldsFile'
    BY TypeStep, HoldsStep
<1> QED BY <1>1, <1>2, PTL DEF Spec

-----------------------------------------------------------------------------
(* Accepted means reviewed *)

\* A file waiting for a decision whose item is already accepted.
Undecided(d) == doc[d] = "uploaded" /\ Status(ItemOf[d]) = "zaakceptowany"

\* The worker that will put it right.
Reviewer(d, t) == \/ th[t].pc = "stored" /\ th[t].doc = d
                  \/ th[t].pc = "accept_docs" /\ th[t].item = ItemOf[d]

(* One worker moves: a file that is left undecided had another reviewer,   *)
(* or has this one.                                                        *)
LEMMA ReviewFrame ==
    ASSUME AcceptedIsReviewed, NEW t \in Threads,
           \A u \in Threads \ {t} : th'[u] = th[u],
           crashes' = 0 => crashes = 0,
           \A d \in Docs : Undecided(d)' =>
               Reviewer(d, t)' \/ (Undecided(d) /\ ~Reviewer(d, t))
    PROVE  AcceptedIsReviewed'
<1> SUFFICES ASSUME crashes' = 0, NEW d \in Docs, Undecided(d)'
             PROVE  \E u \in Threads : Reviewer(d, u)'
    BY DEF AcceptedIsReviewed, Undecided, Reviewer, Status
<1>1. CASE Reviewer(d, t)'
    BY <1>1
<1>2. CASE Undecided(d) /\ ~Reviewer(d, t)
    <2>1. PICK u \in Threads : Reviewer(d, u)
        BY <1>2 DEF AcceptedIsReviewed, Undecided, Reviewer
    <2>2. th'[u] = th[u]
        BY <1>2, <2>1
    <2>3. Reviewer(d, u)'
        BY <2>1, <2>2 DEF Reviewer
    <2> QED BY <2>3
<1> QED BY <1>1, <1>2

\* What the writes to an item make of its status.
LEMMA WriteStatus ==
    ASSUME TypeOK, NEW i, NEW new, WriteItem(i, new), NEW j \in Items
    PROVE  Status(j)' = IF j = i THEN new.status ELSE Status(j)
BY DEF WriteItem, Status, TypeOK

LEMMA SavedStatus ==
    ASSUME NEW op \in SavePcs, NEW now \in RowType
    PROVE  Saved(op, now).status # "zaakceptowany"
BY DEF SavePcs, Saved, RowType, ItemStatus

LEMMA ReviewStep ==
    ASSUME TypeOK, HoldsFile, AcceptedIsReviewed, [Next]_vars
    PROVE  AcceptedIsReviewed'
<1> USE ConstantsAssumption
<1> DEFINE Others(t) == \A u \in Threads \ {t} : th'[u] = th[u]
           Lucky == crashes' = 0 => crashes = 0
<1>1. ASSUME NEW t \in Threads, Others(t), Lucky, UNCHANGED <<item, doc>>,
             th[t].pc \notin {"stored", "accept_docs"}
      PROVE  AcceptedIsReviewed'
    BY <1>1, ReviewFrame DEF Undecided, Reviewer, Status
<1>2. ASSUME NEW t \in Threads, NEW d \in Docs,
             UploadBegin(t, d) \/ DeleteBegin(t, d) \/ ExtraBegin(t, d)
      PROVE  AcceptedIsReviewed'
    BY <1>1, <1>2 DEF UploadBegin, DeleteBegin, ExtraBegin, Begin, TypeOK
<1>3. ASSUME NEW t \in Threads, NEW i \in Items,
             \/ ConfirmBegin(t, i) \/ UndoConfirmBegin(t, i)
             \/ MarkByRecipientBegin(t, i) \/ UndoByRecipientBegin(t, i)
             \/ MarkByOwnerBegin(t, i) \/ RefuseBegin(t, i) \/ RejectBegin(t, i)
      PROVE  AcceptedIsReviewed'
    BY <1>1, <1>3
       DEF ConfirmBegin, UndoConfirmBegin, MarkByRecipientBegin, Begin, TypeOK,
           UndoByRecipientBegin, MarkByOwnerBegin, RefuseBegin, RejectBegin
<1>4. ASSUME NEW t \in Threads, NEW S, AcceptFetch(t, S)
      PROVE  AcceptedIsReviewed'
    BY <1>1, <1>4 DEF AcceptFetch, TypeOK
<1>5. ASSUME NEW t \in Threads,
             \/ UploadCount(t) \/ UploadCheckDuplicate(t) \/ CompleteCheck(t)
             \/ CompleteSend(t) \/ DeleteCheckEmpty(t) \/ ExtraCheck(t)
      PROVE  AcceptedIsReviewed'
    BY <1>1, <1>5
       DEF UploadCount, UploadCheckDuplicate, CompleteCheck, CompleteSend,
           DeleteCheckEmpty, ExtraCheck, Go, Done, TypeOK
<1>6. ASSUME NEW t \in Threads, UploadStore(t)
      PROVE  AcceptedIsReviewed'
    <2>1. Others(t) /\ Lucky /\ th'[t] = [th[t] EXCEPT !.pc = "stored"]
        BY <1>6 DEF UploadStore, Go, TypeOK
    <2>2. \A d \in Docs : Undecided(d)' =>
              Reviewer(d, t)' \/ (Undecided(d) /\ ~Reviewer(d, t))
        BY <1>6, <2>1 DEF UploadStore, Undecided, Reviewer, Status, TypeOK, Thread
    <2> QED BY <2>1, <2>2, ReviewFrame
<1>7. ASSUME NEW t \in Threads, UploadSave(t)
      PROVE  AcceptedIsReviewed'
    <2>1. Others(t) /\ Lucky /\ UNCHANGED doc
        BY <1>7 DEF UploadSave, Go, TypeOK
    <2>2. ASSUME NEW d \in Docs, Undecided(d)'
          PROVE  Undecided(d) /\ ~Reviewer(d, t)
        <3>1. ItemOf[d] # th[t].item /\ Status(ItemOf[d])' = Status(ItemOf[d])
            BY <1>7, <2>2, WriteStatus DEF UploadSave, SaveByRecipient, Undecided
        <3>2. Undecided(d)
            BY <2>1, <2>2, <3>1 DEF Undecided
        <3>3. ~Reviewer(d, t)
            BY <1>7, <3>1 DEF UploadSave, HoldsFile, Holding, Reviewer
        <3> QED BY <3>2, <3>3
    <2> QED BY <2>1, <2>2, ReviewFrame
<1>8. ASSUME NEW t \in Threads, ExtraCommit(t)
      PROVE  AcceptedIsReviewed'
    <2>1. Others(t) /\ Lucky
        BY <1>8 DEF ExtraCommit, Done, TypeOK
    <2>2. /\ th[t].item = ItemOf[th[t].doc]
          /\ th[t].doc \in Docs
          /\ doc' = [doc EXCEPT ![th[t].doc] = "uploaded"]
          /\ WriteItem(th[t].item, [status |-> "dostarczony", naAccepted |-> FALSE])
          /\ th[t].pc \in {"extra_mailing", "extra_saved"}
        BY <1>8 DEF ExtraCommit, HoldsFile, Holding
    <2>3. ASSUME NEW d \in Docs, Undecided(d)'
          PROVE  Undecided(d) /\ ~Reviewer(d, t)
        <3>1. ItemOf[d] # th[t].item /\ Status(ItemOf[d])' = Status(ItemOf[d])
            BY <2>2, <2>3, WriteStatus DEF Undecided
        <3>2. doc'[d] = doc[d]
            BY <2>2, <3>1 DEF TypeOK
        <3> QED BY <2>2, <2>3, <3>1, <3>2 DEF Undecided, Reviewer
    <2> QED BY <2>1, <2>3, ReviewFrame
<1>9. ASSUME NEW t \in Threads, AcceptNotApplicable(t)
      PROVE  AcceptedIsReviewed'
    <2>1. Others(t) /\ Lucky /\ UNCHANGED doc /\ th[t].pc = "accept"
        BY <1>9 DEF AcceptNotApplicable, TypeOK
    <2>2. ASSUME NEW j \in Items
          PROVE  Status(j)' = Status(j)
        BY <1>9, WriteStatus DEF AcceptNotApplicable, Status, TypeOK
    <2> QED BY <2>1, <2>2, ReviewFrame DEF Undecided, Reviewer
<1>10. ASSUME NEW t \in Threads, AcceptSave(t)
       PROVE  AcceptedIsReviewed'
    <2>1. PICK w \in th[t].todo :
              /\ SaveBySender(w.item, [item[w.item] EXCEPT !.status = "zaakceptowany"])
              /\ th' = [th EXCEPT ![t] = [th[t] EXCEPT !.pc = "accept_docs", !.item = w.item,
                                                         !.todo = @ \ {w}]]
        BY <1>10 DEF AcceptSave
    <2>2. Others(t) /\ Lucky /\ UNCHANGED doc /\ th[t].pc = "accept"
        BY <1>10, <2>1 DEF AcceptSave, TypeOK
    <2>3. th'[t].pc = "accept_docs" /\ th'[t].item = w.item
        BY <2>1 DEF TypeOK, Thread
    <2>4. ASSUME NEW d \in Docs, Undecided(d)'
          PROVE  Reviewer(d, t)' \/ (Undecided(d) /\ ~Reviewer(d, t))
        <3>1. CASE ItemOf[d] = w.item
            BY <2>3, <3>1 DEF Reviewer
        <3>2. CASE ItemOf[d] # w.item
            <4>1. Status(ItemOf[d])' = Status(ItemOf[d])
                BY <2>1, <3>2, WriteStatus DEF SaveBySender
            <4> QED BY <2>2, <2>4, <4>1 DEF Undecided, Reviewer
        <3> QED BY <3>1, <3>2
    <2> QED BY <2>2, <2>4, ReviewFrame
<1>11. ASSUME NEW t \in Threads, AcceptDocs(t)
       PROVE  AcceptedIsReviewed'
    <2>1. Others(t) /\ Lucky /\ UNCHANGED item /\ th[t].pc = "accept_docs"
        BY <1>11 DEF AcceptDocs, TypeOK
    <2>2. ASSUME NEW d \in Docs, Undecided(d)'
          PROVE  Undecided(d) /\ ~Reviewer(d, t)
        BY <1>11, <2>1, <2>2 DEF AcceptDocs, DecideFiles, Undecided, Reviewer, Status
    <2> QED BY <2>1, <2>2, ReviewFrame
<1>12. ASSUME NEW t \in Threads, RejectSave(t)
       PROVE  AcceptedIsReviewed'
    <2>1. Others(t) /\ Lucky /\ UNCHANGED doc /\ th[t].pc = "reject"
        BY <1>12 DEF RejectSave, Go, TypeOK
    <2>2. WriteItem(th[t].item, [item[th[t].item] EXCEPT !.status = "odrzucony"])
        BY <1>12 DEF RejectSave, SaveBySender
    <2>3. ASSUME NEW d \in Docs, Undecided(d)'
          PROVE  Undecided(d)
        <3>1. Status(ItemOf[d])' = Status(ItemOf[d])
            BY <2>2, <2>3, WriteStatus DEF Undecided, TypeOK
        <3> QED BY <2>1, <2>3, <3>1 DEF Undecided
    <2> QED BY <2>1, <2>3, ReviewFrame DEF Reviewer
<1>13. ASSUME NEW t \in Threads, RejectDocs(t) \/ DeleteRow(t)
       PROVE  AcceptedIsReviewed'
    <2>1. /\ Others(t) /\ Lucky /\ UNCHANGED item
          /\ th[t].pc \notin {"stored", "accept_docs"}
        BY <1>13 DEF RejectDocs, DeleteRow, Go, Done, TypeOK
    <2>2. \A d \in Docs : doc'[d] = "uploaded" => doc[d] = "uploaded"
        BY <1>13 DEF RejectDocs, DeleteRow, DecideFiles, TypeOK
    <2> QED BY <2>1, <2>2, ReviewFrame DEF Undecided, Reviewer, Status
<1>14. ASSUME NEW t \in Threads, AnswerSave(t) \/ FinalSave(t)
       PROVE  AcceptedIsReviewed'
    <2>1. /\ Others(t) /\ Lucky /\ UNCHANGED doc
          /\ th[t].pc \in SavePcs
        BY <1>14 DEF AnswerSave, FinalSave, Go, Done, TypeOK, SavePcs
    <2>2. WriteItem(th[t].item, Saved(th[t].pc, item[th[t].item]))
        BY <1>14 DEF AnswerSave, FinalSave, SaveByRecipient, SaveBySender
    <2>3. ASSUME NEW d \in Docs, Undecided(d)'
          PROVE  Undecided(d)
        <3>1. CASE ItemOf[d] = th[t].item
            <4>1. item[th[t].item] \in RowType
                BY <3>1 DEF TypeOK, RowType
            <4> QED BY <2>1, <2>2, <2>3, <3>1, <4>1, SavedStatus, WriteStatus
                    DEF Undecided
        <3>2. CASE ItemOf[d] # th[t].item
            <4>1. Status(ItemOf[d])' = Status(ItemOf[d])
                BY <2>2, <3>2, WriteStatus
            <4> QED BY <2>1, <2>3, <4>1 DEF Undecided
        <3> QED BY <3>1, <3>2
    <2>4. th[t].pc \notin {"stored", "accept_docs"}
        BY <2>1 DEF SavePcs
    <2> QED BY <2>1, <2>3, <2>4, ReviewFrame DEF Reviewer
<1>15. ASSUME NEW t \in Threads, Crash(t)
       PROVE  AcceptedIsReviewed'
    <2>1. crashes' # 0
        BY <1>15 DEF Crash, TypeOK
    <2> QED BY <2>1 DEF AcceptedIsReviewed
<1>16. CASE Close \/ Reopen \/ UNCHANGED vars
    BY <1>16 DEF Close, Reopen, vars, AcceptedIsReviewed, Status
<1> QED BY <1>2, <1>3, <1>4, <1>5, <1>6, <1>7, <1>8, <1>9, <1>10, <1>11, <1>12,
           <1>13, <1>14, <1>15, <1>16
        DEF Next, Recipient, Sender, Statement, AcceptBegin, AcceptAllBegin

(* The sender never sees "Zaakceptowany" on an item with a file nobody     *)
(* decided on, unless a worker is about to decide or was killed.           *)
THEOREM AcceptedAreReviewed == Spec => []AcceptedIsReviewed
<1> DEFINE IInv == TypeOK /\ HoldsFile /\ AcceptedIsReviewed
<1>1. Init => IInv
    BY InitType DEF Init, AcceptedIsReviewed
<1>2. IInv /\ [Next]_vars => IInv'
    BY TypeStep, HoldsStep, ReviewStep
<1> QED BY <1>1, <1>2, PTL DEF Spec

-----------------------------------------------------------------------------
(* Closing stops the recipient *)

LEMMA ReadOpenStep ==
    ASSUME TypeOK, ReadOpen, [Next]_vars
    PROVE  ReadOpen'
<1> DEFINE Others(t) == \A u \in Threads \ {t} : th'[u] = th[u]
<1>1. ASSUME NEW t \in Threads, Others(t),
             th'[t].pc \notin SenderPcs \cup {"idle"} => th'[t].openAtRead
      PROVE  ReadOpen'
    BY <1>1 DEF ReadOpen
<1>2. ASSUME NEW t \in Threads, NEW pc, NEW i, NEW d, Begin(t, pc, i, d),
             ~closed \/ pc = "reject"
      PROVE  ReadOpen'
    BY <1>1, <1>2 DEF Begin, TypeOK, SenderPcs
<1>3. ASSUME NEW t \in Threads, NEW pc, Go(t, pc),
             th[t].pc \notin SenderPcs \cup {"idle"} \/ pc \in SenderPcs
      PROVE  ReadOpen'
    <2>1. Others(t) /\ th'[t].pc = pc /\ th'[t].openAtRead = th[t].openAtRead
        BY <1>3 DEF Go, TypeOK, Thread
    <2> QED BY <1>1, <1>3, <2>1 DEF ReadOpen
<1>4. ASSUME NEW t \in Threads, Done(t)
      PROVE  ReadOpen'
    BY <1>1, <1>4, IdleType DEF Done, TypeOK
<1>5. ASSUME NEW t \in Threads, NEW d \in Docs,
             UploadBegin(t, d) \/ DeleteBegin(t, d) \/ ExtraBegin(t, d)
      PROVE  ReadOpen'
    <2>1. CASE UploadBegin(t, d) \/ DeleteBegin(t, d)
        BY <1>2, <2>1 DEF UploadBegin, DeleteBegin
    <2>2. CASE ExtraBegin(t, d)
        BY <1>1, <2>2 DEF ExtraBegin, TypeOK
    <2> QED BY <1>5, <2>1, <2>2
<1>6. ASSUME NEW t \in Threads, NEW i \in Items,
             \/ ConfirmBegin(t, i) \/ UndoConfirmBegin(t, i)
             \/ MarkByRecipientBegin(t, i) \/ UndoByRecipientBegin(t, i)
             \/ MarkByOwnerBegin(t, i) \/ RefuseBegin(t, i) \/ RejectBegin(t, i)
      PROVE  ReadOpen'
    BY <1>2, <1>6
       DEF ConfirmBegin, UndoConfirmBegin, MarkByRecipientBegin,
           UndoByRecipientBegin, MarkByOwnerBegin, RefuseBegin, RejectBegin
<1>7. ASSUME NEW t \in Threads, NEW S, AcceptFetch(t, S)
      PROVE  ReadOpen'
    BY <1>1, <1>7 DEF AcceptFetch, TypeOK, Idle, SenderPcs
<1>8. ASSUME NEW t \in Threads,
             \/ UploadCount(t) \/ UploadCheckDuplicate(t) \/ UploadStore(t)
             \/ UploadSave(t) \/ CompleteCheck(t) \/ CompleteSend(t)
             \/ ExtraCommit(t) \/ RejectSave(t) \/ RejectDocs(t)
             \/ AnswerSave(t) \/ FinalSave(t) \/ DeleteRow(t)
             \/ DeleteCheckEmpty(t) \/ ExtraCheck(t) \/ Crash(t)
      PROVE  ReadOpen'
    BY <1>3, <1>4, <1>8
       DEF UploadCount, UploadCheckDuplicate, UploadStore, UploadSave,
           CompleteCheck, CompleteSend, ExtraCommit, RejectSave, RejectDocs,
           AnswerSave, FinalSave, DeleteRow, DeleteCheckEmpty, ExtraCheck, Crash,
           SenderPcs
<1>9. ASSUME NEW t \in Threads,
             AcceptNotApplicable(t) \/ AcceptSave(t) \/ AcceptDocs(t)
      PROVE  ReadOpen'
    <2>1. Others(t)
        BY <1>9 DEF AcceptNotApplicable, AcceptSave, AcceptDocs, TypeOK
    <2>2. th'[t].pc \in SenderPcs \cup {"idle"}
        <3>1. CASE AcceptNotApplicable(t)
            BY <3>1, IdleType DEF AcceptNotApplicable, SenderPcs, TypeOK, Thread
        <3>2. CASE AcceptSave(t)
            BY <3>2 DEF AcceptSave, SenderPcs, TypeOK, Thread
        <3>3. CASE AcceptDocs(t)
            BY <3>3, IdleType DEF AcceptDocs, SenderPcs, TypeOK, Thread
        <3> QED BY <1>9, <3>1, <3>2, <3>3
    <2> QED BY <1>1, <2>1, <2>2
<1>10. CASE Close \/ Reopen \/ UNCHANGED vars
    BY <1>10 DEF Close, Reopen, vars, ReadOpen
<1> QED BY <1>5, <1>6, <1>7, <1>8, <1>9, <1>10
        DEF Next, Recipient, Sender, Statement, AcceptBegin, AcceptAllBegin

Stopped ==
    \A t \in Threads :
        (closed /\ th'[t] # th[t] /\ <<present, item, doc>>' # <<present, item, doc>>)
            => \/ th[t].openAtRead
               \/ th[t].pc \in {"accept", "accept_docs", "reject", "reject_docs"}

LEMMA StoppedStep ==
    ASSUME TypeOK, ReadOpen, [Next]_vars
    PROVE  Stopped
<1>1. ASSUME NEW t \in Threads, \A u \in Threads \ {t} : th'[u] = th[u],
             \/ UNCHANGED <<present, item, doc>>
             \/ th[t].pc # "idle"
      PROVE  Stopped
    <2>1. th[t].openAtRead \/ th[t].pc \in SenderPcs \/ th[t].pc = "idle"
        BY DEF ReadOpen
    <2> QED BY <1>1, <2>1 DEF Stopped, SenderPcs
<1>2. ASSUME NEW t \in Threads, Recipient(t) \/ Sender(t)
      PROVE  /\ \A u \in Threads \ {t} : th'[u] = th[u]
             /\ UNCHANGED <<present, item, doc>>
    BY <1>2 DEF Recipient, Sender, UploadBegin, DeleteBegin, ExtraBegin,
       ConfirmBegin, UndoConfirmBegin, MarkByRecipientBegin, Begin, AcceptFetch,
       UndoByRecipientBegin, MarkByOwnerBegin, RefuseBegin, RejectBegin,
       AcceptBegin, AcceptAllBegin, TypeOK
<1>3. ASSUME NEW t \in Threads, Statement(t) \/ Crash(t)
      PROVE  /\ \A u \in Threads \ {t} : th'[u] = th[u]
             /\ th[t].pc # "idle"
    <2>1. th[t].pc # "idle"
        BY <1>3 DEF Statement, UploadCount, UploadCheckDuplicate, UploadStore,
           UploadSave, CompleteCheck, CompleteSend, ExtraCheck, ExtraCommit,
           AcceptNotApplicable, AcceptSave, AcceptDocs, RejectSave, RejectDocs,
           AnswerSave, FinalSave, DeleteRow, DeleteCheckEmpty, Crash, SavePcs
    <2>2. \E v : th' = [th EXCEPT ![t] = v]
        <3>1. CASE AcceptNotApplicable(t)
            BY <3>1 DEF AcceptNotApplicable
        <3>2. CASE AcceptSave(t)
            BY <3>2 DEF AcceptSave
        <3>3. CASE AcceptDocs(t)
            BY <3>3 DEF AcceptDocs
        <3>4. CASE \/ UploadCount(t) \/ UploadCheckDuplicate(t) \/ UploadStore(t)
                   \/ UploadSave(t) \/ CompleteCheck(t) \/ CompleteSend(t)
                   \/ ExtraCommit(t) \/ RejectSave(t) \/ RejectDocs(t)
                   \/ AnswerSave(t) \/ FinalSave(t) \/ DeleteRow(t)
                   \/ DeleteCheckEmpty(t) \/ ExtraCheck(t) \/ Crash(t)
            <4>1. Done(t) \/ \E pc : Go(t, pc)
                BY <3>4
                   DEF UploadCount, UploadCheckDuplicate, UploadStore,
                       UploadSave, CompleteCheck, CompleteSend, ExtraCommit,
                       RejectSave, RejectDocs, AnswerSave, FinalSave, DeleteRow,
                       DeleteCheckEmpty, ExtraCheck, Crash
            <4> QED BY <4>1 DEF Done, Go
        <3> QED BY <1>3, <3>1, <3>2, <3>3, <3>4 DEF Statement
    <2> QED BY <2>1, <2>2 DEF TypeOK
<1>4. ASSUME Close \/ Reopen \/ UNCHANGED vars
      PROVE  Stopped
    BY <1>4 DEF Close, Reopen, vars, Stopped
<1>5. ASSUME NEW t \in Threads, Recipient(t) \/ Sender(t) \/ Statement(t) \/ Crash(t)
      PROVE  Stopped
    BY <1>1, <1>2, <1>3, <1>5
<1> QED BY <1>4, <1>5 DEF Next

(* After close only the sender and those who were already inside change    *)
(* anything.                                                               *)
THEOREM ClosingStops == Spec => ClosedStopsRecipient
<1> DEFINE IInv == TypeOK /\ HoldsFile /\ ReadOpen
<1>1. Init => IInv
    BY InitType, IdleType DEF Init, ReadOpen
<1>2. IInv /\ [Next]_vars => IInv'
    BY TypeStep, HoldsStep, ReadOpenStep
<1>3. IInv /\ [Next]_vars => [Stopped]_vars
    BY StoppedStep
<1> QED BY <1>1, <1>2, <1>3, PTL DEF Spec, ClosedStopsRecipient, Stopped

-----------------------------------------------------------------------------
(* The "komplet" email *)

\* A worker that is about to look, or to send.
InCharge(t) == th[t].pc \in {"saved", "mailing"}

LEMMA CompleteStays ==
    ASSUME TypeOK, NEW i, NEW new, WriteItem(i, new), Complete(present, item),
           new.status \in Delivered, UNCHANGED present
    PROVE  Complete(present, item)'
BY DEF WriteItem, Complete, TypeOK

(* One worker moves.  If an email is still owed, the worker in charge is   *)
(* another one, or it is this one and remains so.                          *)
LEMMA EmailFrame ==
    ASSUME CompleteEmailNotForgotten, NEW t \in Threads,
           \A u \in Threads \ {t} : th'[u] = th[u],
           crashes' = 0 => crashes = 0,
           owed' => InCharge(t)' \/ (owed /\ ~InCharge(t))
    PROVE  CompleteEmailNotForgotten'
BY DEF CompleteEmailNotForgotten, InCharge

LEMMA EmailStep ==
    ASSUME TypeOK, HoldsFile, OwedIsDue, CompleteEmailNotForgotten, [Next]_vars
    PROVE  OwedIsDue' /\ CompleteEmailNotForgotten'
<1> USE ConstantsAssumption
<1> DEFINE Others(t) == \A u \in Threads \ {t} : th'[u] = th[u]
           Lucky == crashes' = 0 => crashes = 0
<1>1. ASSUME NEW t \in Threads, Others(t), Lucky, ~InCharge(t),
             UNCHANGED <<present, item, completeSent, owed>>
      PROVE  OwedIsDue' /\ CompleteEmailNotForgotten'
    BY <1>1, EmailFrame DEF OwedIsDue, Complete
<1>2. ASSUME NEW t \in Threads, Recipient(t) \/ Sender(t)
      PROVE  OwedIsDue' /\ CompleteEmailNotForgotten'
    <2>1. /\ Others(t) /\ Lucky /\ ~InCharge(t)
          /\ UNCHANGED <<present, item, completeSent, owed>>
        BY <1>2 DEF Recipient, Sender, UploadBegin, DeleteBegin, ExtraBegin,
           ConfirmBegin, UndoConfirmBegin, MarkByRecipientBegin, Begin,
           AcceptFetch, UndoByRecipientBegin, MarkByOwnerBegin, RefuseBegin,
           RejectBegin, AcceptBegin, AcceptAllBegin, TypeOK, InCharge
    <2> QED BY <1>1, <2>1
<1>3. ASSUME NEW t \in Threads,
             \/ UploadCount(t) \/ UploadCheckDuplicate(t) \/ UploadStore(t)
             \/ RejectDocs(t) \/ DeleteRow(t) \/ DeleteCheckEmpty(t) \/ ExtraCheck(t)
      PROVE  OwedIsDue' /\ CompleteEmailNotForgotten'
    BY <1>1, <1>3
       DEF UploadCount, UploadCheckDuplicate, UploadStore, RejectDocs,
           DeleteRow, DeleteCheckEmpty, ExtraCheck, Go, Done, TypeOK, InCharge
<1>4. ASSUME NEW t \in Threads, AcceptDocs(t)
      PROVE  OwedIsDue' /\ CompleteEmailNotForgotten'
    BY <1>1, <1>4 DEF AcceptDocs, TypeOK, InCharge
<1>5. ASSUME NEW t \in Threads, UploadSave(t) \/ AnswerSave(t)
      PROVE  OwedIsDue' /\ CompleteEmailNotForgotten'
    <2>1. Others(t) /\ Lucky /\ InCharge(t)'
        BY <1>5 DEF UploadSave, AnswerSave, Go, TypeOK, Thread, InCharge
    <2>2. OwedIsDue'
        BY <1>5 DEF UploadSave, AnswerSave, SaveByRecipient, OwedIsDue, Complete
    <2> QED BY <2>1, <2>2, EmailFrame
<1>6. ASSUME NEW t \in Threads, CompleteCheck(t)
      PROVE  OwedIsDue' /\ CompleteEmailNotForgotten'
    <2>1. Others(t) /\ Lucky /\ UNCHANGED <<present, item, completeSent, owed>>
        BY <1>6 DEF CompleteCheck, Go, Done, TypeOK
    <2>2. owed => InCharge(t)'
        <3>1. owed => Go(t, "mailing")
            BY <1>6 DEF CompleteCheck, OwedIsDue
        <3> QED BY <3>1 DEF Go, TypeOK, Thread, InCharge
    <2> QED BY <2>1, <2>2, EmailFrame DEF OwedIsDue, Complete
<1>7. ASSUME NEW t \in Threads, CompleteSend(t)
      PROVE  OwedIsDue' /\ CompleteEmailNotForgotten'
    BY <1>7 DEF CompleteSend, OwedIsDue, CompleteEmailNotForgotten
<1>8. ASSUME NEW t \in Threads, ExtraCommit(t)
      PROVE  OwedIsDue' /\ CompleteEmailNotForgotten'
    <2>1. Others(t) /\ Lucky /\ ~InCharge(t)
        BY <1>8 DEF ExtraCommit, Done, TypeOK, InCharge
    <2>2. owed => Complete(present', item')
        <3>1. present' = present \cup {th[t].item} /\ th[t].item \in Items
            BY <1>8 DEF ExtraCommit, HoldsFile, Holding
        <3>2. item' = [item EXCEPT ![th[t].item] =
                          [status |-> "dostarczony", naAccepted |-> FALSE]]
            BY <1>8 DEF ExtraCommit, WriteItem
        <3>3. \A i \in Items : item'[i].status =
                  IF i = th[t].item THEN "dostarczony" ELSE item[i].status
            BY <3>1, <3>2 DEF TypeOK
        <3>4. present \subseteq Items
            BY DEF TypeOK
        <3>5. owed => \A i \in present : item[i].status \in Delivered
            BY DEF OwedIsDue, Complete
        <3>6. ASSUME NEW i \in present', owed
              PROVE  item'[i].status \in Delivered
            <4>1. CASE i = th[t].item
                BY <3>1, <3>3, <4>1 DEF Delivered
            <4>2. CASE i # th[t].item
                <5>1. i \in present /\ i \in Items
                    BY <3>1, <3>4, <3>6, <4>2
                <5> QED BY <3>3, <3>5, <3>6, <4>2, <5>1
            <4> QED BY <4>1, <4>2
        <3> QED BY <3>6 DEF Complete
    <2>3. owed' => owed /\ completeSent' = completeSent
        BY <1>8 DEF ExtraCommit
    <2>4. OwedIsDue'
        BY <2>2, <2>3 DEF OwedIsDue, Complete
    <2> QED BY <2>1, <2>3, <2>4, EmailFrame
<1>9. ASSUME NEW t \in Threads, AcceptNotApplicable(t)
      PROVE  OwedIsDue' /\ CompleteEmailNotForgotten'
    <2>1. Others(t) /\ Lucky /\ ~InCharge(t) /\ UNCHANGED <<present, completeSent, owed>>
        BY <1>9 DEF AcceptNotApplicable, TypeOK, InCharge
    <2>2. \A j \in Items : item'[j].status = item[j].status
        BY <1>9, WriteStatus DEF AcceptNotApplicable, Status, TypeOK
    <2>3. OwedIsDue'
        BY <2>1, <2>2 DEF OwedIsDue, Complete, TypeOK
    <2> QED BY <2>1, <2>3, EmailFrame
<1>10. ASSUME NEW t \in Threads, AcceptSave(t) \/ RejectSave(t) \/ FinalSave(t)
       PROVE  OwedIsDue' /\ CompleteEmailNotForgotten'
    <2>1. PICK i, new : SaveBySender(i, new)
        BY <1>10 DEF AcceptSave, RejectSave, FinalSave
    <2>2. Others(t)
        <3>1. CASE AcceptSave(t)
            BY <3>1 DEF AcceptSave, TypeOK
        <3>2. CASE RejectSave(t) \/ FinalSave(t)
            BY <3>2 DEF RejectSave, FinalSave, Go, Done, TypeOK
        <3> QED BY <1>10, <3>1, <3>2
    <2>3. Lucky /\ ~InCharge(t) /\ UNCHANGED <<present, completeSent>>
        BY <1>10 DEF AcceptSave, RejectSave, FinalSave, InCharge, SavePcs
    <2>4. OwedIsDue'
        BY <2>1, <2>3 DEF SaveBySender, OwedIsDue, Complete
    <2>5. owed' => owed
        BY <2>1 DEF SaveBySender
    <2> QED BY <2>2, <2>3, <2>4, <2>5, EmailFrame
<1>11. ASSUME NEW t \in Threads, Crash(t)
       PROVE  OwedIsDue' /\ CompleteEmailNotForgotten'
    <2>1. crashes' # 0
        BY <1>11 DEF Crash, TypeOK
    <2> QED BY <1>11, <2>1
            DEF Crash, OwedIsDue, Complete, CompleteEmailNotForgotten
<1>12. CASE Close \/ Reopen \/ UNCHANGED vars
    BY <1>12 DEF Close, Reopen, vars, OwedIsDue, Complete, CompleteEmailNotForgotten
<1> QED BY <1>2, <1>3, <1>4, <1>5, <1>6, <1>7, <1>8, <1>9, <1>10, <1>11, <1>12
        DEF Next, Statement

(* A recipient who completes the request is not forgotten: somebody is     *)
(* about to send the email.                                                *)
THEOREM EmailNotForgotten == Spec => []CompleteEmailNotForgotten
<1> DEFINE IInv == TypeOK /\ HoldsFile /\ OwedIsDue /\ CompleteEmailNotForgotten
<1>1. Init => IInv
    BY InitType DEF Init, OwedIsDue, CompleteEmailNotForgotten
<1>2. IInv /\ [Next]_vars => IInv'
    BY TypeStep, HoldsStep, EmailStep
<1> QED BY <1>1, <1>2, PTL DEF Spec

LEMMA MailingFits ==
    ASSUME NEW S \in SUBSET Threads
    PROVE  /\ IsFiniteSet(S)
           /\ Cardinality(S) \in Nat
           /\ Cardinality(S) <= Cardinality(Threads)
           /\ \A R \in SUBSET S : Cardinality(R) <= Cardinality(S)
           /\ \A t \in S : Cardinality(S \ {t}) = Cardinality(S) - 1
           /\ \A t \in Threads \ S : Cardinality(S) < Cardinality(Threads)
<1>1. IsFiniteSet(Threads) /\ Cardinality(Threads) \in Nat
    BY ConstantsAssumption, FS_CardinalityType
<1>2. IsFiniteSet(S) /\ Cardinality(S) <= Cardinality(Threads)
    BY <1>1, FS_Subset
<1>3. Cardinality(S) \in Nat
    BY <1>2, FS_CardinalityType
<1>4. \A R \in SUBSET S : Cardinality(R) <= Cardinality(S)
    BY <1>2, FS_Subset
<1>5. \A t \in S : Cardinality(S \ {t}) = Cardinality(S) - 1
    BY <1>2, FS_RemoveElement
<1>6. ASSUME NEW t \in Threads \ S
      PROVE  Cardinality(S) < Cardinality(Threads)
    <2>1. Cardinality(S) # Cardinality(Threads)
        BY <1>1, FS_Subset
    <2> QED BY <1>1, <1>2, <1>3, <2>1
<1> QED BY <1>2, <1>3, <1>4, <1>5, <1>6

LEMMA MailingStep ==
    ASSUME TypeOK, MailingBounded, [Next]_vars
    PROVE  MailingBounded'
<1> DEFINE MailingPcs == {"mailing", "extra_mailing"}
<1>1. /\ Mailing \in SUBSET Threads
      /\ Cardinality(Mailing) \in Nat
      /\ Mailing' \in SUBSET Threads
      /\ Cardinality(Mailing') \in Nat
      /\ Cardinality(Threads) \in Nat
      /\ completeSent \in Nat
    BY MailingFits DEF Mailing, TypeOK
<1>2. ASSUME completeSent' = completeSent, Mailing' \subseteq Mailing
      PROVE  MailingBounded'
    <2>1. Cardinality(Mailing') <= Cardinality(Mailing)
        BY <1>1, <1>2, MailingFits
    <2> QED BY <1>1, <1>2, <2>1 DEF MailingBounded
<1>3. ASSUME NEW t \in Threads, CompleteCheck(t) \/ ExtraCheck(t)
      PROVE  MailingBounded'
    <2>1. completeSent' = completeSent
        BY <1>3 DEF CompleteCheck, ExtraCheck
    <2>2. CASE completeSent = 0
        BY <1>1, <2>1, <2>2, MailingFits DEF MailingBounded
    <2>3. CASE completeSent # 0
        <3>1. Done(t) \/ Go(t, "extra_saved")
            BY <1>3, <2>3 DEF CompleteCheck, ExtraCheck
        <3>2. Mailing' \subseteq Mailing
            BY <3>1, IdleType DEF Done, Go, Mailing, TypeOK, Thread
        <3> QED BY <1>2, <2>1, <3>2
    <2> QED BY <2>2, <2>3
<1>4. ASSUME NEW t \in Threads, t \in Mailing, Done(t),
             \E sent \in {0, 1} : completeSent' = completeSent + sent
      PROVE  MailingBounded'
    <2>1. Mailing' = Mailing \ {t}
        BY <1>4, IdleType DEF Done, Mailing, TypeOK
    <2>2. Cardinality(Mailing') = Cardinality(Mailing) - 1
        BY <1>1, <1>4, <2>1, MailingFits
    <2>3. PICK sent \in {0, 1} : completeSent' = completeSent + sent
        BY <1>4
    <2> QED BY <1>1, <2>2, <2>3 DEF MailingBounded
<1>5. ASSUME NEW t \in Threads, CompleteSend(t) \/ ExtraCommit(t)
      PROVE  MailingBounded'
    <2>1. CASE th[t].pc \in {"mailing", "extra_mailing"}
        BY <1>4, <1>5, <2>1 DEF CompleteSend, ExtraCommit, Mailing
    <2>2. CASE th[t].pc \notin {"mailing", "extra_mailing"}
        <3>1. Done(t) /\ completeSent' = completeSent
            BY <1>5, <2>2 DEF CompleteSend, ExtraCommit
        <3>2. Mailing' \subseteq Mailing
            BY <3>1, IdleType DEF Done, Mailing, TypeOK
        <3> QED BY <1>2, <3>1, <3>2
    <2> QED BY <2>1, <2>2
<1>6. ASSUME NEW t \in Threads, Recipient(t) \/ Sender(t)
      PROVE  MailingBounded'
    <2>1. completeSent' = completeSent
        BY <1>6 DEF Recipient, Sender, UploadBegin, DeleteBegin, ExtraBegin,
           ConfirmBegin, UndoConfirmBegin, MarkByRecipientBegin, Begin,
           AcceptFetch, UndoByRecipientBegin, MarkByOwnerBegin, RefuseBegin,
           RejectBegin, AcceptBegin, AcceptAllBegin
    <2>2. \A u \in Threads : th'[u] = th[u] \/ th'[u].pc \notin MailingPcs
        <3>1. ASSUME NEW pc, NEW i, NEW d, pc \notin MailingPcs, Begin(t, pc, i, d)
              PROVE  \A u \in Threads : th'[u] = th[u] \/ th'[u].pc \notin MailingPcs
            BY <3>1 DEF Begin, TypeOK, Thread
        <3>2. ASSUME NEW d \in Docs, ExtraBegin(t, d)
              PROVE  \A u \in Threads : th'[u] = th[u] \/ th'[u].pc \notin MailingPcs
            BY <3>2 DEF ExtraBegin, TypeOK, Thread
        <3>3. ASSUME NEW S, AcceptFetch(t, S)
              PROVE  \A u \in Threads : th'[u] = th[u] \/ th'[u].pc \notin MailingPcs
            BY <3>3 DEF AcceptFetch, TypeOK, Idle
        <3> QED BY <1>6, <3>1, <3>2, <3>3
                DEF Recipient, Sender, UploadBegin, DeleteBegin, ConfirmBegin,
                    UndoConfirmBegin, MarkByRecipientBegin,
                    UndoByRecipientBegin, MarkByOwnerBegin, RefuseBegin,
                    RejectBegin, AcceptBegin, AcceptAllBegin
    <2>3. Mailing' \subseteq Mailing
        BY <2>2 DEF Mailing
    <2> QED BY <1>2, <2>1, <2>3
<1>7. ASSUME NEW t \in Threads,
             \/ UploadCount(t) \/ UploadCheckDuplicate(t) \/ UploadStore(t)
             \/ UploadSave(t) \/ RejectSave(t) \/ RejectDocs(t)
             \/ AnswerSave(t) \/ FinalSave(t) \/ DeleteRow(t)
             \/ DeleteCheckEmpty(t) \/ Crash(t)
      PROVE  MailingBounded'
    <2>1. \/ Done(t)
          \/ \E pc : pc \notin MailingPcs /\ Go(t, pc)
        BY <1>7
           DEF UploadCount, UploadCheckDuplicate, UploadStore, UploadSave,
               RejectSave, RejectDocs, AnswerSave, FinalSave, DeleteRow,
               DeleteCheckEmpty, Crash
    <2>2. Mailing' \subseteq Mailing
        <3>1. CASE Done(t)
            BY <3>1 DEF Done, Idle, Mailing, TypeOK
        <3>2. ASSUME NEW pc, pc \notin MailingPcs, Go(t, pc)
              PROVE  Mailing' \subseteq Mailing
            <4>1. \A u \in Threads : th'[u].pc = IF u = t THEN pc ELSE th[u].pc
                BY <3>2 DEF Go, TypeOK, Thread
            <4> QED BY <3>2, <4>1 DEF Mailing
        <3> QED BY <2>1, <3>1, <3>2
    <2>3. completeSent' = completeSent
        BY <1>7
           DEF UploadCount, UploadCheckDuplicate, UploadStore, UploadSave,
               RejectSave, RejectDocs, AnswerSave, FinalSave, DeleteRow,
               DeleteCheckEmpty, Crash
    <2> QED BY <1>2, <2>2, <2>3
<1>8. ASSUME NEW t \in Threads,
             AcceptNotApplicable(t) \/ AcceptSave(t) \/ AcceptDocs(t)
      PROVE  MailingBounded'
    <2>1. completeSent' = completeSent
        BY <1>8 DEF AcceptNotApplicable, AcceptSave, AcceptDocs
    <2>2. Mailing' \subseteq Mailing
        <3>1. CASE AcceptNotApplicable(t)
            BY <3>1, IdleType DEF AcceptNotApplicable, Mailing, TypeOK, Thread
        <3>2. CASE AcceptSave(t)
            BY <3>2 DEF AcceptSave, Mailing, TypeOK, Thread
        <3>3. CASE AcceptDocs(t)
            BY <3>3, IdleType DEF AcceptDocs, Mailing, TypeOK, Thread
        <3> QED BY <1>8, <3>1, <3>2, <3>3
    <2> QED BY <1>2, <2>1, <2>2
<1>9. ASSUME Close \/ Reopen \/ UNCHANGED vars
      PROVE  MailingBounded'
    BY <1>9 DEF Close, Reopen, vars, MailingBounded, Mailing
<1> QED BY <1>3, <1>4, <1>5, <1>6, <1>7, <1>8, <1>9 DEF Next, Statement

(* However many workers race, no more "komplet" emails than workers.       *)
THEOREM EmailsBounded == Spec => []CompleteEmailsBounded
<1> DEFINE IInv == TypeOK /\ HoldsFile /\ MailingBounded
<1>1. Init => IInv
    <2>1. ASSUME Init
          PROVE  completeSent = 0 /\ Mailing \in SUBSET Threads
        BY <2>1 DEF Init, Mailing
    <2>2. ASSUME Init
          PROVE  MailingBounded
        BY <2>1, <2>2, MailingFits DEF MailingBounded
    <2> QED BY <2>2, InitType
<1>2. IInv /\ [Next]_vars => IInv'
    BY TypeStep, HoldsStep, MailingStep
<1>3. IInv => CompleteEmailsBounded
    <2>1. Mailing \in SUBSET Threads /\ Threads \in SUBSET Threads
        BY DEF Mailing
    <2>2. Cardinality(Mailing) \in Nat /\ Cardinality(Threads) \in Nat
        BY <2>1, MailingFits
    <2> QED BY <2>2 DEF MailingBounded, CompleteEmailsBounded, TypeOK
<1> QED BY <1>1, <1>2, <1>3, PTL DEF Spec

-----------------------------------------------------------------------------
(* Files within the limit, but for one for each other worker *)

\* Past the count, and before the row.
Past == {"counted", "unique"}

Uploading(i) == {t \in Threads : th[t].pc \in Past /\ th[t].item = i}

FilesRoom ==
    \A i \in Items :
        Cardinality(Files(i)) + Cardinality(Uploading(i)) <= MaxFiles + Cardinality(Threads) - 1

\* The files there are, and those being worked on, are for items that exist.
Placed == Holding \ ExtraPcs

FilesPlaced ==
    /\ \A d \in Docs : doc[d] # "none" => ItemOf[d] \in present
    /\ \A t \in Threads : th[t].pc \in Placed => th[t].item \in present

\* An extra item comes with its first file, added by one worker.
ExtraNew ==
    \A t \in Threads : th[t].pc \in ExtraPcs =>
        /\ th[t].item \in Items \ present
        /\ \A u \in Threads \ {t} : th[u].pc \in ExtraPcs => th[u].item # th[t].item

\* The step puts no worker past the count, nor a file there.
Settles ==
    /\ \A u \in Threads : th'[u] = th[u] \/ th'[u].pc \notin Past
    /\ \A d \in Docs : doc'[d] # "none" => doc[d] # "none"

\* ... nor a worker to a file, or to a new item.
Plain ==
    /\ Settles
    /\ present' = present
    /\ \A u \in Threads :
          \/ th'[u].pc \notin Holding
          \/ th'[u] = th[u]
          \/ th'[u].item = th[u].item /\ th[u].pc \in Placed /\ th'[u].pc \in Placed
          \/ th'[u].item = th[u].item /\ th[u].pc \in ExtraPcs /\ th'[u].pc \in ExtraPcs
          \/ th'[u].item \in present /\ th'[u].pc \in Placed

LEMMA BeginPlain ==
    ASSUME TypeOK, NEW t \in Threads, NEW pc, NEW i, NEW d, Begin(t, pc, i, d),
           pc \notin Past \cup ExtraPcs
    PROVE  Plain
<1>1. /\ i \in present /\ doc' = doc /\ present' = present
      /\ th'[t].pc = pc /\ th'[t].item = i
      /\ \A u \in Threads : u # t => th'[u] = th[u]
    BY DEF Begin, TypeOK
<1> QED BY <1>1 DEF Plain, Settles, Placed

LEMMA GoPlain ==
    ASSUME TypeOK, NEW t \in Threads, NEW pc, Go(t, pc), pc \notin Past \cup ExtraPcs,
           pc \in Holding => th[t].pc \in Placed,
           present' = present, \A d \in Docs : doc'[d] # "none" => doc[d] # "none"
    PROVE  Plain
<1>1. /\ th'[t].pc = pc /\ th'[t].item = th[t].item
      /\ \A u \in Threads : u # t => th'[u] = th[u]
    BY DEF Go, TypeOK, Thread
<1> QED BY <1>1 DEF Plain, Settles, Placed

LEMMA DonePlain ==
    ASSUME TypeOK, NEW t \in Threads, Done(t),
           present' = present, \A d \in Docs : doc'[d] # "none" => doc[d] # "none"
    PROVE  Plain
<1>1. th'[t].pc = "idle" /\ \A u \in Threads : u # t => th'[u] = th[u]
    BY IdleType DEF Done, TypeOK
<1> QED BY <1>1 DEF Plain, Settles, Placed, Holding, Past

(* All but starting an extra document, counting, storing and adding.       *)
LEMMA PlainStep ==
    ASSUME TypeOK, [Next]_vars
    PROVE  \/ Plain
           \/ \E t \in Threads : \/ \E d \in Docs : ExtraBegin(t, d)
                                 \/ UploadCount(t) /\ ~Done(t)
                                 \/ UploadCheckDuplicate(t) /\ ~Done(t)
                                 \/ UploadStore(t) \/ ExtraCommit(t)
<1>1. ASSUME NEW t \in Threads, NEW d \in Docs, UploadBegin(t, d) \/ DeleteBegin(t, d)
      PROVE  Plain
    BY <1>1, BeginPlain DEF UploadBegin, DeleteBegin, Past, ExtraPcs
<1>2. ASSUME NEW t \in Threads, NEW i \in Items,
             \/ ConfirmBegin(t, i) \/ UndoConfirmBegin(t, i)
             \/ MarkByRecipientBegin(t, i) \/ UndoByRecipientBegin(t, i)
             \/ MarkByOwnerBegin(t, i) \/ RefuseBegin(t, i) \/ RejectBegin(t, i)
      PROVE  Plain
    BY <1>2, BeginPlain
       DEF ConfirmBegin, UndoConfirmBegin, MarkByRecipientBegin, Past, ExtraPcs,
           UndoByRecipientBegin, MarkByOwnerBegin, RefuseBegin, RejectBegin
<1>3. ASSUME NEW t \in Threads, NEW S, AcceptFetch(t, S)
      PROVE  Plain
    <2>1. /\ th'[t].pc = "accept" /\ doc' = doc /\ present' = present
          /\ \A u \in Threads : u # t => th'[u] = th[u]
        BY <1>3, IdleType DEF AcceptFetch, TypeOK, Idle
    <2> QED BY <2>1 DEF Plain, Settles, Placed, Holding, Past
<1>4. ASSUME NEW t \in Threads,
             \/ UploadSave(t) \/ RejectSave(t) \/ AnswerSave(t) \/ DeleteRow(t)
      PROVE  Plain
    <2>1. \A d \in Docs : doc'[d] # "none" => doc[d] # "none"
        BY <1>4 DEF UploadSave, RejectSave, AnswerSave, DeleteRow, TypeOK
    <2> QED BY <1>4, <2>1, GoPlain
            DEF UploadSave, RejectSave, AnswerSave, DeleteRow, Past, Holding, Placed, ExtraPcs
<1>5. ASSUME NEW t \in Threads,
             \/ CompleteCheck(t) \/ CompleteSend(t) \/ FinalSave(t) \/ DeleteCheckEmpty(t)
             \/ Crash(t)
             \/ UploadCount(t) /\ Done(t)
             \/ UploadCheckDuplicate(t) /\ Done(t)
      PROVE  Plain
    <2>1. doc' = doc /\ present' = present
        BY <1>5 DEF CompleteCheck, CompleteSend, FinalSave, DeleteCheckEmpty, Crash,
           UploadCount, UploadCheckDuplicate
    <2>2. Done(t) \/ Go(t, "mailing") \/ Go(t, "revert")
        BY <1>5 DEF CompleteCheck, CompleteSend, FinalSave, DeleteCheckEmpty, Crash
    <2> QED BY <2>1, <2>2, GoPlain, DonePlain DEF Past, Holding, ExtraPcs
<1>13. ASSUME NEW t \in Threads, ExtraCheck(t)
       PROVE  Plain
    <2>1. doc' = doc /\ present' = present /\ th[t].pc = "extra"
        BY <1>13 DEF ExtraCheck
    <2>2. /\ th'[t].pc \in {"extra_mailing", "extra_saved"} /\ th'[t].item = th[t].item
          /\ \A u \in Threads : u # t => th'[u] = th[u]
        BY <1>13 DEF ExtraCheck, Go, TypeOK, Thread
    <2> QED BY <2>1, <2>2 DEF Plain, Settles, Past, ExtraPcs
<1>6. ASSUME NEW t \in Threads, RejectDocs(t)
      PROVE  Plain
    <2>1. \A d \in Docs : doc'[d] # "none" => doc[d] # "none"
        BY <1>6 DEF RejectDocs, DecideFiles
    <2> QED BY <1>6, <2>1, DonePlain DEF RejectDocs
<1>7. ASSUME NEW t \in Threads, AcceptNotApplicable(t) \/ AcceptSave(t) \/ AcceptDocs(t)
      PROVE  Plain
    <2>1. \A d \in Docs : doc'[d] # "none" => doc[d] # "none"
        BY <1>7 DEF AcceptNotApplicable, AcceptSave, AcceptDocs, DecideFiles
    <2>2. /\ th'[t].pc \in {"idle", "accept", "accept_docs"}
          /\ \A u \in Threads : u # t => th'[u] = th[u]
        <3>1. CASE AcceptNotApplicable(t)
            BY <3>1, IdleType DEF AcceptNotApplicable, TypeOK, Thread
        <3>2. CASE AcceptSave(t)
            BY <3>2 DEF AcceptSave, TypeOK, Thread
        <3>3. CASE AcceptDocs(t)
            BY <3>3, IdleType DEF AcceptDocs, TypeOK, Thread
        <3> QED BY <1>7, <3>1, <3>2, <3>3
    <2>3. present' = present
        BY <1>7 DEF AcceptNotApplicable, AcceptSave, AcceptDocs
    <2> QED BY <2>1, <2>2, <2>3 DEF Plain, Settles, Holding, Past
<1>8. CASE Close \/ Reopen \/ UNCHANGED vars
    BY <1>8 DEF Close, Reopen, vars, Plain, Settles
<1>9. ASSUME NEW t \in Threads, Recipient(t) \/ Sender(t)
      PROVE  Plain \/ \E d \in Docs : ExtraBegin(t, d)
    BY <1>1, <1>2, <1>3, <1>9 DEF Recipient, Sender, AcceptBegin, AcceptAllBegin
<1>10. ASSUME NEW t \in Threads, Statement(t) \/ Crash(t)
       PROVE  \/ Plain
              \/ UploadCount(t) /\ ~Done(t)
              \/ UploadCheckDuplicate(t) /\ ~Done(t)
              \/ UploadStore(t) \/ ExtraCommit(t)
    <2>1. CASE UploadSave(t) \/ RejectSave(t) \/ AnswerSave(t) \/ DeleteRow(t)
        BY <2>1, <1>4
    <2>2. CASE UploadCount(t)
        BY <2>2, <1>5
    <2>3. CASE UploadCheckDuplicate(t)
        BY <2>3, <1>5
    <2>4. CASE \/ CompleteCheck(t) \/ CompleteSend(t) \/ FinalSave(t)
               \/ DeleteCheckEmpty(t) \/ Crash(t)
        BY <2>4, <1>5
    <2>8. CASE ExtraCheck(t)
        BY <2>8, <1>13
    <2>5. CASE RejectDocs(t)
        BY <2>5, <1>6
    <2>6. CASE AcceptNotApplicable(t) \/ AcceptSave(t) \/ AcceptDocs(t)
        BY <2>6, <1>7
    <2>7. CASE UploadStore(t) \/ ExtraCommit(t)
        BY <2>7
    <2> QED BY <1>10, <2>1, <2>2, <2>3, <2>4, <2>5, <2>6, <2>7, <2>8 DEF Statement
<1>11. CASE Close \/ Reopen \/ UNCHANGED vars
    BY <1>8, <1>11
<1>12. CASE \E t \in Threads : Recipient(t) \/ Sender(t) \/ Statement(t) \/ Crash(t)
    BY <1>9, <1>10, <1>12
<1> QED BY <1>11, <1>12 DEF Next

(* Files and workers stay at items that exist, new items apart.            *)
LEMMA PlacedStep ==
    ASSUME TypeOK, HoldsFile, FilesPlaced, ExtraNew, [Next]_vars
    PROVE  FilesPlaced' /\ ExtraNew'
<1> USE ConstantsAssumption
<1>1. CASE Plain
    <2>1. present' = present /\ \A d \in Docs : doc'[d] # "none" => doc[d] # "none"
        BY <1>1 DEF Plain, Settles
    <2>2. \A t \in Threads : th'[t].pc \in Placed => th'[t].item \in present
        BY <1>1 DEF Plain, FilesPlaced, Placed
    <2>3. \A t \in Threads : th'[t].pc \in ExtraPcs =>
              th[t].pc \in ExtraPcs /\ th'[t].item = th[t].item
        BY <1>1 DEF Plain, Placed, Holding, ExtraPcs
    <2> QED BY <2>1, <2>2, <2>3 DEF FilesPlaced, ExtraNew
<1>2. ASSUME NEW t \in Threads, NEW d \in Docs, ExtraBegin(t, d)
      PROVE  FilesPlaced' /\ ExtraNew'
    <2>1. /\ th'[t].pc = "extra" /\ th'[t].item = ItemOf[d] /\ ItemOf[d] \in Items \ present
          /\ \A u \in Threads : u # t => th'[u] = th[u] /\ th[u].item # ItemOf[d]
          /\ present' = present /\ doc' = doc
        BY <1>2 DEF ExtraBegin, TypeOK
    <2> QED BY <2>1 DEF FilesPlaced, ExtraNew, Placed, ExtraPcs
<1>3. ASSUME NEW t \in Threads, NEW pc \in Past, th[t].pc \in Placed, Go(t, pc),
             present' = present, doc' = doc
      PROVE  FilesPlaced' /\ ExtraNew'
    <2>1. /\ th'[t].pc = pc /\ th'[t].item = th[t].item
          /\ \A u \in Threads : u # t => th'[u] = th[u]
        BY <1>3 DEF Go, TypeOK, Thread
    <2> QED BY <1>3, <2>1 DEF FilesPlaced, ExtraNew, Past, ExtraPcs
<1>4. ASSUME NEW t \in Threads, UploadStore(t)
      PROVE  FilesPlaced' /\ ExtraNew'
    <2>1. /\ th'[t].pc = "stored" /\ th'[t].item = th[t].item
          /\ \A u \in Threads : u # t => th'[u] = th[u]
        BY <1>4 DEF UploadStore, Go, TypeOK, Thread
    <2>2. th[t].item \in present /\ th[t].item = ItemOf[th[t].doc]
        BY <1>4 DEF UploadStore, FilesPlaced, Placed, HoldsFile, Holding, ExtraPcs
    <2>3. present' = present /\ \A d \in Docs : d # th[t].doc => doc'[d] = doc[d]
        BY <1>4 DEF UploadStore, TypeOK
    <2> QED BY <2>1, <2>2, <2>3 DEF FilesPlaced, ExtraNew, ExtraPcs
<1>5. ASSUME NEW t \in Threads, ExtraCommit(t)
      PROVE  FilesPlaced' /\ ExtraNew'
    <2>1. /\ th'[t].pc = "idle"
          /\ \A u \in Threads : u # t => th'[u] = th[u]
        BY <1>5, IdleType DEF ExtraCommit, Done, TypeOK
    <2>2. th[t].item = ItemOf[th[t].doc] /\ th[t].pc \in ExtraPcs
        BY <1>5 DEF ExtraCommit, HoldsFile, Holding, ExtraPcs
    <2>3. /\ present' = present \cup {th[t].item}
          /\ \A d \in Docs : d # th[t].doc => doc'[d] = doc[d]
        BY <1>5 DEF ExtraCommit, TypeOK
    <2>4. FilesPlaced'
        BY <2>1, <2>2, <2>3 DEF FilesPlaced, Placed, Holding
    <2>5. ExtraNew'
        BY <2>1, <2>2, <2>3 DEF ExtraNew, ExtraPcs
    <2> QED BY <2>4, <2>5
<1>6. ASSUME NEW t \in Threads,
             \/ UploadCount(t) /\ ~Done(t)
             \/ UploadCheckDuplicate(t) /\ ~Done(t)
      PROVE  FilesPlaced' /\ ExtraNew'
    BY <1>3, <1>6 DEF UploadCount, UploadCheckDuplicate, Past, Placed, Holding, ExtraPcs
<1> QED BY <1>1, <1>2, <1>4, <1>5, <1>6, PlainStep

LEMMA FilesFinite ==
    ASSUME NEW i \in Items
    PROVE  /\ IsFiniteSet(Files(i)) /\ IsFiniteSet(Files(i)')
           /\ Cardinality(Files(i)) \in Nat /\ Cardinality(Files(i)') \in Nat
           /\ Uploading(i) \in SUBSET Threads /\ Uploading(i)' \in SUBSET Threads
           /\ Cardinality(Uploading(i)) \in Nat /\ Cardinality(Uploading(i)') \in Nat
           /\ Cardinality(Threads) \in Nat
<1>1. Files(i) \in SUBSET Docs /\ Files(i)' \in SUBSET Docs /\ IsFiniteSet(Docs)
    BY ConstantsAssumption DEF Files
<1>2. IsFiniteSet(Files(i)) /\ IsFiniteSet(Files(i)')
    BY <1>1, FS_Subset
<1>3. Uploading(i) \in SUBSET Threads /\ Uploading(i)' \in SUBSET Threads
    BY DEF Uploading
<1> QED BY <1>2, <1>3, FS_CardinalityType, MailingFits

(* Neither a file more nor a worker past the count.                        *)
LEMMA NotMore ==
    ASSUME FilesRoom, NEW i \in Items,
           Files(i)' \subseteq Files(i), Uploading(i)' \subseteq Uploading(i)
    PROVE  Cardinality(Files(i)') + Cardinality(Uploading(i)')
              <= MaxFiles + Cardinality(Threads) - 1
<1>1. Cardinality(Files(i)') <= Cardinality(Files(i))
    BY FilesFinite, FS_Subset
<1>2. Cardinality(Uploading(i)') <= Cardinality(Uploading(i))
    BY FilesFinite, MailingFits
<1>3. Cardinality(Files(i)) + Cardinality(Uploading(i)) <= MaxFiles + Cardinality(Threads) - 1
    BY DEF FilesRoom
<1>4. MaxFiles \in Nat
    BY ConstantsAssumption
<1> QED BY <1>1, <1>2, <1>3, <1>4, FilesFinite

LEMMA RoomStep ==
    ASSUME TypeOK, HoldsFile, FilesPlaced, ExtraNew, FilesRoom, [Next]_vars
    PROVE  FilesRoom'
<1> SUFFICES ASSUME NEW i \in Items
             PROVE  Cardinality(Files(i)') + Cardinality(Uploading(i)')
                       <= MaxFiles + Cardinality(Threads) - 1
    BY DEF FilesRoom
<1> DEFINE f == Cardinality(Files(i))
           f2 == Cardinality(Files(i)')
           n == Cardinality(Threads)
<1>0. /\ MaxFiles \in Nat \ {0} /\ f \in Nat /\ f2 \in Nat /\ n \in Nat
      /\ Cardinality(Uploading(i)) \in Nat /\ Cardinality(Uploading(i)') \in Nat
      /\ Cardinality(Uploading(i)') <= n
      /\ f + Cardinality(Uploading(i)) <= MaxFiles + n - 1
    BY ConstantsAssumption, FilesFinite, MailingFits DEF FilesRoom
<1>1. CASE Settles
    <2>1. Files(i)' \subseteq Files(i) /\ Uploading(i)' \subseteq Uploading(i)
        BY <1>1 DEF Settles, Files, Uploading
    <2> QED BY <2>1, NotMore
<1>2. ASSUME NEW t \in Threads, NEW d \in Docs, ExtraBegin(t, d)
      PROVE  Settles
    BY <1>2 DEF ExtraBegin, Settles, Past, TypeOK
<1>3. ASSUME NEW t \in Threads, UploadCount(t), ~Done(t)
      PROVE  f2 + Cardinality(Uploading(i)') <= MaxFiles + n - 1
    <2>1. /\ Cardinality(Files(th[t].item)) < MaxFiles /\ doc' = doc
          /\ th'[t].item = th[t].item /\ \A u \in Threads : u # t => th'[u] = th[u]
        BY <1>3 DEF UploadCount, Go, TypeOK, Thread
    <2>2. Files(i)' = Files(i)
        BY <2>1 DEF Files
    <2>3. CASE th[t].item = i
        BY <1>0, <2>1, <2>2, <2>3
    <2>4. CASE th[t].item # i
        <3>1. Uploading(i)' \subseteq Uploading(i)
            BY <2>1, <2>4 DEF Uploading
        <3> QED BY <2>2, <3>1, NotMore
    <2> QED BY <2>3, <2>4
<1>4. ASSUME NEW t \in Threads, UploadCheckDuplicate(t), ~Done(t)
      PROVE  f2 + Cardinality(Uploading(i)') <= MaxFiles + n - 1
    <2>1. /\ doc' = doc /\ th[t].pc \in Past
          /\ th'[t].item = th[t].item /\ \A u \in Threads : u # t => th'[u] = th[u]
        BY <1>4 DEF UploadCheckDuplicate, Go, TypeOK, Thread, Past
    <2>2. Files(i)' = Files(i) /\ Uploading(i)' \subseteq Uploading(i)
        BY <2>1 DEF Files, Uploading
    <2> QED BY <2>2, NotMore
<1>5. ASSUME NEW t \in Threads, UploadStore(t)
      PROVE  f2 + Cardinality(Uploading(i)') <= MaxFiles + n - 1
    <2>1. /\ th[t].pc \in Past /\ th'[t].pc = "stored"
          /\ \A u \in Threads : u # t => th'[u] = th[u]
          /\ \A d \in Docs : d # th[t].doc => doc'[d] = doc[d]
        BY <1>5 DEF UploadStore, Go, TypeOK, Thread, Past
    <2>2. th[t].item = ItemOf[th[t].doc]
        BY <1>5 DEF UploadStore, HoldsFile, Holding
    <2>3. CASE th[t].item = i
        <3>1. t \in Uploading(i) /\ Uploading(i)' \subseteq Uploading(i) \ {t}
            BY <2>1, <2>3 DEF Uploading, Past
        <3>2. Cardinality(Uploading(i)') <= Cardinality(Uploading(i)) - 1
            <4>1. Cardinality(Uploading(i) \ {t}) = Cardinality(Uploading(i)) - 1
                BY <3>1, FilesFinite, MailingFits
            <4>2. Uploading(i) \ {t} \in SUBSET Threads
                BY FilesFinite
            <4> QED BY <3>1, <4>1, <4>2, MailingFits
        <3>3. Files(i)' \subseteq Files(i) \cup {th[t].doc}
            BY <2>1 DEF Files
        <3>4. f2 <= f + 1
            <4>1. /\ IsFiniteSet(Files(i) \cup {th[t].doc})
                  /\ Cardinality(Files(i) \cup {th[t].doc})
                        = IF th[t].doc \in Files(i) THEN f ELSE f + 1
                BY FilesFinite, FS_AddElement
            <4>2. f2 <= Cardinality(Files(i) \cup {th[t].doc})
                BY <3>3, <4>1, FS_Subset
            <4> QED BY <1>0, <4>1, <4>2
        <3> QED BY <1>0, <3>2, <3>4
    <2>4. CASE th[t].item # i
        <3>1. Uploading(i)' \subseteq Uploading(i)
            BY <2>1 DEF Uploading, Past
        <3>2. Files(i)' \subseteq Files(i)
            BY <2>1, <2>2, <2>4 DEF Files
        <3> QED BY <3>1, <3>2, NotMore
    <2> QED BY <2>3, <2>4
<1>6. ASSUME NEW t \in Threads, ExtraCommit(t)
      PROVE  f2 + Cardinality(Uploading(i)') <= MaxFiles + n - 1
    <2>1. /\ th[t].pc \in {"extra_mailing", "extra_saved"} /\ th'[t].pc = "idle"
          /\ \A u \in Threads : u # t => th'[u] = th[u]
          /\ \A d \in Docs : d # th[t].doc => doc'[d] = doc[d]
        BY <1>6, IdleType DEF ExtraCommit, Done, TypeOK
    <2>2. th[t].item = ItemOf[th[t].doc] /\ th[t].item \notin present
        BY <2>1 DEF HoldsFile, Holding, ExtraNew, ExtraPcs
    <2>3. Uploading(i)' \subseteq Uploading(i)
        BY <2>1 DEF Uploading, Past
    <2>4. CASE th[t].item = i
        <3>1. Uploading(i) = {}
            BY <2>2, <2>4 DEF Uploading, FilesPlaced, Placed, Holding, Past, ExtraPcs
        <3>2. Files(i)' \subseteq {th[t].doc}
            BY <2>1, <2>2, <2>4 DEF Files, FilesPlaced
        <3>3. f2 <= 1
            <4>1. IsFiniteSet({th[t].doc}) /\ Cardinality({th[t].doc}) = 1
                BY FS_Singleton
            <4> QED BY <3>2, <4>1, FS_Subset
        <3>4. Cardinality(Uploading(i)') = 0
            BY <2>3, <3>1, FS_EmptySet
        <3>5. n > 0
            BY <1>0, MailingFits, {} \in SUBSET Threads, FS_EmptySet
        <3> QED BY <1>0, <3>3, <3>4, <3>5
    <2>5. CASE th[t].item # i
        <3>1. Files(i)' \subseteq Files(i)
            BY <2>1, <2>2, <2>5 DEF Files
        <3> QED BY <2>3, <3>1, NotMore
    <2> QED BY <2>4, <2>5
<1> QED BY <1>1, <1>2, <1>3, <1>4, <1>5, <1>6, PlainStep DEF Plain

(* The limit of files of one item is overshot by one file at most for each *)
(* other worker, however many there are (documents/services.py:64).        *)
THEOREM FilesFit == Spec => []FilesWithinLimit
<1> DEFINE IInv == TypeOK /\ HoldsFile /\ FilesPlaced /\ ExtraNew /\ FilesRoom
<1>1. Init => IInv
    <2>1. ASSUME Init
          PROVE  FilesPlaced /\ ExtraNew
        BY <2>1 DEF Init, Idle, FilesPlaced, ExtraNew, Placed, Holding, ExtraPcs
    <2>2. ASSUME Init, NEW i \in Items
          PROVE  Cardinality(Files(i)) + Cardinality(Uploading(i))
                    <= MaxFiles + Cardinality(Threads) - 1
        <3>1. Files(i) = {} /\ Uploading(i) = {}
            BY <2>2 DEF Init, Idle, Files, Uploading, Past
        <3>2. Cardinality(Files(i)) = 0 /\ Cardinality(Uploading(i)) = 0
            BY <3>1, FS_EmptySet
        <3> QED BY <3>2, FilesFinite, ConstantsAssumption
    <2> QED BY <2>1, <2>2, InitType DEF FilesRoom
<1>2. IInv /\ [Next]_vars => IInv'
    BY TypeStep, HoldsStep, PlacedStep, RoomStep
<1>3. IInv => FilesWithinLimit
    <2> SUFFICES ASSUME FilesRoom, NEW i \in Items
                 PROVE  Cardinality(Files(i)) <= MaxFiles + Cardinality(Threads) - 1
        BY DEF FilesWithinLimit
    <2>1. Cardinality(Files(i)) + Cardinality(Uploading(i)) <= MaxFiles + Cardinality(Threads) - 1
        BY DEF FilesRoom
    <2> QED BY <2>1, FilesFinite, ConstantsAssumption
<1> QED BY <1>1, <1>2, <1>3, PTL DEF Spec

\* What is proved above of every request holds in the parts the run checks.
LEMMA PartsAreRequests == PartSpec => Spec
<1>1. PartInit => Init
    BY DEF PartInit
<1>2. [PartNext]_<<vars, part, keyVars>> => [Next]_vars
    BY DEF PartNext, vars
<1> QED BY <1>1, <1>2, PTL DEF PartSpec, Spec

-----------------------------------------------------------------------------
(* One worker at a time *)

Lone(t) == \A u \in Threads \ {t} : th[u] = Idle

\* With nobody else at work, an item is still as the worker read it.
AsRead(t) ==
    LET pc == th[t].pc
        i == th[t].item
    IN
    /\ pc \in {"fetched", "counted", "unique", "stored"} =>
          i \notin Confirms /\ Status(i) # "zaakceptowany"
    /\ pc = "stored" => doc[th[t].doc] # "none"
    /\ pc = "reject" => Status(i) = "dostarczony"
    /\ pc = "accept_docs" => Status(i) = "zaakceptowany"
    /\ pc \in {"accept", "accept_docs"} => \A w \in th[t].todo : w.seen = Status(w.item)
    /\ pc \in {"confirm", "undo_confirm"} => i \in Confirms
    /\ pc \in {"mark_na", "owner_na"} => Status(i) \in Missing
    /\ pc \in {"undo_na", "refuse_na"} => Status(i) = "nie_dotyczy"
    /\ pc = "revert" => Files(i) = {}
    /\ pc \in {"extra", "extra_mailing", "extra_saved"} => i \notin Confirms

\* Files and items agree, but for the item the worker is at.
AgreeBut(t) ==
    /\ \A d \in Docs : doc[d] # "none" => ItemOf[d] \notin Confirms
    /\ \A d \in Docs : doc[d] = "uploaded" =>
          \/ Status(ItemOf[d]) = "dostarczony"
          \/ th[t].pc \in {"stored", "accept_docs", "reject_docs"} /\ th[t].item = ItemOf[d]
    /\ \A d \in Docs : doc[d] = "accepted" => Status(ItemOf[d]) = "zaakceptowany"
    /\ \A i \in present \ Confirms : Status(i) = "dostarczony" =>
          Files(i) # {} \/ (th[t].pc \in {"deleted", "revert"} /\ th[t].item = i)

Agrees(t) == AgreeBut(t) /\ AsRead(t)

\* Before the first request, should there be no worker at all.
Fresh ==
    /\ \A t \in Threads : th[t] = Idle
    /\ \A d \in Docs : doc[d] = "none"
    /\ \A i \in Items : Status(i) = "brak"

AloneInv ==
    part = "alone" => Fresh \/ \E t \in Threads : Lone(t) /\ (crashes = 0 => Agrees(t))

-----------------------------------------------------------------------------
(* One worker at a time: requests begin *)

LEMMA RowsStay ==
    ASSUME NEW t \in Threads, AgreeBut(t), UNCHANGED <<present, item, doc>>,
           th[t].pc \notin {"stored", "accept_docs", "reject_docs"},
           th[t].pc \in {"deleted", "revert"} =>
              \/ th'[t].pc = "revert" /\ th'[t].item = th[t].item
              \/ Files(th[t].item) # {}
    PROVE  AgreeBut(t)'
<1>1. \A i : Files(i)' = Files(i) /\ Status(i)' = Status(i)
    BY DEF Files, Status
<1>2. \A d \in Docs : doc[d] = "uploaded" => Status(ItemOf[d]) = "dostarczony"
    BY DEF AgreeBut
<1>3. \A i \in present \ Confirms : Status(i) = "dostarczony" =>
         Files(i) # {} \/ (th'[t].pc = "revert" /\ th'[t].item = i)
    BY DEF AgreeBut
<1> QED BY <1>1, <1>2, <1>3 DEF AgreeBut

LEMMA BeginAgrees ==
    ASSUME TypeOK, NEW t \in Threads, NEW pc, NEW i, NEW d, Begin(t, pc, i, d), AgreeBut(t),
           pc \in {"fetched", "counted", "unique", "stored"} =>
              i \notin Confirms /\ Status(i) # "zaakceptowany",
           pc \notin {"stored", "accept", "accept_docs", "revert",
                      "extra", "extra_mailing", "extra_saved"},
           pc = "reject" => Status(i) = "dostarczony",
           pc \in {"confirm", "undo_confirm"} => i \in Confirms,
           pc \in {"mark_na", "owner_na"} => Status(i) \in Missing,
           pc \in {"undo_na", "refuse_na"} => Status(i) = "nie_dotyczy"
    PROVE  Agrees(t)'
<1>1. /\ th[t].pc = "idle" /\ th'[t].pc = pc /\ th'[t].item = i
      /\ UNCHANGED <<present, item, doc>>
    BY DEF Begin, TypeOK
<1>2. AgreeBut(t)'
    BY <1>1, RowsStay
<1>3. AsRead(t)'
    BY <1>1 DEF AsRead, Status, Files
<1> QED BY <1>2, <1>3 DEF Agrees

LEMMA RequestAgrees ==
    ASSUME TypeOK, NEW t \in Threads, AgreeBut(t), Recipient(t) \/ Sender(t)
    PROVE  Agrees(t)'
<1> USE ConstantsAssumption
<1>1. ASSUME NEW d \in Docs, UploadBegin(t, d) \/ DeleteBegin(t, d)
      PROVE  Agrees(t)'
    BY <1>1, BeginAgrees DEF UploadBegin, DeleteBegin
<1>2. ASSUME NEW i \in Items,
             \/ ConfirmBegin(t, i) \/ UndoConfirmBegin(t, i)
             \/ MarkByRecipientBegin(t, i) \/ UndoByRecipientBegin(t, i)
             \/ MarkByOwnerBegin(t, i) \/ RefuseBegin(t, i) \/ RejectBegin(t, i)
      PROVE  Agrees(t)'
    BY <1>2, BeginAgrees
       DEF ConfirmBegin, UndoConfirmBegin, MarkByRecipientBegin,
           UndoByRecipientBegin, MarkByOwnerBegin, RefuseBegin, RejectBegin
<1>3. ASSUME NEW d \in Docs, ExtraBegin(t, d)
      PROVE  Agrees(t)'
    <2>1. /\ th[t].pc = "idle" /\ th'[t].pc = "extra" /\ th'[t].item = ItemOf[d]
          /\ ItemOf[d] \notin Confirms
          /\ UNCHANGED <<present, item, doc>>
        BY <1>3 DEF ExtraBegin, TypeOK
    <2>2. AgreeBut(t)'
        BY <2>1, RowsStay
    <2> QED BY <2>1, <2>2 DEF Agrees, AsRead
<1>4. ASSUME NEW S, AcceptFetch(t, S)
      PROVE  Agrees(t)'
    <2>1. /\ th[t].pc = "idle" /\ th'[t].pc = "accept" /\ th'[t].todo = WorkOn(S)
          /\ UNCHANGED <<present, item, doc>>
        BY <1>4, IdleType DEF AcceptFetch, TypeOK, Idle
    <2>2. \A w \in WorkOn(S) : w.seen = Status(w.item)
        BY DEF WorkOn
    <2>3. AgreeBut(t)'
        BY <2>1, RowsStay
    <2>4. AsRead(t)'
        BY <2>1, <2>2 DEF AsRead, Status
    <2> QED BY <2>3, <2>4 DEF Agrees
<1> QED BY <1>1, <1>2, <1>3, <1>4 DEF Recipient, Sender, AcceptBegin, AcceptAllBegin

-----------------------------------------------------------------------------
(* One worker at a time: statements *)

\* A worker goes on, or ends, with rows as they were.
LEMMA NoWriteAgrees ==
    ASSUME TypeOK, HoldsFile, NEW t \in Threads, Agrees(t),
           \/ UploadCount(t) \/ UploadCheckDuplicate(t) \/ CompleteCheck(t)
           \/ CompleteSend(t) \/ DeleteCheckEmpty(t) \/ ExtraCheck(t)
    PROVE  Agrees(t)'
<1>1. UNCHANGED <<present, item, doc>>
    BY DEF UploadCount, UploadCheckDuplicate, CompleteCheck, CompleteSend, DeleteCheckEmpty,
       ExtraCheck
<1>2. \/ th'[t].pc = "idle"
      \/ th'[t].pc = "mailing"
      \/ /\ th'[t].item = th[t].item /\ th[t].pc \in {"fetched", "counted"}
         /\ th'[t].pc \in {"counted", "unique"}
      \/ /\ th'[t].item = th[t].item /\ th[t].pc = "deleted"
         /\ th'[t].pc = "revert" /\ Files(th[t].item) = {}
      \/ /\ th'[t].item = th[t].item /\ th[t].pc = "extra"
         /\ th'[t].pc \in {"extra_mailing", "extra_saved"}
    BY IdleType
       DEF UploadCount, UploadCheckDuplicate, CompleteCheck, CompleteSend, DeleteCheckEmpty,
           ExtraCheck, Go, Done, TypeOK, Thread
<1>3. th[t].pc = "deleted" => th'[t].pc = "revert" \/ Files(th[t].item) # {}
    BY DEF UploadCount, UploadCheckDuplicate, CompleteCheck, CompleteSend, DeleteCheckEmpty,
           ExtraCheck, Go, TypeOK, Thread
<1>4. th[t].pc \in {"fetched", "counted", "saved", "mailing", "deleted", "extra"}
    BY DEF UploadCount, UploadCheckDuplicate, CompleteCheck, CompleteSend, DeleteCheckEmpty,
       ExtraCheck
<1>5. AgreeBut(t)'
    BY <1>1, <1>2, <1>3, <1>4, RowsStay DEF Agrees
<1>6. AsRead(t)'
    BY <1>1, <1>2, <1>4 DEF Agrees, AsRead, Status, Files
<1> QED BY <1>5, <1>6 DEF Agrees

LEMMA FileAgrees ==
    ASSUME TypeOK, HoldsFile, FilesPlaced, ExtraNew, NEW t \in Threads, Agrees(t),
           UploadStore(t) \/ DeleteRow(t)
    PROVE  Agrees(t)'
<1> USE ConstantsAssumption
<1> DEFINE d == th[t].doc
           i == th[t].item
<1>1. /\ d \in Docs /\ i = ItemOf[d] /\ i \in Items
      /\ UNCHANGED <<present, item>>
      /\ \A e \in Docs : e # d => doc'[e] = doc[e]
      /\ th'[t].item = i /\ th'[t].doc = d
    BY DEF UploadStore, DeleteRow, HoldsFile, Holding, Go, TypeOK, Thread
<1>2. CASE UploadStore(t)
    <2>1. /\ th[t].pc = "unique" /\ th'[t].pc = "stored" /\ doc'[d] = "uploaded"
          /\ i \notin Confirms /\ Status(i) # "zaakceptowany"
        BY <1>1, <1>2 DEF UploadStore, Go, TypeOK, Thread, Agrees, AsRead
    <2>2. \A j \in Items : Files(j) \subseteq Files(j)' \cup {d} /\ (Files(j) # {} => Files(j)' # {})
        BY <1>1, <2>1 DEF Files
    <2>3. AgreeBut(t)'
        BY <1>1, <2>1, <2>2 DEF Agrees, AgreeBut, Status, TypeOK
    <2> QED BY <1>1, <2>1, <2>3 DEF Agrees, AsRead, Status
<1>3. CASE DeleteRow(t)
    <2>1. th[t].pc = "delete" /\ th'[t].pc = "deleted" /\ doc'[d] = "none"
        BY <1>1, <1>3 DEF DeleteRow, Go, TypeOK, Thread
    <2>2. \A j \in Items : j # i => Files(j)' = Files(j)
        BY <1>1, <2>1 DEF Files
    <2>3. AgreeBut(t)'
        BY <1>1, <2>1, <2>2 DEF Agrees, AgreeBut, Status, TypeOK
    <2> QED BY <1>1, <2>1, <2>3 DEF Agrees, AsRead
<1> QED BY <1>2, <1>3

\* The rows of one item are decided, and the worker leaves it.
LEMMA DecideAgrees ==
    ASSUME TypeOK, HoldsFile, NEW t \in Threads, Agrees(t),
           AcceptDocs(t) \/ RejectDocs(t)
    PROVE  Agrees(t)'
<1> DEFINE i == th[t].item
<1>1. PICK decision \in {"accepted", "rejected"} :
         /\ \A d \in Docs : doc'[d] = IF ItemOf[d] = i /\ doc[d] = "uploaded" THEN decision ELSE doc[d]
         /\ decision = "accepted" => Status(i) = "zaakceptowany"
         /\ UNCHANGED <<present, item>>
    BY DEF AcceptDocs, RejectDocs, DecideFiles, Agrees, AsRead
<1>2. /\ th[t].pc \in {"accept_docs", "reject_docs"}
      /\ \/ th'[t].pc = "idle"
         \/ /\ th[t].pc = "accept_docs"
            /\ th'[t].pc = "accept" /\ th'[t].todo = th[t].todo
    <2>1. CASE AcceptDocs(t)
        BY <2>1, IdleType DEF AcceptDocs, TypeOK, Thread
    <2>2. CASE RejectDocs(t)
        BY <2>2, IdleType DEF RejectDocs, Done, TypeOK
    <2> QED BY <2>1, <2>2
<1>3. \A j \in Items : Files(j)' = Files(j)
    BY <1>1 DEF Files
<1>4. AgreeBut(t)'
    <2>1. \A d \in Docs : doc'[d] = "uploaded" => doc[d] = "uploaded" /\ ItemOf[d] # i
        BY <1>1
    <2>2. \A d \in Docs : doc'[d] = "accepted" =>
             doc[d] = "accepted" \/ (ItemOf[d] = i /\ Status(i) = "zaakceptowany")
        BY <1>1
    <2>3. \A d \in Docs : doc'[d] # "none" => doc[d] # "none"
        BY <1>1
    <2>4. \A j : Status(j)' = Status(j)
        BY <1>1 DEF Status
    <2>5. present \subseteq Items
        BY DEF TypeOK
    <2> QED BY <1>1, <1>2, <1>3, <2>1, <2>2, <2>3, <2>4, <2>5 DEF Agrees, AgreeBut
<1>5. AsRead(t)'
    BY <1>1, <1>2 DEF Agrees, AsRead, Status
<1> QED BY <1>4, <1>5 DEF Agrees

\* The new status of the item a worker saves, and where the worker goes.
LEMMA SaveAgrees ==
    ASSUME TypeOK, NEW t \in Threads, AgreeBut(t), NEW i,
           UNCHANGED <<present, doc>>,
           \A j \in Items : j # i => Status(j)' = Status(j),
           \A d \in Docs : ItemOf[d] = i /\ doc[d] = "uploaded" =>
              \/ Status(i)' = "dostarczony"
              \/ th'[t].pc \in {"accept_docs", "reject_docs"} /\ th'[t].item = i,
           \A d \in Docs : ItemOf[d] = i => doc[d] # "accepted" \/ Status(i)' = "zaakceptowany",
           i \in Items /\ Status(i)' = "dostarczony" => i \in Confirms \/ Files(i) # {},
           th[t].pc \in {"stored", "accept_docs", "reject_docs", "deleted", "revert"} => th[t].item = i
    PROVE  AgreeBut(t)'
<1> USE ConstantsAssumption
<1>1. \A j \in Items : Files(j)' = Files(j)
    BY DEF Files
<1>2. \A d \in Docs : ItemOf[d] \in Items
    OBVIOUS
<1>3. present \subseteq Items
    BY DEF TypeOK
<1>4. ASSUME NEW d \in Docs, doc[d] = "uploaded"
      PROVE  \/ Status(ItemOf[d])' = "dostarczony"
             \/ th'[t].pc \in {"stored", "accept_docs", "reject_docs"} /\ th'[t].item = ItemOf[d]
    BY <1>2, <1>4 DEF AgreeBut
<1>5. ASSUME NEW d \in Docs, doc[d] = "accepted"
      PROVE  Status(ItemOf[d])' = "zaakceptowany"
    BY <1>2, <1>5 DEF AgreeBut
<1>6. ASSUME NEW j \in present \ Confirms, Status(j)' = "dostarczony"
      PROVE  Files(j)' # {}
    BY <1>1, <1>3, <1>6 DEF AgreeBut
<1> QED BY <1>4, <1>5, <1>6 DEF AgreeBut

\* Its files, when a worker may save the item: none decided on, nor waiting.
LEMMA ItemAgrees ==
    ASSUME TypeOK, HoldsFile, NEW t \in Threads, Agrees(t),
           UploadSave(t) \/ AnswerSave(t) \/ FinalSave(t)
    PROVE  Agrees(t)'
<1> USE ConstantsAssumption
<1>0. PICK i, d : i = th[t].item /\ d = th[t].doc
    OBVIOUS
<1>1. /\ UNCHANGED <<present, doc>>
      /\ th'[t].pc \in {"saved", "idle"}
      /\ th[t].pc \in SavePcs \cup {"stored"}
    BY <1>0, IdleType DEF UploadSave, AnswerSave, FinalSave, Go, Done, TypeOK, Thread, SavePcs
<1>2. /\ \A j \in Items : j # i => Status(j)' = Status(j)
      /\ i \in Items /\ th[t].pc = "stored" => Status(i)' = "dostarczony"
      /\ i \in Items /\ th[t].pc # "stored" => item'[i] = Saved(th[t].pc, item[i])
    <2>1. CASE UploadSave(t)
        <3>1. /\ item' = [item EXCEPT ![i] = [status |-> "dostarczony", naAccepted |-> FALSE]]
              /\ th[t].pc = "stored"
            BY <1>0, <2>1 DEF UploadSave, SaveByRecipient, WriteItem
        <3> QED BY <3>1 DEF Status, TypeOK
    <2>2. CASE AnswerSave(t) \/ FinalSave(t)
        <3>1. PICK new : item' = [item EXCEPT ![i] = new] /\ new = Saved(th[t].pc, item[i])
            BY <1>0, <2>2 DEF AnswerSave, FinalSave, SaveByRecipient, SaveBySender, WriteItem
        <3>2. th[t].pc # "stored"
            BY <2>2 DEF AnswerSave, FinalSave, SavePcs
        <3> QED BY <3>1, <3>2 DEF Status, TypeOK
    <2> QED BY <2>1, <2>2
<1>3. \A e \in Docs : ItemOf[e] = i /\ doc[e] \in {"uploaded", "accepted"} =>
         th[t].pc = "stored" /\ doc[e] = "uploaded"
    BY <1>0, <1>1 DEF Agrees, AgreeBut, AsRead, SavePcs, Missing, Files
<1>4. th[t].pc = "stored" => d \in Docs /\ i = ItemOf[d] /\ d \in Files(i)
    BY <1>0 DEF HoldsFile, Holding, Agrees, AsRead, Files
<1>5. i \in Items /\ Status(i)' = "dostarczony" => i \in Confirms \/ Files(i) # {}
    <2>1. CASE th[t].pc = "stored"
        BY <1>4, <2>1
    <2>2. CASE th[t].pc # "stored" /\ i \in Items
        <3>1. item[i] \in RowType
            BY <2>2 DEF TypeOK, RowType
        <3>2. Status(i)' = "dostarczony" => th[t].pc = "confirm"
            <4>1. item'[i] = Saved(th[t].pc, item[i]) /\ th[t].pc \in SavePcs
                BY <1>1, <1>2, <2>2
            <4>2. Saved(th[t].pc, item[i]).status = "dostarczony" => th[t].pc = "confirm"
                BY <3>1, <4>1 DEF Saved, SavePcs, RowType
            <4> QED BY <4>1, <4>2 DEF Status
        <3> QED BY <1>0, <3>2 DEF Agrees, AsRead
    <2> QED BY <2>1, <2>2
<1>6. AgreeBut(t)'
    <2>1. \A e \in Docs : ItemOf[e] = i /\ doc[e] = "uploaded" => Status(i)' = "dostarczony"
        BY <1>2, <1>3
    <2>2. \A e \in Docs : ItemOf[e] = i => doc[e] # "accepted"
        BY <1>3
    <2> QED BY <1>0, <1>1, <1>2, <1>5, <2>1, <2>2, SaveAgrees DEF Agrees
<1>7. AsRead(t)'
    BY <1>1 DEF AsRead
<1> QED BY <1>6, <1>7 DEF Agrees

LEMMA ReviewAgrees ==
    ASSUME TypeOK, NEW t \in Threads, Agrees(t),
           AcceptNotApplicable(t) \/ AcceptSave(t) \/ RejectSave(t)
    PROVE  Agrees(t)'
<1> USE ConstantsAssumption
<1>1. CASE AcceptNotApplicable(t)
    <2>1. PICK w \in th[t].todo :
             /\ item' = [item EXCEPT ![w.item] = [item[w.item] EXCEPT !.naAccepted = TRUE]]
             /\ th' = [th EXCEPT ![t] = IF th[t].todo = {w} THEN Idle
                                        ELSE [th[t] EXCEPT !.todo = @ \ {w}]]
             /\ th[t].pc = "accept" /\ UNCHANGED <<present, doc>>
        BY <1>1 DEF AcceptNotApplicable, WriteItem
    <2>2. \A j \in Items : Status(j)' = Status(j)
        BY <2>1 DEF TypeOK, Status
    <2>3. /\ th'[t].pc = "idle" \/ (th'[t].pc = "accept" /\ th'[t].todo \subseteq th[t].todo)
          /\ th[t].todo \subseteq Work
        <3>1. th[t] \in Thread /\ th'[t] = IF th[t].todo = {w} THEN Idle
                                           ELSE [th[t] EXCEPT !.todo = @ \ {w}]
            BY <2>1 DEF TypeOK
        <3>2. CASE th[t].todo = {w}
            BY <3>1, <3>2, IdleType DEF Thread
        <3>3. CASE th[t].todo # {w}
            BY <2>1, <3>1, <3>3 DEF Thread
        <3> QED BY <3>2, <3>3
    <2>4. AgreeBut(t)'
        <3>1. \A j : Files(j)' = Files(j)
            BY <2>1 DEF Files
        <3>2. present \subseteq Items
            BY DEF TypeOK
        <3> QED BY <2>1, <2>2, <3>1, <3>2 DEF Agrees, AgreeBut
    <2>5. AsRead(t)'
        BY <2>1, <2>2, <2>3 DEF Agrees, AsRead, Work
    <2> QED BY <2>4, <2>5 DEF Agrees
<1>2. CASE AcceptSave(t)
    <2>1. PICK w \in th[t].todo :
             /\ w.seen = "dostarczony" /\ th[t].pc = "accept"
             /\ item' = [item EXCEPT ![w.item] = [item[w.item] EXCEPT !.status = "zaakceptowany"]]
             /\ th' = [th EXCEPT ![t] = [th[t] EXCEPT !.pc = "accept_docs", !.item = w.item,
                                                      !.todo = @ \ {w}]]
             /\ UNCHANGED <<present, doc>>
        BY <1>2 DEF AcceptSave, SaveBySender, WriteItem
    <2>2. th[t] \in Thread /\ w \in Work
        BY <2>1 DEF TypeOK, Thread
    <2>3. /\ w.item \in Items /\ Status(w.item) = "dostarczony" /\ Status(w.item)' = "zaakceptowany"
          /\ \A j \in Items : j # w.item => Status(j)' = Status(j)
        BY <2>1, <2>2 DEF Agrees, AsRead, TypeOK, Status, Work
    <2>4. th'[t].pc = "accept_docs" /\ th'[t].item = w.item /\ th'[t].todo = th[t].todo \ {w}
        BY <2>1, <2>2 DEF TypeOK, Thread
    <2>5. AgreeBut(t)'
        BY <2>1, <2>3, <2>4, SaveAgrees DEF Agrees
    <2>6. \A v \in th'[t].todo : v.seen = Status(v.item)'
        <3> SUFFICES ASSUME NEW v \in th[t].todo, v # w
                     PROVE  v.seen = Status(v.item)'
            BY <2>4
        <3>1. v \in Work /\ v.seen = Status(v.item)
            BY <2>1, <2>2 DEF Thread, Agrees, AsRead
        <3>2. v.item # w.item
            BY <2>1, <2>2, <2>3, <3>1 DEF Work
        <3> QED BY <2>3, <3>1, <3>2 DEF Work
    <2>7. AsRead(t)'
        BY <2>3, <2>4, <2>6 DEF AsRead
    <2> QED BY <2>5, <2>7 DEF Agrees
<1>3. CASE RejectSave(t)
    <2>0. PICK i : i = th[t].item
        OBVIOUS
    <2>1. /\ th[t].pc = "reject" /\ Status(i) = "dostarczony" /\ UNCHANGED <<present, doc>>
          /\ th'[t].pc = "reject_docs" /\ th'[t].item = i
          /\ \A j \in Items : j # i => Status(j)' = Status(j)
          /\ i \in Items => Status(i)' = "odrzucony"
        BY <1>3, <2>0 DEF RejectSave, SaveBySender, WriteItem, Go, Agrees, AsRead, TypeOK, Thread, Status
    <2>2. \A d \in Docs : ItemOf[d] = i => doc[d] # "accepted"
        BY <2>1 DEF Agrees, AgreeBut
    <2>3. AgreeBut(t)'
        BY <2>1, <2>2, SaveAgrees DEF Agrees
    <2> QED BY <2>1, <2>3 DEF Agrees, AsRead
<1> QED BY <1>1, <1>2, <1>3

\* An extra item comes with its first file, and without any before it.
LEMMA ExtraAgrees ==
    ASSUME TypeOK, HoldsFile, FilesPlaced, ExtraNew, NEW t \in Threads, Agrees(t), ExtraCommit(t)
    PROVE  Agrees(t)'
<1> USE ConstantsAssumption
<1>0. PICK i, d : i = th[t].item /\ d = th[t].doc
    OBVIOUS
<1>1. /\ th[t].pc \in {"extra_mailing", "extra_saved"} /\ th'[t].pc = "idle"
      /\ d \in Docs /\ i = ItemOf[d] /\ i \in Items \ present /\ i \notin Confirms
      /\ present' = present \cup {i}
    BY <1>0, IdleType
       DEF ExtraCommit, Done, TypeOK, HoldsFile, Holding, ExtraNew, ExtraPcs, Agrees, AsRead
<1>2. /\ doc'[d] = "uploaded" /\ \A e \in Docs : e # d => doc'[e] = doc[e]
      /\ Status(i)' = "dostarczony" /\ \A j \in Items : j # i => Status(j)' = Status(j)
    <2>1. doc' = [doc EXCEPT ![d] = "uploaded"] /\ doc \in [Docs -> DocStatus]
        BY <1>0 DEF ExtraCommit, TypeOK
    <2>2. PICK new : new.status = "dostarczony" /\ item' = [item EXCEPT ![i] = new]
        BY <1>0 DEF ExtraCommit, WriteItem
    <2>3. item \in [Items -> [status : ItemStatus, naAccepted : BOOLEAN]]
        BY DEF TypeOK
    <2> QED BY <1>1, <2>1, <2>2, <2>3 DEF Status
<1>3. \A e \in Docs : ItemOf[e] = i => doc[e] = "none"
    BY <1>1 DEF FilesPlaced
<1>4. Files(i)' # {} /\ \A j \in Items : j # i => Files(j)' = Files(j)
    <2>1. \A j \in Items : Files(j)' = {e \in Docs : ItemOf[e] = j /\ doc'[e] # "none"}
        BY DEF Files
    <2>2. Files(i)' # {}
        BY <1>1, <1>2, <2>1
    <2>3. ASSUME NEW j \in Items, j # i PROVE Files(j)' = Files(j)
        BY <1>1, <1>2, <2>1, <2>3 DEF Files
    <2> QED BY <2>2, <2>3
<1>5. present \subseteq Items
    BY DEF TypeOK
<1>6. AgreeBut(t)'
    <2>1. ASSUME NEW e \in Docs, doc'[e] # "none"
          PROVE  /\ ItemOf[e] \notin Confirms
                 /\ doc'[e] = "uploaded" => Status(ItemOf[e])' = "dostarczony"
                 /\ doc'[e] = "accepted" => Status(ItemOf[e])' = "zaakceptowany"
        <3>1. CASE e = d
            BY <1>1, <1>2, <3>1
        <3>2. CASE e # d
            <4>1. doc[e] = doc'[e] /\ ItemOf[e] # i /\ ItemOf[e] \in Items
                BY <1>2, <1>3, <2>1, <3>2
            <4> QED BY <1>1, <1>2, <2>1, <4>1 DEF Agrees, AgreeBut
        <3> QED BY <3>1, <3>2
    <2>2. ASSUME NEW j \in present' \ Confirms, Status(j)' = "dostarczony"
          PROVE  Files(j)' # {}
        <3>1. CASE j = i
            BY <1>4, <3>1
        <3>2. CASE j # i
            BY <1>1, <1>2, <1>4, <1>5, <2>2, <3>2 DEF Agrees, AgreeBut
        <3> QED BY <3>1, <3>2
    <2> QED BY <2>1, <2>2 DEF AgreeBut
<1> QED BY <1>1, <1>6 DEF Agrees, AsRead

-----------------------------------------------------------------------------
(* One worker at a time: the invariant *)

\* Of the workers only one moves, and the others had nothing to do.
LEMMA OnlyOne ==
    ASSUME TypeOK, NEW t \in Threads, NEW s \in Threads, NEW r \in Threads, Lone(s), Lone(r)',
           \A u \in Threads \ {t} : th'[u] = th[u],
           th[t].pc # "idle" \/ th'[t].pc # "idle"
    PROVE  Lone(t) /\ Lone(t)' /\ (Agrees(s) => Agrees(t))
<1>1. Lone(t)
    BY IdleType DEF Lone
<1>2. Lone(t)'
    BY <1>1 DEF Lone
<1>3. s # t => th[s].pc = "idle" /\ th[t].pc = "idle"
    BY <1>1, IdleType DEF Lone
<1>4. ASSUME Agrees(s), s # t
      PROVE  Agrees(t)
    BY <1>3, <1>4 DEF Agrees, AgreeBut, AsRead
<1> QED BY <1>1, <1>2, <1>4

\* A worker moves only where it is at work, before or after.
LEMMA Moves ==
    ASSUME TypeOK, NEW t \in Threads, Recipient(t) \/ Sender(t) \/ Statement(t) \/ Crash(t)
    PROVE  /\ \A u \in Threads \ {t} : th'[u] = th[u]
           /\ th[t].pc # "idle" \/ th'[t].pc # "idle"
<1>1. CASE Recipient(t)
    BY <1>1 DEF Recipient, UploadBegin, DeleteBegin, ExtraBegin, ConfirmBegin, UndoConfirmBegin,
           MarkByRecipientBegin, UndoByRecipientBegin, Begin, TypeOK
<1>2. CASE Sender(t)
    <2>1. ASSUME NEW S, AcceptFetch(t, S)
          PROVE  th'[t].pc # "idle" /\ \A u \in Threads \ {t} : th'[u] = th[u]
        BY <2>1 DEF AcceptFetch, TypeOK, Idle
    <2>2. ASSUME NEW pc, NEW i, NEW d, Begin(t, pc, i, d), pc # "idle"
          PROVE  th'[t].pc # "idle" /\ \A u \in Threads \ {t} : th'[u] = th[u]
        BY <2>2 DEF Begin, TypeOK
    <2> QED BY <1>2, <2>1, <2>2 DEF Sender, AcceptBegin, AcceptAllBegin, RejectBegin,
           MarkByOwnerBegin, RefuseBegin
<1>3. CASE Statement(t) \/ Crash(t)
    <2>1. th[t].pc # "idle"
        BY <1>3 DEF Statement, Crash, UploadCount, UploadCheckDuplicate, UploadStore, UploadSave,
           CompleteCheck, CompleteSend, ExtraCheck, ExtraCommit, AcceptNotApplicable,
           AcceptSave, AcceptDocs,
           RejectSave, RejectDocs, AnswerSave, FinalSave, DeleteRow, DeleteCheckEmpty, SavePcs
    <2>2. \A u \in Threads \ {t} : th'[u] = th[u]
        BY <1>3 DEF Statement, Crash, UploadCount, UploadCheckDuplicate, UploadStore, UploadSave,
           CompleteCheck, CompleteSend, ExtraCheck, ExtraCommit, AcceptNotApplicable,
           AcceptSave, AcceptDocs,
           RejectSave, RejectDocs, AnswerSave, FinalSave, DeleteRow, DeleteCheckEmpty, Go, Done,
           TypeOK
    <2> QED BY <2>1, <2>2
<1> QED BY <1>1, <1>2, <1>3

LEMMA AloneStep ==
    ASSUME TypeOK, HoldsFile, FilesPlaced, ExtraNew, NEW s \in Threads, NEW r \in Threads,
           Lone(s), crashes = 0 => Agrees(s), Lone(r)', Next
    PROVE  \E t \in Threads : Lone(t)' /\ (crashes' = 0 => Agrees(t)')
<1>1. ASSUME NEW t \in Threads, Recipient(t) \/ Sender(t) \/ Statement(t)
      PROVE  Lone(t)' /\ (crashes' = 0 => Agrees(t)')
    <2>1. Lone(t)' /\ (Agrees(s) => Agrees(t))
        BY <1>1, Moves, OnlyOne
    <2>2. crashes' = crashes
        BY <1>1 DEF Recipient, Sender, Statement, UploadBegin, DeleteBegin, ExtraBegin, ConfirmBegin,
           UndoConfirmBegin, MarkByRecipientBegin, UndoByRecipientBegin, AcceptBegin, AcceptAllBegin,
           AcceptFetch, RejectBegin, MarkByOwnerBegin, RefuseBegin, Begin,
           UploadCount, UploadCheckDuplicate, UploadStore, UploadSave,
           CompleteCheck, CompleteSend, ExtraCheck, ExtraCommit, AcceptNotApplicable,
           AcceptSave, AcceptDocs,
           RejectSave, RejectDocs, AnswerSave, FinalSave, DeleteRow, DeleteCheckEmpty
    <2>3. ASSUME Agrees(t)
          PROVE  Agrees(t)'
        <3>1. CASE Recipient(t) \/ Sender(t)
            BY <2>3, <3>1, RequestAgrees DEF Agrees
        <3>2. CASE Statement(t)
            BY <2>3, <3>2, NoWriteAgrees, FileAgrees, DecideAgrees, ItemAgrees, ReviewAgrees,
               ExtraAgrees DEF Statement
        <3> QED BY <1>1, <3>1, <3>2
    <2> QED BY <2>1, <2>2, <2>3
<1>2. ASSUME NEW t \in Threads, Crash(t)
      PROVE  Lone(t)' /\ (crashes' = 0 => Agrees(t)')
    <2>1. Lone(t)'
        BY <1>2, Moves, OnlyOne
    <2> QED BY <1>2, <2>1 DEF Crash, TypeOK
<1>3. CASE Close \/ Reopen
    <2>1. Lone(s)' /\ crashes' = crashes /\ (Agrees(s) => Agrees(s)')
        BY <1>3 DEF Close, Reopen, Lone, Agrees, AgreeBut, AsRead, Status, Files
    <2> QED BY <2>1
<1> QED BY <1>1, <1>2, <1>3 DEF Next


LEMMA FreshAgrees ==
    ASSUME TypeOK, Fresh, NEW t \in Threads
    PROVE  Lone(t) /\ Agrees(t)
<1>1. th[t] = Idle /\ Lone(t)
    BY DEF Fresh, Lone
<1>2. \A i \in present : Status(i) # "dostarczony"
    BY DEF Fresh, TypeOK
<1> QED BY <1>1, <1>2, IdleType DEF Fresh, Agrees, AgreeBut, AsRead

LEMMA AgreesMatch ==
    ASSUME TypeOK, NEW t \in Threads, Agrees(t), Quiet
    PROVE  FilesMatchItem
BY DEF Agrees, AgreeBut, Quiet, FilesMatchItem

(* With one worker at a time, none of them killed, no request leaves an     *)
(* uploaded file at an item that does not wait for a decision, an accepted  *)
(* one at an item that is not accepted, nor a delivered item without a      *)
(* file: whatever the requests, their order, the items and the files        *)
(* (documents/services.py).                                                 *)
THEOREM AloneAlwaysMatch == PartSpec => []AloneFilesMatch
<1> DEFINE IInv == TypeOK /\ HoldsFile /\ FilesPlaced /\ ExtraNew /\ AloneInv
<1>1. PartInit => IInv
    <2> SUFFICES ASSUME PartInit PROVE IInv
        OBVIOUS
    <2>1. Init
        BY DEF PartInit
    <2>2. FilesPlaced /\ ExtraNew
        BY <2>1 DEF Init, Idle, FilesPlaced, ExtraNew, Placed, Holding, ExtraPcs
    <2>3. Fresh
        BY <2>1 DEF Init, Fresh, Status
    <2> QED BY <2>1, <2>2, <2>3, InitType DEF AloneInv
<1>2. IInv /\ [PartNext]_<<vars, part, keyVars>> => IInv'
    <2>1. ASSUME IInv, UNCHANGED <<vars, part>>
          PROVE  IInv'
        <3>1. [Next]_vars
            BY <2>1
        <3>2. AloneInv'
            BY <2>1 DEF vars, AloneInv, Fresh, Lone, Agrees, AgreeBut, AsRead, Status, Files
        <3> QED BY <2>1, <3>1, <3>2, TypeStep, HoldsStep, PlacedStep
    <2>2. ASSUME IInv, Next, UNCHANGED part, Within'
          PROVE  IInv'
        <3>1. TypeOK' /\ HoldsFile' /\ FilesPlaced' /\ ExtraNew'
            BY <2>2, TypeStep, HoldsStep, PlacedStep
        <3>2. ASSUME part = "alone"
              PROVE  \E t \in Threads : Lone(t)' /\ (crashes' = 0 => Agrees(t)')
            <4>1. PICK r \in Threads : Lone(r)'
                BY <2>2, <3>2 DEF Within, Lone
            <4>2. PICK s \in Threads : Lone(s) /\ (crashes = 0 => Agrees(s))
                BY <2>2, <3>2, <4>1, FreshAgrees DEF AloneInv
            <4> QED BY <2>2, <4>1, <4>2, AloneStep
        <3> QED BY <2>2, <3>1, <3>2 DEF AloneInv
    <2> QED BY <2>1, <2>2 DEF PartNext
<1>3. IInv => AloneFilesMatch
    <2> SUFFICES ASSUME IInv, part = "alone", crashes = 0, Quiet PROVE FilesMatchItem
        BY DEF AloneFilesMatch, FilesMatchItem
    <2>1. CASE Fresh
        <3>1. \A i \in present : Status(i) # "dostarczony"
            BY <2>1 DEF Fresh, TypeOK
        <3> QED BY <2>1, <3>1 DEF Fresh, FilesMatchItem
    <2>2. CASE \E t \in Threads : Agrees(t)
        BY <2>2, AgreesMatch
    <2> QED BY <2>1, <2>2 DEF AloneInv
<1> QED BY <1>1, <1>2, <1>3, PTL DEF PartSpec

-----------------------------------------------------------------------------
(* Keys *)

Row == [state : {"none", "kept", "anonymized"}, name : Nat, key : Nat]

KeysTyped ==
    /\ current \in Nat /\ olds \subseteq Nat \ {0}
    /\ stored \in [KeyDocs -> Row]
    /\ secret \in [pk : Nat, on : BOOLEAN, key : Nat]
    /\ killed \in BOOLEAN /\ crossed \in BOOLEAN /\ said \in BOOLEAN

\* The row a worker has is the row, unless a command changed its key.
CopyOk(d) ==
    /\ worker.at = {d} /\ worker.rows[d] \in Row /\ worker.rows[d].state = "kept"
    /\ worker.pc \in {"create", "delete", "anonymize", "drop", "save"}
    /\ worker.pc = "create" =>
        /\ worker.rows[d] = [state |-> "kept", name |-> 1, key |-> current]
        /\ stored[d] = K!Absent
    /\ worker.pc # "create" =>
        \/ stored[d] = worker.rows[d]
        \/ stored[d].key = current /\ worker.rows[d].key # current

WorkerOk ==
    /\ worker.at = {} => worker = K!Idle
    /\ \A d \in worker.at : d \in KeyDocs /\ CopyOk(d)

\* The rows encrypt_documents has still to read again.
Coming == DOMAIN command.rows \ (IF command.pc = "unlink" THEN command.at ELSE {})

\* The rows of a command and, of encrypt_documents, the one it is at.
CommandOk ==
    /\ command.pc \in {"idle", "encrypt", "update", "unlink", "rewrap", "reseal"}
    /\ command.pc = "idle" <=> command = K!Idle
    /\ command.pc # "idle" => current # 0
    /\ command.pc \in {"encrypt", "update", "unlink"} =>
        /\ \A d \in DOMAIN command.rows :
              d \in KeyDocs /\ command.rows[d] = [state |-> "kept", name |-> 1, key |-> 0]
        /\ \A d \in Coming : stored[d].state = "kept" => stored[d].name = 1
    /\ command.pc \in {"update", "unlink"} =>
        \E d \in DOMAIN command.rows : command.at = {d}
    /\ command.pc = "update" => command.name \in Nat \ {1}
    /\ command.pc = "unlink" => command.name \in Nat
    /\ command.pc = "rewrap" =>
        \A d \in DOMAIN command.rows : d \in KeyDocs /\ command.rows[d].key \in Nat \ {0}

\* A row that the retention task may not have written over.
Counts(d) == stored[d].state = "kept" \/ ~crossed

OpeningOk ==
    /\ secret.on => K!Opens(secret.key)
    /\ \A d \in KeyDocs : Counts(d) => K!Opens(stored[d].key)

New(key) == key \in {0, current}

\* rewrap_document_keys leaves behind it rows of the new key only.
NewOk ==
    /\ said => /\ \A d \in KeyDocs : Counts(d) => New(stored[d].key)
               /\ secret.on => New(secret.key)
    /\ command.pc = "rewrap" =>
        \A d \in KeyDocs : Counts(d) =>
            \/ New(stored[d].key)
            \/ d \in DOMAIN command.rows /\ stored[d].key = command.rows[d].key
    /\ command.pc = "reseal" =>
        /\ \A d \in KeyDocs : Counts(d) => New(stored[d].key)
        /\ secret.on => New(secret.key) \/ secret = command.rows

Sealed(d, name) == \A g \in disk : g.doc = d /\ g.name = name => g.sealed = TRUE
Unsealed(d, name) == \A g \in disk : g.doc = d /\ g.name = name => g.sealed = FALSE

\* A file is as the row says, and the one being written is sealed.
FileAs(d, row) ==
    /\ row.key # 0 => Sealed(d, row.name)
    /\ row.key = 0 => row.name = 1 /\ Unsealed(d, 1)

SealedOk ==
    /\ \A d \in KeyDocs : stored[d].state = "kept" => FileAs(d, stored[d])
    /\ \A d \in worker.at : worker.pc = "create" => FileAs(d, worker.rows[d])
    /\ \A d \in command.at : command.pc = "update" => Sealed(d, command.name)
    /\ \A g \in disk : g.doc \in KeyDocs /\ g.name \in Nat

\* A command changed the row a worker is about to save or to delete.
Stale(d) == d \in worker.at /\ worker.pc # "create" /\ stored[d] # worker.rows[d]

Names(d) == {g.name : g \in {g \in disk : g.doc = d}}

\* The file of the row, or of the row being stored or deleted ...
Own(d) ==
    CASE d \in worker.at /\ worker.pc = "create" -> {1}
      [] d \in worker.at /\ worker.pc \in {"drop", "save"} -> {}
      [] OTHER -> IF stored[d].state = "kept" THEN {stored[d].name} ELSE {}

\* ... and the one encrypt_documents wrote or left behind.
Spare(d) == IF command.pc \in {"update", "unlink"} /\ d \in command.at THEN {command.name} ELSE {}

DiskOk(d) ==
    ~Stale(d) => Names(d) = Own(d) \cup Spare(d) /\ Own(d) \cap Spare(d) = {}

KeysInv ==
    /\ KeysTyped /\ WorkerOk /\ CommandOk
    /\ OpeningOk /\ NewOk /\ SealedOk
    /\ ~killed /\ ~crossed => \A d \in KeyDocs : DiskOk(d)

\* Seven facts make the invariant.
LEMMA KeysParts ==
    ASSUME KeysTyped', WorkerOk', CommandOk', OpeningOk', NewOk', SealedOk',
           ~killed' /\ ~crossed' => \A d \in KeyDocs : DiskOk(d)'
    PROVE  KeysInv'
BY DEF KeysInv

LEMMA IdleWorks ==
    /\ K!Idle.pc = "idle" /\ K!Idle.at = {}
    /\ K!Absent \in Row /\ K!Absent.state = "none" /\ K!Absent.key = 0 /\ K!Absent.name = 0
BY DEF K!Idle, K!Absent, Row

-----------------------------------------------------------------------------
(* Keys: the worker *)

LEMMA FileStored ==
    ASSUME KeysInv, NEW d \in KeyDocs, K!StoreFile(d)
    PROVE  KeysInv'
<1> DEFINE row == [state |-> "kept", name |-> 1, key |-> current]
           file == [doc |-> d, name |-> 1, sealed |-> current # 0]
<1>1. /\ worker = K!Idle /\ stored[d] = K!Absent
      /\ \A g \in disk : ~(g.doc = d /\ g.name = 1)
      /\ disk' = disk \cup {file}
      /\ worker'.pc = "create" /\ worker'.at = {d} /\ worker'.rows[d] = row
      /\ UNCHANGED <<current, olds, stored, secret, command, said, killed, crossed>>
  BY DEF K!StoreFile, K!Work, K!FileOf, K!Saved
<1>2. row \in Row /\ row.key = current /\ row.name = 1 /\ row.state = "kept"
  BY DEF KeysInv, KeysTyped, Row
<1>3. /\ file.doc = d /\ file.name = 1
      /\ current = 0 => file.sealed = FALSE
      /\ current # 0 => file.sealed = TRUE
  OBVIOUS
<1> HIDE DEF file
<1>4. KeysTyped' /\ CommandOk' /\ OpeningOk' /\ NewOk'
  BY <1>1 DEF KeysInv, KeysTyped, CommandOk, Coming, OpeningOk, NewOk, New, Counts, K!Opens, K!Keyring
<1>5. WorkerOk'
  BY <1>1, <1>2 DEF WorkerOk, CopyOk
<1>6. SealedOk'
  <2>1. ASSUME NEW e \in KeyDocs, stored[e].state = "kept" PROVE FileAs(e, stored[e])'
    <3>1. e # d
      BY <1>1, <2>1, IdleWorks
    <3>2. FileAs(e, stored[e])
      BY <2>1 DEF KeysInv, SealedOk
    <3> QED BY <1>1, <1>3, <3>1, <3>2 DEF FileAs, Sealed, Unsealed
  <2>2. FileAs(d, row)'
    BY <1>1, <1>2, <1>3 DEF FileAs, Sealed, Unsealed
  <2>3. ASSUME NEW e \in command.at, command.pc = "update" PROVE Sealed(e, command.name)'
    <3>1. current # 0 /\ Sealed(e, command.name)
      BY <2>3 DEF KeysInv, CommandOk, SealedOk
    <3> QED BY <1>1, <1>3, <3>1 DEF Sealed
  <2>4. \A g \in disk' : g.doc \in KeyDocs /\ g.name \in Nat
    BY <1>1, <1>3 DEF KeysInv, SealedOk
  <2> QED BY <1>1, <2>1, <2>2, <2>3, <2>4 DEF SealedOk
<1>7. ASSUME ~killed' /\ ~crossed', NEW e \in KeyDocs PROVE DiskOk(e)'
  <2>1. DiskOk(e) /\ ~Stale(e) /\ ~Stale(e)'
    BY <1>1, <1>7, IdleWorks DEF KeysInv, Stale
  <2>2. Spare(e)' = Spare(e)
    BY <1>1 DEF Spare
  <2>3. CASE e = d
    <3>1. Names(d)' = Names(d) \cup {1} /\ 1 \notin Names(d)
      BY <1>1, <1>3 DEF Names
    <3>2. Own(d) = {} /\ Own(d)' = {1}
      BY <1>1, IdleWorks DEF Own
    <3> QED BY <2>1, <2>2, <2>3, <3>1, <3>2 DEF DiskOk
  <2>4. CASE e # d
    <3>1. Names(e)' = Names(e)
      BY <1>1, <1>3, <2>4 DEF Names
    <3>2. Own(e)' = Own(e)
      BY <1>1, <2>4, IdleWorks DEF Own
    <3> QED BY <2>1, <2>2, <3>1, <3>2 DEF DiskOk
  <2> QED BY <2>3, <2>4
<1> QED BY <1>4, <1>5, <1>6, <1>7, KeysParts

LEMMA RowRead ==
    ASSUME KeysInv, NEW d \in KeyDocs, NEW pc \in {"delete", "anonymize"}, K!ReadRow(d, pc)
    PROVE  KeysInv'
<1>1. /\ worker = K!Idle /\ stored[d].state = "kept"
      /\ worker'.pc = pc /\ worker'.at = {d} /\ worker'.rows[d] = stored[d]
      /\ UNCHANGED <<current, olds, stored, disk, secret, command, said, killed, crossed>>
  BY DEF K!ReadRow, K!Work
<1>2. KeysTyped' /\ CommandOk' /\ OpeningOk' /\ NewOk'
  BY <1>1 DEF KeysInv, KeysTyped, CommandOk, Coming, OpeningOk, NewOk, New, Counts, K!Opens, K!Keyring
<1>3. WorkerOk'
  BY <1>1 DEF KeysInv, KeysTyped, WorkerOk, CopyOk
<1>4. SealedOk'
  BY <1>1 DEF KeysInv, SealedOk, FileAs, Sealed, Unsealed
<1>5. ASSUME ~killed' /\ ~crossed', NEW e \in KeyDocs PROVE DiskOk(e)'
  <2>1. DiskOk(e) /\ ~Stale(e)
    BY <1>1, <1>5, IdleWorks DEF KeysInv, Stale
  <2>2. Spare(e)' = Spare(e) /\ Own(e)' = Own(e) /\ Names(e)' = Names(e)
    BY <1>1, IdleWorks DEF Spare, Own, Names
  <2> QED BY <2>1, <2>2 DEF DiskOk
<1> QED BY <1>2, <1>3, <1>4, <1>5, KeysParts

LEMMA FileRemoved ==
    ASSUME KeysInv, NEW d \in KeyDocs, K!RemoveFile(d)
    PROVE  KeysInv'
<1> DEFINE row == worker.rows[d]
<1>1. /\ worker.pc \in {"delete", "anonymize"} /\ d \in worker.at
      /\ disk' = {g \in disk : ~(g.doc = d /\ g.name = row.name)}
      /\ worker'.pc \in {"drop", "save"} /\ worker'.at = {d} /\ worker'.rows[d] = row
      /\ UNCHANGED <<current, olds, stored, secret, command, said, killed, crossed>>
  BY DEF K!RemoveFile, K!Work, K!FileOf
<1>2. CopyOk(d) /\ worker.at = {d}
  BY <1>1 DEF KeysInv, WorkerOk, CopyOk
<1>3. KeysTyped' /\ CommandOk' /\ OpeningOk' /\ NewOk'
  BY <1>1 DEF KeysInv, KeysTyped, CommandOk, Coming, OpeningOk, NewOk, New, Counts, K!Opens, K!Keyring
<1>4. WorkerOk'
  BY <1>1, <1>2 DEF WorkerOk, CopyOk
<1>5. SealedOk'
  BY <1>1 DEF KeysInv, SealedOk, FileAs, Sealed, Unsealed
<1>6. ASSUME ~killed' /\ ~crossed', NEW e \in KeyDocs PROVE DiskOk(e)'
  <2>1. DiskOk(e) /\ (Stale(e)' <=> Stale(e)) /\ Spare(e)' = Spare(e)
    BY <1>1, <1>2, <1>6 DEF KeysInv, Stale, Spare
  <2>2. CASE e = d /\ ~Stale(d)
    <3>1. row = stored[d]
      BY <1>1, <2>2 DEF Stale
    <3>2. Names(d)' = Names(d) \ {row.name}
      BY <1>1 DEF Names
    <3>3. Own(d)' = {} /\ Own(d) \subseteq {row.name}
      BY <1>1, <3>1 DEF Own
    <3>4. row.name \notin Spare(d)
      BY <1>1, <1>2, <2>1, <2>2, <3>1 DEF DiskOk, Own, CopyOk
    <3> QED BY <2>1, <2>2, <3>2, <3>3, <3>4 DEF DiskOk
  <2>3. CASE e # d
    <3>1. Names(e)' = Names(e) /\ Own(e)' = Own(e)
      BY <1>1, <1>2, <2>3 DEF Names, Own
    <3> QED BY <2>1, <3>1 DEF DiskOk
  <2> QED BY <2>1, <2>2, <2>3 DEF DiskOk
<1> QED BY <1>3, <1>4, <1>5, <1>6, KeysParts

LEMMA RowSaved ==
    ASSUME KeysInv, NEW d \in KeyDocs, K!SaveRow(d)
    PROVE  KeysInv'
<1> DEFINE row == worker.rows[d]
<1>1. /\ worker.pc \in {"create", "drop", "save"} /\ d \in worker.at
      /\ worker' = K!Idle
      /\ UNCHANGED <<current, olds, disk, secret, command, said, killed>>
  BY DEF K!SaveRow
<1>2. CopyOk(d) /\ worker.at = {d} /\ row.state = "kept"
  BY <1>1 DEF KeysInv, WorkerOk, CopyOk
<1>3. PICK next \in Row :
         /\ stored' = [stored EXCEPT ![d] = next]
         /\ worker.pc = "create" => next = row
         /\ worker.pc = "drop" => next = K!Absent
         /\ worker.pc = "save" => next = [row EXCEPT !.state = "anonymized", !.name = 0]
  <2>1. CASE worker.pc = "create"
    BY <1>2, <2>1 DEF K!SaveRow, CopyOk
  <2>2. CASE worker.pc = "drop"
    BY <2>2, IdleWorks DEF K!SaveRow
  <2>3. CASE worker.pc = "save"
    <3> DEFINE next == [row EXCEPT !.state = "anonymized", !.name = 0]
    <3>1. next \in Row
      BY <1>2 DEF CopyOk, Row
    <3>2. stored' = [stored EXCEPT ![d] = next]
      BY <2>3 DEF K!SaveRow
    <3> QED BY <2>3, <3>1, <3>2
  <2> QED BY <1>1, <2>1, <2>2, <2>3
<1>4. /\ worker.pc = "create" => crossed' = crossed
      /\ ~crossed' => ~crossed /\ (worker.pc = "create" \/ stored[d] = row)
      /\ crossed' \in BOOLEAN
      /\ crossed => crossed'
  BY DEF K!SaveRow, KeysInv, KeysTyped
<1>5. /\ next.state = "kept" => worker.pc = "create"
      /\ worker.pc = "create" => next.key = current /\ next.name = 1 /\ next.state = "kept"
      /\ worker.pc = "drop" => next.key = 0 /\ next.state = "none"
      /\ worker.pc = "save" => next.key = row.key /\ next.state = "anonymized"
  <2>1. CASE worker.pc = "create"
    BY <1>2, <1>3, <2>1 DEF CopyOk
  <2>2. CASE worker.pc = "drop"
    BY <1>3, <2>2, IdleWorks
  <2>3. CASE worker.pc = "save"
    <3>1. row \in Row
      BY <1>2 DEF CopyOk
    <3>2. next.key = row.key /\ next.state = "anonymized"
      BY <1>3, <2>3, <3>1 DEF Row
    <3> QED BY <2>3, <3>2
  <2> QED BY <1>1, <2>1, <2>2, <2>3
<1>6. /\ stored'[d] = next /\ stored' \in [KeyDocs -> Row]
      /\ \A e \in KeyDocs : e # d => stored'[e] = stored[e]
  BY <1>3 DEF KeysInv, KeysTyped
\* A row that still counts has the key it had, or the one of now.
<1>7. \A e \in KeyDocs : Counts(e)' =>
         (Counts(e) /\ stored'[e].key = stored[e].key) \/ New(stored'[e].key)
  <2>1. ASSUME NEW e \in KeyDocs, Counts(e)', e = d
        PROVE  (Counts(e) /\ stored'[e].key = stored[e].key) \/ New(stored'[e].key)
    BY <1>1, <1>4, <1>5, <1>6, <2>1 DEF Counts, New
  <2>2. ASSUME NEW e \in KeyDocs, Counts(e)', e # d
        PROVE  Counts(e) /\ stored'[e].key = stored[e].key
    BY <1>4, <1>6, <2>2 DEF Counts
  <2> QED BY <2>1, <2>2
<1>8. \A key : New(key)' = New(key) /\ K!Opens(key)' = K!Opens(key) /\ (key \in {0, current} => K!Opens(key))
  BY <1>1 DEF New, K!Opens, K!Keyring
<1>9. KeysTyped'
  BY <1>1, <1>4, <1>6 DEF KeysInv, KeysTyped
<1>10. WorkerOk'
  BY <1>1, IdleWorks DEF WorkerOk
<1>11. CommandOk'
  <2>1. \A e \in Coming' : e \in DOMAIN command.rows /\ e \in Coming
    BY <1>1 DEF Coming
  <2> QED BY <1>1, <1>5, <1>6, <2>1 DEF KeysInv, CommandOk
<1>12. OpeningOk'
  BY <1>1, <1>7, <1>8 DEF KeysInv, OpeningOk, New
<1>13. NewOk'
  BY <1>1, <1>7, <1>8 DEF KeysInv, NewOk
<1>14. SealedOk'
  <2>1. ASSUME NEW e \in KeyDocs, stored'[e].state = "kept" PROVE FileAs(e, stored[e])'
    <3>1. CASE e = d
      <4>1. worker.pc = "create" /\ stored'[e] = row
        BY <1>3, <1>5, <1>6, <2>1, <3>1
      <4>2. FileAs(d, row)
        BY <1>1, <4>1 DEF KeysInv, SealedOk
      <4> QED BY <1>1, <3>1, <4>1, <4>2 DEF FileAs, Sealed, Unsealed
    <3>2. CASE e # d
      BY <1>1, <1>6, <2>1, <3>2 DEF KeysInv, SealedOk, FileAs, Sealed, Unsealed
    <3> QED BY <3>1, <3>2
  <2> QED BY <1>1, <2>1, IdleWorks DEF KeysInv, SealedOk, Sealed
<1>15. ASSUME ~killed' /\ ~crossed', NEW e \in KeyDocs PROVE DiskOk(e)'
  <2>1. DiskOk(e) /\ Spare(e)' = Spare(e) /\ Names(e)' = Names(e)
    BY <1>1, <1>4, <1>15 DEF KeysInv, Spare, Names
  <2>2. ~Stale(e) /\ ~Stale(e)'
    BY <1>1, <1>2, <1>4, <1>15, IdleWorks DEF Stale
  <2>3. Own(e)' = Own(e)
    <3>1. CASE e = d
      BY <1>1, <1>5, <1>6, <3>1, IdleWorks DEF Own
    <3>2. CASE e # d
      BY <1>1, <1>2, <1>6, <3>2, IdleWorks DEF Own
    <3> QED BY <3>1, <3>2
  <2> QED BY <2>1, <2>2, <2>3 DEF DiskOk
<1> QED BY <1>9, <1>10, <1>11, <1>12, <1>13, <1>14, <1>15, KeysParts

LEMMA SecretSet ==
    ASSUME KeysInv, K!SetUp \/ K!TurnOff
    PROVE  KeysInv'
<1>1. /\ secret' \in [pk : Nat, on : BOOLEAN, key : Nat]
      /\ secret'.on = TRUE => secret'.key = current
      /\ UNCHANGED <<current, olds, stored, disk, worker, command, said, killed, crossed>>
  <2>1. CASE K!SetUp
    BY <2>1 DEF K!SetUp, KeysInv, KeysTyped
  <2>2. CASE K!TurnOff
    BY <2>2 DEF K!TurnOff, KeysInv, KeysTyped
  <2> QED BY <2>1, <2>2
<1>2. secret'.on => secret'.key = current
  BY <1>1
<1>3. KeysTyped' /\ WorkerOk' /\ CommandOk'
  BY <1>1 DEF KeysInv, KeysTyped, WorkerOk, CopyOk, CommandOk, Coming
<1>4. OpeningOk' /\ NewOk'
  BY <1>1, <1>2 DEF KeysInv, KeysTyped, OpeningOk, NewOk, New, Counts, K!Opens, K!Keyring
<1>5. SealedOk'
  BY <1>1 DEF KeysInv, SealedOk, FileAs, Sealed, Unsealed
<1>6. ASSUME ~killed' /\ ~crossed', NEW e \in KeyDocs PROVE DiskOk(e)'
  BY <1>1, <1>6 DEF KeysInv, DiskOk, Stale, Spare, Own, Names
<1> QED BY <1>3, <1>4, <1>5, <1>6, KeysParts

-----------------------------------------------------------------------------
(* Keys: encrypt_documents *)

LEMMA EncryptListed ==
    ASSUME KeysInv, K!EncryptBegin
    PROVE  KeysInv'
<1>1. /\ command = K!Idle /\ current # 0
      /\ command'.pc = "encrypt" /\ command'.at = {} /\ command' # K!Idle
      /\ DOMAIN command'.rows = {d \in KeyDocs : stored[d].state = "kept" /\ stored[d].key = 0}
      /\ \A d \in DOMAIN command'.rows : command'.rows[d] = stored[d]
      /\ UNCHANGED <<current, olds, stored, disk, secret, worker, said, killed, crossed>>
  BY DEF K!EncryptBegin, K!Run, K!Idle
<1>2. KeysTyped' /\ WorkerOk' /\ OpeningOk'
  BY <1>1 DEF KeysInv, KeysTyped, WorkerOk, CopyOk, OpeningOk, Counts, K!Opens, K!Keyring
<1>3. CommandOk'
  <2>1. ASSUME NEW d \in DOMAIN command'.rows
        PROVE  d \in KeyDocs /\ command'.rows[d] = [state |-> "kept", name |-> 1, key |-> 0]
    <3>1. /\ stored[d] \in Row /\ stored[d].state = "kept" /\ stored[d].key = 0
          /\ d \in KeyDocs /\ command'.rows[d] = stored[d]
      BY <1>1, <2>1 DEF KeysInv, KeysTyped
    <3>2. stored[d].name = 1
      BY <3>1 DEF KeysInv, SealedOk, FileAs
    <3> QED BY <3>1, <3>2 DEF Row
  <2>2. \A d \in Coming' : stored'[d].name = 1
    BY <1>1, <2>1 DEF Coming
  <2> QED BY <1>1, <2>1, <2>2 DEF CommandOk
<1>4. NewOk'
  BY <1>1 DEF KeysInv, NewOk, New, Counts
<1>5. SealedOk'
  BY <1>1 DEF KeysInv, SealedOk, FileAs, Sealed, Unsealed
<1>6. ASSUME ~killed' /\ ~crossed', NEW e \in KeyDocs PROVE DiskOk(e)'
  <2>1. Spare(e) = {} /\ Spare(e)' = {}
    BY <1>1, IdleWorks DEF Spare
  <2> QED BY <1>1, <1>6, <2>1 DEF KeysInv, DiskOk, Stale, Own, Names
<1> QED BY <1>2, <1>3, <1>4, <1>5, <1>6, KeysParts

\* The command goes on to the next row, its current file being gone.
LEMMA NextRow ==
    ASSUME KeysInv, NEW d, command.pc = "encrypt" \/ (command.pc = "unlink" /\ command.at = {d}),
           K!Run("encrypt", K!Others(d), {}, 0),
           UNCHANGED <<current, olds, stored, secret, worker, said, killed, crossed>>
    PROVE  KeysTyped' /\ WorkerOk' /\ CommandOk' /\ OpeningOk' /\ NewOk'
<1>1. /\ command'.pc = "encrypt" /\ command'.at = {} /\ command' # K!Idle
      /\ DOMAIN command'.rows = DOMAIN command.rows \ {d}
      /\ \A e \in DOMAIN command'.rows : command'.rows[e] = command.rows[e]
  BY DEF K!Run, K!Others, K!Idle
<1>2. KeysTyped' /\ WorkerOk' /\ OpeningOk' /\ NewOk'
  BY <1>1 DEF KeysInv, KeysTyped, WorkerOk, CopyOk, OpeningOk, NewOk, New, Counts, K!Opens, K!Keyring
<1>3. \A e \in Coming' : e \in Coming
  BY <1>1 DEF Coming
<1> QED BY <1>1, <1>2, <1>3 DEF KeysInv, CommandOk

LEMMA FileWritten ==
    ASSUME KeysInv, NEW d \in KeyDocs, K!EncryptWrite(d)
    PROVE  KeysInv'
<1>1. /\ command.pc = "encrypt" /\ d \in DOMAIN command.rows /\ current # 0
      /\ command.rows[d] = [state |-> "kept", name |-> 1, key |-> 0]
      /\ UNCHANGED <<current, olds, stored, secret, worker, said, killed, crossed>>
  BY DEF K!EncryptWrite, KeysInv, CommandOk
<1>2. CASE K!FileOf(d, command.rows[d]) = {}
  <2>1. K!Run("encrypt", K!Others(d), {}, 0) /\ UNCHANGED disk
    BY <1>2 DEF K!EncryptWrite
  <2>2. command'.pc = "encrypt" /\ command'.at = {}
    BY <2>1 DEF K!Run
  <2>3. SealedOk'
    BY <1>1, <2>1, <2>2 DEF KeysInv, SealedOk, FileAs, Sealed, Unsealed
  <2>4. ASSUME ~killed' /\ ~crossed', NEW e \in KeyDocs PROVE DiskOk(e)'
    <3>1. Spare(e) = {} /\ Spare(e)' = {}
      BY <1>1, <2>2 DEF Spare
    <3> QED BY <1>1, <2>1, <2>4, <3>1 DEF KeysInv, DiskOk, Stale, Own, Names
  <2> QED BY <1>1, <2>1, <2>3, <2>4, NextRow, KeysParts
<1>3. CASE K!FileOf(d, command.rows[d]) # {}
  <2>1. PICK name \in K!FreeNames(d) :
           disk' = disk \cup {K!Saved(d, name)} /\ K!Run("update", command.rows, {d}, name)
    BY <1>3 DEF K!EncryptWrite
  <2> DEFINE file == K!Saved(d, name)
  <2>2. file.doc = d /\ file.name = name /\ file.sealed = TRUE
    BY <1>1 DEF K!Saved
  <2> HIDE DEF file
  <2>3. /\ command'.pc = "update" /\ command'.at = {d} /\ command'.rows = command.rows
        /\ command'.name = name /\ command' # K!Idle
    BY <2>1 DEF K!Run, K!Idle
  <2>4. /\ name \in Nat /\ name # 1 /\ name \notin Names(d)
        /\ \A g \in disk : g.doc # d \/ g.name # name
    BY <1>1, <1>3, <2>1 DEF K!FreeNames, K!FileOf, Names
  <2>5. KeysTyped' /\ WorkerOk' /\ OpeningOk' /\ NewOk'
    BY <1>1, <2>3 DEF KeysInv, KeysTyped, WorkerOk, CopyOk, OpeningOk, NewOk, New, Counts, K!Opens, K!Keyring
  <2>6. CommandOk'
    <3>1. \A e \in Coming' : e \in Coming
      BY <1>1, <2>3 DEF Coming
    <3> QED BY <1>1, <2>3, <2>4, <3>1 DEF KeysInv, CommandOk
  <2>7. SealedOk'
    <3>1. \A e, n : Sealed(e, n) => Sealed(e, n)'
      BY <2>1, <2>2 DEF Sealed, file
    <3>2. \A e \in KeyDocs : stored[e].state = "kept" => FileAs(e, stored[e])'
      <4>1. ASSUME NEW e \in KeyDocs, stored[e].state = "kept", stored[e].key = 0, e = d
            PROVE  Unsealed(e, 1)'
        BY <2>1, <2>2, <2>4, <4>1 DEF KeysInv, SealedOk, FileAs, Unsealed, file
      <4>2. ASSUME NEW e \in KeyDocs, stored[e].state = "kept", stored[e].key = 0, e # d
            PROVE  Unsealed(e, 1)'
        BY <2>1, <2>2, <4>2 DEF KeysInv, SealedOk, FileAs, Unsealed, file
      <4> QED BY <1>1, <3>1, <4>1, <4>2 DEF KeysInv, SealedOk, FileAs
    <3>3. \A e \in worker.at : worker.pc = "create" => FileAs(e, worker.rows[e])'
      <4>1. ASSUME NEW e \in worker.at, worker.pc = "create"
            PROVE  worker.rows[e].key # 0
        BY <1>1, <4>1 DEF KeysInv, WorkerOk, CopyOk
      <4> QED BY <1>1, <3>1, <4>1 DEF KeysInv, SealedOk, FileAs
    <3>4. Sealed(d, name)'
      BY <2>1, <2>2, <2>4 DEF Sealed, file
    <3>5. \A g \in disk' : g.doc \in KeyDocs /\ g.name \in Nat
      BY <2>1, <2>2, <2>4 DEF KeysInv, SealedOk, file
    <3> QED BY <1>1, <2>3, <3>2, <3>3, <3>4, <3>5 DEF SealedOk
  <2>8. ASSUME ~killed' /\ ~crossed', NEW e \in KeyDocs PROVE DiskOk(e)'
    <3>1. DiskOk(e) /\ (Stale(e)' <=> Stale(e)) /\ Own(e)' = Own(e) /\ Spare(e) = {}
      BY <1>1, <2>8 DEF KeysInv, Stale, Own, Spare
    <3>2. CASE e = d
      <4>1. Names(d)' = Names(d) \cup {name} /\ Spare(d)' = {name}
        BY <2>1, <2>2, <2>3 DEF Names, Spare, file
      <4> QED BY <2>4, <3>1, <3>2, <4>1 DEF DiskOk
    <3>3. CASE e # d
      <4>1. Names(e)' = Names(e) /\ Spare(e)' = {}
        BY <2>1, <2>2, <2>3, <3>3 DEF Names, Spare, file
      <4> QED BY <3>1, <4>1 DEF DiskOk
    <3> QED BY <3>2, <3>3
  <2> QED BY <2>5, <2>6, <2>7, <2>8, KeysParts
<1> QED BY <1>2, <1>3

LEMMA RowUpdated ==
    ASSUME KeysInv, NEW d \in KeyDocs, K!EncryptUpdate(d)
    PROVE  KeysInv'
<1>1. /\ command.pc = "update" /\ command.at = {d} /\ d \in DOMAIN command.rows
      /\ current # 0 /\ current \in Nat /\ command.name \in Nat /\ command.name # 1
      /\ command.rows[d] = [state |-> "kept", name |-> 1, key |-> 0]
      /\ UNCHANGED <<current, olds, disk, secret, worker, said, killed, crossed>>
  BY DEF K!EncryptUpdate, KeysInv, KeysTyped, CommandOk
<1>2. CASE stored[d] = command.rows[d]
  <2>1. PICK next \in Row : /\ stored' = [stored EXCEPT ![d] = next]
                           /\ next.key = current /\ next.name = command.name /\ next.state = "kept"
    <3> DEFINE new == [stored[d] EXCEPT !.name = command.name, !.key = current]
    <3>1. stored[d] \in Row /\ stored[d].state = "kept"
      BY <1>1, <1>2 DEF Row
    <3>2. new \in Row /\ new.key = current /\ new.name = command.name /\ new.state = "kept"
      BY <1>1, <3>1 DEF Row
    <3>3. stored' = [stored EXCEPT ![d] = new]
      BY <1>2 DEF K!EncryptUpdate
    <3> QED BY <3>2, <3>3
  <2>2. /\ command'.pc = "unlink" /\ command'.at = {d} /\ command'.rows = command.rows
        /\ command'.name = 1 /\ command' # K!Idle
    BY <1>1, <1>2 DEF K!EncryptUpdate, K!Run, K!Idle
  <2>3. next.key = current /\ next.name = command.name /\ next.state = "kept"
    BY <2>1
  <2>4. /\ stored'[d] = next /\ stored' \in [KeyDocs -> Row]
        /\ \A e \in KeyDocs : e # d => stored'[e] = stored[e]
    BY <2>1 DEF KeysInv, KeysTyped
  <2>5. stored[d].state = "kept" /\ stored[d].name = 1 /\ stored[d].key = 0
    BY <1>1, <1>2
  <2>6. KeysTyped' /\ OpeningOk' /\ NewOk'
    BY <1>1, <2>2, <2>3, <2>4
       DEF KeysInv, KeysTyped, OpeningOk, NewOk, New, Counts, K!Opens, K!Keyring
  <2>7. WorkerOk'
    <3>1. ASSUME NEW e \in worker.at PROVE e \in KeyDocs /\ CopyOk(e)'
      <4>1. CopyOk(e) /\ e \in KeyDocs
        BY <3>1 DEF KeysInv, WorkerOk
      <4>2. CASE e # d
        BY <1>1, <2>4, <4>1, <4>2 DEF CopyOk
      <4>3. CASE e = d
        <5>1. worker.pc # "create" /\ stored[d] = worker.rows[d]
          BY <1>1, <2>5, <4>1, <4>3, IdleWorks DEF CopyOk
        <5> QED BY <1>1, <2>3, <2>4, <2>5, <4>1, <4>3, <5>1 DEF CopyOk
      <4> QED BY <4>2, <4>3
    <3> QED BY <1>1, <3>1 DEF KeysInv, WorkerOk
  <2>8. CommandOk'
    <3>1. \A e \in Coming' : e \in Coming /\ e # d /\ e \in KeyDocs
      BY <1>1, <2>2 DEF Coming, KeysInv, CommandOk
    <3> QED BY <1>1, <2>2, <2>4, <3>1 DEF KeysInv, CommandOk
  <2>9. SealedOk'
    <3>1. Sealed(d, command.name)
      BY <1>1 DEF KeysInv, SealedOk
    <3>2. FileAs(d, next)'
      BY <1>1, <2>3, <3>1 DEF FileAs, Sealed
    <3>3. ASSUME NEW e \in KeyDocs, stored'[e].state = "kept" PROVE FileAs(e, stored[e])'
      <4>1. CASE e = d
        BY <2>4, <3>2, <4>1 DEF FileAs, Sealed, Unsealed
      <4>2. CASE e # d
        BY <1>1, <2>4, <3>3, <4>2 DEF KeysInv, SealedOk, FileAs, Sealed, Unsealed
      <4> QED BY <4>1, <4>2
    <3> QED BY <1>1, <2>2, <3>3 DEF KeysInv, SealedOk, FileAs, Sealed, Unsealed
  <2>10. ASSUME ~killed' /\ ~crossed', NEW e \in KeyDocs PROVE DiskOk(e)'
    <3>1. DiskOk(e) /\ Names(e)' = Names(e)
      BY <1>1, <2>10 DEF KeysInv, Names
    <3>2. CASE e # d
      <4>1. (Stale(e)' <=> Stale(e)) /\ Own(e)' = Own(e) /\ Spare(e)' = Spare(e)
        BY <1>1, <2>2, <2>4, <3>2 DEF Stale, Own, Spare
      <4> QED BY <3>1, <4>1 DEF DiskOk
    <3>3. CASE e = d /\ d \in worker.at
      <4>1. worker.pc # "create" /\ stored[d] = worker.rows[d]
        BY <1>1, <2>5, <3>3, IdleWorks DEF KeysInv, WorkerOk, CopyOk
      <4>2. Stale(d)'
        BY <1>1, <2>3, <2>4, <2>5, <3>3, <4>1 DEF Stale
      <4> QED BY <3>3, <4>2 DEF DiskOk
    <3>4. CASE e = d /\ d \notin worker.at
      <4>1. ~Stale(d) /\ ~Stale(d)'
        BY <1>1, <3>4 DEF Stale
      <4>2. Own(d) = {1} /\ Spare(d) = {command.name}
        BY <1>1, <2>5, <3>4 DEF Own, Spare
      <4>3. Own(d)' = {command.name} /\ Spare(d)' = {1}
        BY <1>1, <2>2, <2>3, <2>4, <3>4 DEF Own, Spare
      <4> QED BY <1>1, <3>1, <3>4, <4>1, <4>2, <4>3 DEF DiskOk
    <3> QED BY <3>2, <3>3, <3>4
  <2> QED BY <2>6, <2>7, <2>8, <2>9, <2>10, KeysParts
<1>3. CASE stored[d] # command.rows[d]
  <2>1. /\ command'.pc = "unlink" /\ command'.at = {d} /\ command'.rows = command.rows
        /\ command'.name = command.name /\ command' # K!Idle /\ stored' = stored
    BY <1>3 DEF K!EncryptUpdate, K!Run, K!Idle
  <2>2. KeysTyped' /\ OpeningOk' /\ NewOk' /\ WorkerOk'
    BY <1>1, <2>1
       DEF KeysInv, KeysTyped, WorkerOk, CopyOk, OpeningOk, NewOk, New, Counts, K!Opens, K!Keyring
  <2>3. CommandOk'
    <3>1. \A e \in Coming' : e \in Coming
      BY <1>1, <2>1 DEF Coming
    <3> QED BY <1>1, <2>1, <3>1 DEF KeysInv, CommandOk
  <2>4. SealedOk'
    BY <1>1, <2>1 DEF KeysInv, SealedOk, FileAs, Sealed, Unsealed
  <2>5. ASSUME ~killed' /\ ~crossed', NEW e \in KeyDocs PROVE DiskOk(e)'
    <3>1. Spare(e)' = Spare(e)
      BY <1>1, <2>1 DEF Spare
    <3> QED BY <1>1, <2>1, <2>5, <3>1 DEF KeysInv, DiskOk, Stale, Own, Names
  <2> QED BY <2>2, <2>3, <2>4, <2>5, KeysParts
<1> QED BY <1>2, <1>3

LEMMA FileUnlinked ==
    ASSUME KeysInv, NEW d \in KeyDocs, K!EncryptUnlink(d)
    PROVE  KeysInv'
<1>1. /\ command.pc = "unlink" /\ command.at = {d}
      /\ disk' = {g \in disk : ~(g.doc = d /\ g.name = command.name)}
      /\ K!Run("encrypt", K!Others(d), {}, 0)
      /\ UNCHANGED <<current, olds, stored, secret, worker, said, killed, crossed>>
  BY DEF K!EncryptUnlink, K!FileOf, KeysInv, CommandOk
<1>2. command'.pc = "encrypt" /\ command'.at = {}
  BY <1>1 DEF K!Run
<1>3. SealedOk'
  BY <1>1, <1>2 DEF KeysInv, SealedOk, FileAs, Sealed, Unsealed
<1>4. ASSUME ~killed' /\ ~crossed', NEW e \in KeyDocs PROVE DiskOk(e)'
  <2>1. DiskOk(e) /\ (Stale(e)' <=> Stale(e)) /\ Own(e)' = Own(e) /\ Spare(e)' = {}
    BY <1>1, <1>2, <1>4 DEF KeysInv, Stale, Own, Spare
  <2>2. CASE e = d
    <3>1. Names(d)' = Names(d) \ {command.name} /\ Spare(d) = {command.name}
      BY <1>1 DEF Names, Spare
    <3> QED BY <2>1, <2>2, <3>1 DEF DiskOk
  <2>3. CASE e # d
    <3>1. Names(e)' = Names(e) /\ Spare(e) = {}
      BY <1>1, <2>3 DEF Names, Spare
    <3> QED BY <2>1, <3>1 DEF DiskOk
  <2> QED BY <2>2, <2>3
<1> QED BY <1>1, <1>3, <1>4, NextRow, KeysParts

-----------------------------------------------------------------------------
(* Keys: commands without a file in hand *)

\* A command begins or goes on where no file is written; a row or the secret
\* may be of the new key by then.
LEMMA NoFileWritten ==
    ASSUME KeysInv, KeysTyped', WorkerOk', CommandOk', OpeningOk', NewOk',
           command.pc \notin {"update", "unlink"}, command'.pc \notin {"update", "unlink"},
           \A d \in KeyDocs : \/ stored'[d] = stored[d]
                              \/ /\ stored[d].key # 0 /\ stored'[d].key # 0
                                 /\ stored'[d].state = stored[d].state
                                 /\ stored'[d].name = stored[d].name,
           \A d \in KeyDocs : Stale(d) => Stale(d)',
           UNCHANGED <<disk, worker, killed, crossed>>
    PROVE  KeysInv'
<1>1. SealedOk'
  BY DEF KeysInv, SealedOk, FileAs, Sealed, Unsealed
<1>2. ASSUME ~killed' /\ ~crossed', NEW e \in KeyDocs PROVE DiskOk(e)'
  <2>1. Spare(e) = {} /\ Spare(e)' = {} /\ Names(e)' = Names(e)
    BY DEF Spare, Names
  <2>2. Own(e)' = Own(e)
    BY DEF Own
  <2> QED BY <1>2, <2>1, <2>2 DEF KeysInv, DiskOk
<1> QED BY <1>1, <1>2, KeysParts

LEMMA EncryptEnded ==
    ASSUME KeysInv, K!EncryptEnd
    PROVE  KeysInv'
<1>1. /\ command.pc = "encrypt" /\ command' = K!Idle
      /\ UNCHANGED <<current, olds, stored, disk, secret, worker, said, killed, crossed>>
  BY DEF K!EncryptEnd
<1>2. command'.pc = "idle"
  BY <1>1, IdleWorks
<1>3. KeysTyped' /\ WorkerOk' /\ CommandOk' /\ OpeningOk' /\ NewOk'
  BY <1>1, <1>2 DEF KeysInv, KeysTyped, WorkerOk, CopyOk, CommandOk, OpeningOk, NewOk, New, Counts,
                    K!Opens, K!Keyring
<1>4. \A d \in KeyDocs : Stale(d) => Stale(d)'
  BY <1>1 DEF Stale
<1> QED BY <1>1, <1>2, <1>3, <1>4, NoFileWritten

LEMMA RewrapListed ==
    ASSUME KeysInv, K!RewrapBegin
    PROVE  KeysInv'
<1>1. /\ command = K!Idle /\ current # 0
      /\ command'.pc = "rewrap" /\ command'.at = {} /\ command' # K!Idle
      /\ DOMAIN command'.rows = {d \in KeyDocs : stored[d].key # 0 /\ stored[d].key # current}
      /\ \A d \in DOMAIN command'.rows : command'.rows[d] = stored[d]
      /\ UNCHANGED <<current, olds, stored, disk, secret, worker, said, killed, crossed>>
  BY DEF K!RewrapBegin, K!Run, K!Idle, K!Stale
<1>2. KeysTyped' /\ WorkerOk' /\ OpeningOk'
  BY <1>1 DEF KeysInv, KeysTyped, WorkerOk, CopyOk, OpeningOk, Counts, K!Opens, K!Keyring
<1>3. CommandOk'
  <2>1. \A d \in KeyDocs : stored[d].key \in Nat
    BY DEF KeysInv, KeysTyped, Row
  <2> QED BY <1>1, <2>1 DEF CommandOk
<1>4. NewOk'
  BY <1>1 DEF KeysInv, NewOk, New, Counts
<1>5. \A d \in KeyDocs : Stale(d) => Stale(d)'
  BY <1>1 DEF Stale
<1> QED BY <1>1, <1>2, <1>3, <1>4, <1>5, IdleWorks, NoFileWritten

LEMMA RowRewrapped ==
    ASSUME KeysInv, NEW d \in KeyDocs, K!RewrapDocument(d)
    PROVE  KeysInv'
<1> DEFINE key == command.rows[d].key
<1>1. /\ command.pc = "rewrap" /\ d \in DOMAIN command.rows
      /\ current \in Nat /\ current # 0 /\ key # 0
      /\ UNCHANGED <<current, olds, disk, secret, worker, said, killed, crossed>>
  BY DEF K!RewrapDocument, KeysInv, KeysTyped, CommandOk
<1> HIDE DEF key
<1>2. CASE ~K!Opens(key)
  <2>1. command' = K!Idle /\ stored' = stored /\ command'.pc = "idle"
    BY <1>2, IdleWorks DEF K!RewrapDocument, key
  <2>2. KeysTyped' /\ WorkerOk' /\ CommandOk' /\ OpeningOk' /\ NewOk'
    BY <1>1, <2>1 DEF KeysInv, KeysTyped, WorkerOk, CopyOk, CommandOk, OpeningOk, NewOk, New, Counts,
                      K!Opens, K!Keyring
  <2>3. \A e \in KeyDocs : Stale(e) => Stale(e)'
    BY <1>1, <2>1 DEF Stale
  <2> QED BY <1>1, <2>1, <2>2, <2>3, NoFileWritten
<1>3. CASE K!Opens(key)
  <2>1. /\ command'.pc = "rewrap" /\ command'.at = {} /\ command' # K!Idle
        /\ DOMAIN command'.rows = DOMAIN command.rows \ {d}
        /\ \A e \in DOMAIN command'.rows : command'.rows[e] = command.rows[e]
    BY <1>3 DEF K!RewrapDocument, K!Run, K!Others, K!Idle, key
  <2>2. PICK next \in Row :
           /\ stored' = [stored EXCEPT ![d] = next]
           /\ next.state = stored[d].state /\ next.name = stored[d].name
           /\ stored[d].key = key => next.key = current
           /\ stored[d].key # key => next = stored[d]
    <3>1. stored[d] \in Row
      BY DEF KeysInv, KeysTyped
    <3>2. CASE stored[d].key = key
      <4> DEFINE new == [stored[d] EXCEPT !.key = current]
      <4>1. new \in Row /\ new.key = current /\ new.state = stored[d].state /\ new.name = stored[d].name
        BY <1>1, <3>1 DEF Row
      <4>2. stored' = [stored EXCEPT ![d] = new]
        BY <1>3, <3>2 DEF K!RewrapDocument, key
      <4> QED BY <3>2, <4>1, <4>2
    <3>3. CASE stored[d].key # key
      <4>1. stored' = stored
        BY <1>3, <3>3 DEF K!RewrapDocument, key
      <4>2. stored' = [stored EXCEPT ![d] = stored[d]]
        BY <4>1 DEF KeysInv, KeysTyped
      <4> QED BY <3>1, <3>3, <4>2
    <3> QED BY <3>2, <3>3
  <2>3. /\ stored'[d] = next /\ stored' \in [KeyDocs -> Row]
        /\ \A e \in KeyDocs : e # d => stored'[e] = stored[e]
    BY <2>2 DEF KeysInv, KeysTyped
  <2>4. \A e \in KeyDocs : Counts(e)' = Counts(e)
    BY <1>1, <2>2, <2>3 DEF Counts
  <2>5. \A n : New(n)' = New(n) /\ K!Opens(n)' = K!Opens(n) /\ (n \in {0, current} => K!Opens(n))
    BY <1>1 DEF New, K!Opens, K!Keyring
  <2>6. KeysTyped'
    BY <1>1, <2>3 DEF KeysInv, KeysTyped
  <2>7. WorkerOk'
    <3>1. ASSUME NEW e \in worker.at PROVE e \in KeyDocs /\ CopyOk(e)'
      <4>1. CopyOk(e) /\ e \in KeyDocs
        BY <3>1 DEF KeysInv, WorkerOk
      <4>2. CASE stored'[e] = stored[e]
        BY <1>1, <4>1, <4>2 DEF CopyOk
      <4>3. CASE stored'[e] # stored[e]
        <5>1. e = d /\ stored[d].key = key /\ stored'[d].key = current /\ stored[d] # K!Absent
          BY <1>1, <2>2, <2>3, <4>1, <4>3, IdleWorks
        <5>2. key # current
          <6>1. ASSUME key = current PROVE FALSE
            <7>1. stored[d] \in Row /\ next \in Row /\ next.key = stored[d].key
              BY <2>2, <5>1, <6>1 DEF KeysInv, KeysTyped
            <7>2. next = stored[d]
              BY <2>2, <7>1 DEF Row
            <7> QED BY <2>3, <4>3, <5>1, <7>2
          <6> QED BY <6>1
        <5> QED BY <1>1, <4>1, <5>1, <5>2 DEF CopyOk
      <4> QED BY <4>2, <4>3
    <3> QED BY <1>1, <3>1 DEF KeysInv, WorkerOk
  <2>8. CommandOk'
    BY <1>1, <2>1 DEF KeysInv, CommandOk
  <2>9. OpeningOk'
    BY <1>1, <2>2, <2>3, <2>4, <2>5 DEF KeysInv, OpeningOk
  <2>10. NewOk'
    <3>1. ASSUME NEW e \in KeyDocs, Counts(e)
          PROVE  \/ New(stored'[e].key)
                 \/ e \in DOMAIN command'.rows /\ stored'[e].key = command'.rows[e].key
      <4>1. \/ New(stored[e].key)
            \/ e \in DOMAIN command.rows /\ stored[e].key = command.rows[e].key
        BY <1>1, <3>1 DEF KeysInv, NewOk
      <4>2. CASE e = d
        BY <2>2, <2>3, <4>1, <4>2 DEF New, key
      <4>3. CASE e # d
        BY <2>1, <2>3, <4>1, <4>3
      <4> QED BY <4>2, <4>3
    <3>2. said => \A e \in KeyDocs : Counts(e) => New(stored'[e].key)
      BY <2>2, <2>3 DEF KeysInv, NewOk, New
    <3> QED BY <1>1, <2>1, <2>4, <2>5, <3>1, <3>2 DEF KeysInv, NewOk
  <2>11. \A e \in KeyDocs : Stale(e) => Stale(e)'
    <3>1. ASSUME NEW e \in KeyDocs, Stale(e) PROVE Stale(e)'
      <4>1. stored[e].key = current /\ worker.rows[e].key # current
        BY <3>1 DEF Stale, KeysInv, WorkerOk, CopyOk
      <4>2. stored'[e].key = current
        BY <2>2, <2>3, <4>1
      <4> QED BY <1>1, <3>1, <4>1, <4>2 DEF Stale
    <3> QED BY <3>1
  <2>12. \A e \in KeyDocs : \/ stored'[e] = stored[e]
                            \/ /\ stored[e].key # 0 /\ stored'[e].key # 0
                               /\ stored'[e].state = stored[e].state
                               /\ stored'[e].name = stored[e].name
    BY <1>1, <2>2, <2>3
  <2> QED BY <1>1, <2>1, <2>6, <2>7, <2>8, <2>9, <2>10, <2>11, <2>12, NoFileWritten
<1> QED BY <1>2, <1>3

LEMMA RowsRewrapped ==
    ASSUME KeysInv, K!RewrapList
    PROVE  KeysInv'
<1>1. /\ command.pc = "rewrap" /\ DOMAIN command.rows = {}
      /\ UNCHANGED <<current, olds, stored, disk, secret, worker, killed, crossed>>
      /\ \/ secret.on /\ secret.key # current /\ K!Run("reseal", secret, {}, 0) /\ said' = said
         \/ ~(secret.on /\ secret.key # current) /\ command' = K!Idle /\ said' = TRUE
  BY DEF K!RewrapList, K!Stale
<1>2. \A d \in KeyDocs : Counts(d) => New(stored[d].key)
  BY <1>1 DEF KeysInv, NewOk
<1>3. \/ /\ command'.pc = "reseal" /\ command' # K!Idle /\ command'.rows = secret /\ said' = said
      \/ /\ command'.pc = "idle" /\ command' = K!Idle /\ said' = TRUE
         /\ secret.on => secret.key = current
  BY <1>1, IdleWorks DEF K!Run, K!Idle
<1>4. KeysTyped' /\ WorkerOk' /\ OpeningOk'
  BY <1>1 DEF KeysInv, KeysTyped, WorkerOk, CopyOk, OpeningOk, Counts, K!Opens, K!Keyring
<1>5. CommandOk'
  BY <1>1, <1>3 DEF KeysInv, CommandOk
<1>6. NewOk'
  BY <1>1, <1>2, <1>3 DEF KeysInv, NewOk, New, Counts
<1>7. \A d \in KeyDocs : Stale(d) => Stale(d)'
  BY <1>1 DEF Stale
<1>8. command'.pc \notin {"update", "unlink"}
  BY <1>3
<1> QED BY <1>1, <1>4, <1>5, <1>6, <1>7, <1>8, NoFileWritten

LEMMA SecretResealed ==
    ASSUME KeysInv, K!RewrapSecret
    PROVE  KeysInv'
<1>1. /\ command.pc = "reseal" /\ command' = K!Idle /\ command'.pc = "idle"
      /\ current \in Nat
      /\ UNCHANGED <<current, olds, stored, disk, worker, killed, crossed>>
  BY IdleWorks DEF K!RewrapSecret, KeysInv, KeysTyped
<1>2. /\ secret' \in [pk : Nat, on : BOOLEAN, key : Nat]
      /\ secret'.on => New(secret'.key)
  <2>1. CASE secret = command.rows /\ K!Opens(secret.key)
    BY <1>1, <2>1 DEF K!RewrapSecret, KeysInv, KeysTyped, New
  <2>2. CASE ~(secret = command.rows /\ K!Opens(secret.key))
    BY <1>1, <2>2 DEF K!RewrapSecret, KeysInv, KeysTyped, OpeningOk, NewOk
  <2> QED BY <2>1, <2>2
<1>3. said' \in BOOLEAN
  BY DEF K!RewrapSecret, KeysInv, KeysTyped
<1>4. KeysTyped' /\ WorkerOk' /\ CommandOk'
  BY <1>1, <1>2, <1>3 DEF KeysInv, KeysTyped, WorkerOk, CopyOk, CommandOk
<1>5. OpeningOk' /\ NewOk'
  BY <1>1, <1>2 DEF KeysInv, OpeningOk, NewOk, New, Counts, K!Opens, K!Keyring
<1>6. \A d \in KeyDocs : Stale(d) => Stale(d)'
  BY <1>1 DEF Stale
<1> QED BY <1>1, <1>4, <1>5, <1>6, NoFileWritten

-----------------------------------------------------------------------------
(* Keys: the operator *)

LEMMA Restarted ==
    ASSUME KeysInv, K!Restart, KeysTyped', OpeningOk', NewOk'
    PROVE  KeysInv'
<1>1. /\ worker' = K!Idle /\ command' = K!Idle /\ worker'.at = {}
      /\ command'.pc = "idle" /\ command'.at = {}
      /\ ~killed' => ~killed /\ worker = K!Idle /\ command = K!Idle
      /\ UNCHANGED <<stored, disk, crossed>>
  BY IdleWorks DEF K!Restart, KeysInv, KeysTyped
<1>2. WorkerOk' /\ CommandOk'
  BY <1>1 DEF WorkerOk, CommandOk
<1>3. SealedOk'
  BY <1>1 DEF KeysInv, SealedOk, FileAs, Sealed, Unsealed
<1>4. ASSUME ~killed' /\ ~crossed', NEW d \in KeyDocs PROVE DiskOk(d)'
  BY <1>1, <1>4 DEF KeysInv, DiskOk, Stale, Own, Spare, Names
<1> QED BY <1>2, <1>3, <1>4, KeysParts

LEMMA KeysChanged ==
    ASSUME KeysInv, K!NewKey \/ K!DropOldKeys \/ K!Crash
    PROVE  KeysInv'
<1>1. K!Restart /\ stored' = stored /\ secret' = secret /\ crossed' = crossed
  BY DEF K!NewKey, K!DropOldKeys, K!Crash, K!Restart
<1>2. killed' \in BOOLEAN /\ command'.pc = "idle"
  BY IdleWorks DEF K!NewKey, K!DropOldKeys, K!Crash, K!Restart
<1>3. CASE K!NewKey
  <2>1. /\ current' = current + 1 /\ olds' = (olds \cup {current}) \ {0} /\ said' = FALSE
        /\ current \in Nat /\ olds \subseteq Nat \ {0}
    BY <1>3 DEF K!NewKey, K!Keyring, KeysInv, KeysTyped
  <2>2. KeysTyped'
    <3>1. current' \in Nat /\ olds' \subseteq Nat \ {0}
      BY <2>1
    <3> QED BY <1>1, <1>2, <2>1, <3>1 DEF KeysInv, KeysTyped
  <2>3. NewOk'
    BY <1>2, <2>1 DEF NewOk
  <2>4. OpeningOk'
    BY <1>1, <2>1 DEF KeysInv, OpeningOk, Counts, K!Opens, K!Keyring
  <2> QED BY <1>1, <2>2, <2>3, <2>4, Restarted
<1>4. CASE K!DropOldKeys
  <2>1. said /\ said' = said /\ current' = current /\ olds' = {}
    BY <1>4 DEF K!DropOldKeys
  <2>2. KeysTyped'
    BY <1>1, <1>2, <2>1 DEF KeysInv, KeysTyped
  <2>3. OpeningOk'
    BY <1>1, <2>1 DEF KeysInv, NewOk, New, OpeningOk, Counts, K!Opens, K!Keyring
  <2>4. NewOk'
    BY <1>1, <1>2, <2>1 DEF KeysInv, NewOk, New, Counts
  <2> QED BY <1>1, <2>2, <2>3, <2>4, Restarted
<1>5. CASE K!Crash
  <2>1. UNCHANGED <<current, olds, said>>
    BY <1>5 DEF K!Crash
  <2>2. KeysTyped' /\ OpeningOk'
    BY <1>1, <1>2, <2>1 DEF KeysInv, KeysTyped, OpeningOk, Counts, K!Opens, K!Keyring
  <2>3. NewOk'
    BY <1>1, <1>2, <2>1 DEF KeysInv, NewOk, New, Counts
  <2> QED BY <1>1, <2>2, <2>3, Restarted
<1> QED BY <1>3, <1>4, <1>5

-----------------------------------------------------------------------------
(* Keys: the theorem *)

LEMMA KeysStep == KeysInv /\ K!Next => KeysInv'
<1> SUFFICES ASSUME KeysInv, K!Next PROVE KeysInv'
  OBVIOUS
<1>1. CASE K!SetUp \/ K!TurnOff
  BY <1>1, SecretSet
<1>2. CASE K!EncryptBegin \/ K!EncryptEnd
  BY <1>2, EncryptListed, EncryptEnded
<1>3. CASE K!RewrapBegin \/ K!RewrapList \/ K!RewrapSecret
  BY <1>3, RewrapListed, RowsRewrapped, SecretResealed
<1>4. CASE K!NewKey \/ K!DropOldKeys \/ K!Crash
  BY <1>4, KeysChanged
<1>5. ASSUME NEW d \in KeyDocs,
             \/ K!StoreFile(d) \/ K!RemoveFile(d) \/ K!SaveRow(d)
             \/ \E pc \in {"delete", "anonymize"} : K!ReadRow(d, pc)
      PROVE  KeysInv'
  BY <1>5, FileStored, FileRemoved, RowSaved, RowRead
<1>6. ASSUME NEW d \in KeyDocs,
             K!EncryptWrite(d) \/ K!EncryptUpdate(d) \/ K!EncryptUnlink(d) \/ K!RewrapDocument(d)
      PROVE  KeysInv'
  BY <1>6, FileWritten, RowUpdated, FileUnlinked, RowRewrapped
<1> QED BY <1>1, <1>2, <1>3, <1>4, <1>5, <1>6 DEF K!Next

LEMMA KeysStay == KeysInv /\ UNCHANGED keyVars => KeysInv'
<1> SUFFICES ASSUME KeysInv, UNCHANGED keyVars PROVE KeysInv'
  OBVIOUS
<1> USE DEF keyVars
<1>1. KeysTyped' /\ WorkerOk' /\ CommandOk' /\ OpeningOk' /\ NewOk'
  BY DEF KeysInv, KeysTyped, WorkerOk, CopyOk, CommandOk, Coming, OpeningOk, NewOk, New, Counts,
         K!Opens, K!Keyring
<1>2. SealedOk'
  BY DEF KeysInv, SealedOk, FileAs, Sealed, Unsealed
<1>3. ASSUME ~killed' /\ ~crossed', NEW d \in KeyDocs PROVE DiskOk(d)'
  BY <1>3 DEF KeysInv, DiskOk, Stale, Own, Spare, Names
<1> QED BY <1>1, <1>2, <1>3, KeysParts

(* However uploads, deletions, retention, the commands and the operator's   *)
(* changes of keys interleave, every kept file and the secret open, the     *)
(* next rewrap is not stopped, and at rest no file is left over, for any    *)
(* documents, keys and names (encryption.py, encrypt_documents.py,          *)
(* rewrap_document_keys.py).                                                *)
THEOREM KeysAlwaysOpen == PartSpec => []KeysHold
<1>1. PartInit => KeysInv
  <2> SUFFICES ASSUME PartInit PROVE KeysInv
    OBVIOUS
  <2>1. K!Init
    BY DEF PartInit
  <2>2. /\ current = 0 /\ olds = {} /\ disk = {} /\ worker = K!Idle /\ command = K!Idle
        /\ said = FALSE /\ killed = FALSE /\ crossed = FALSE
        /\ secret.on = FALSE /\ secret \in [pk : Nat, on : BOOLEAN, key : Nat]
        /\ stored \in [KeyDocs -> Row] /\ \A d \in KeyDocs : stored[d] = K!Absent
        /\ worker.at = {} /\ command.at = {} /\ command.pc = "idle"
    BY <2>1, IdleWorks DEF K!Init, K!NoSecret
  <2>3. KeysTyped /\ WorkerOk /\ CommandOk /\ OpeningOk /\ NewOk /\ SealedOk
    BY <2>2, IdleWorks DEF KeysTyped, WorkerOk, CommandOk, OpeningOk, NewOk, SealedOk, K!Opens
  <2>4. ASSUME NEW d \in KeyDocs PROVE DiskOk(d)
    BY <2>2, IdleWorks DEF DiskOk, Own, Spare, Names
  <2> QED BY <2>3, <2>4 DEF KeysInv
<1>2. KeysInv /\ [PartNext]_<<vars, part, keyVars>> => KeysInv'
  BY KeysStep, KeysStay DEF PartNext
<1>3. KeysInv => KeysHold
  <2> SUFFICES ASSUME KeysInv PROVE KeysHold
    OBVIOUS
  <2>1. K!EverythingOpens
    <3>1. ASSUME NEW d \in KeyDocs, stored[d].state = "kept"
          PROVE  \A g \in K!FileOf(d, stored[d]) : g.sealed <=> stored[d].key # 0
      BY <3>1 DEF KeysInv, SealedOk, FileAs, Sealed, Unsealed, K!FileOf
    <3> QED BY <3>1 DEF KeysInv, OpeningOk, Counts, K!EverythingOpens
  <2>2. K!NextRotationWorks
    BY DEF KeysInv, OpeningOk, Counts, K!NextRotationWorks
  <2>3. K!NothingLeftOver
    <3> SUFFICES ASSUME worker = K!Idle, command = K!Idle, ~killed, ~crossed
                 PROVE  {<<g.doc, g.name>> : g \in disk}
                          = {<<d, stored[d].name>> : d \in {e \in KeyDocs : stored[e].state = "kept"}}
      BY DEF K!NothingLeftOver
    <3>1. \A d \in KeyDocs : Names(d) = IF stored[d].state = "kept" THEN {stored[d].name} ELSE {}
      BY IdleWorks DEF KeysInv, DiskOk, Stale, Own, Spare
    <3>2. \A g \in disk : g.doc \in KeyDocs
      BY DEF KeysInv, SealedOk
    <3> QED BY <3>1, <3>2 DEF Names
  <2> QED BY <2>1, <2>2, <2>3 DEF KeysHold, K!KeysHold
<1> QED BY <1>1, <1>2, <1>3, PTL DEF PartSpec
===============================================================================
