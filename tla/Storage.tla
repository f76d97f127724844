------------------------------- MODULE Storage -------------------------------
(***************************************************************************)
(* The uploaded files on disk and the Document rows that name them, for    *)
(* the items of one request (apps/documents/services.py, storage.py,       *)
(* retention.py; apps/requests/deletion.py; apps/accounts/erasure.py).     *)
(* Disk and database have no transaction in common: a file is stored       *)
(* before its row, deleted before its row by its sender and by the         *)
(* retention task, and after it when the request or the account goes.      *)
(* Left out: the status a file has, which retention writes back as read.   *)
(***************************************************************************)
EXTENDS Naturals, FiniteSets

CONSTANTS
    Docs,
    Workers,
    MaxCrashes  \* bound: workers killed and transactions failed

VARIABLES
    request,  \* the request with its items exists
    row,      \* Document: its storage_key names the file, or it is anonymized
    disk,     \* the files in private storage
    old,      \* documents past the retention period
    worker,   \* the handler or task in every worker
    crashes,
    lost      \* history: an upload met a deletion of its request

vars == <<request, row, disk, old, worker, crashes, lost>>

Idle == [pc |-> "idle", docs |-> {}, todo |-> {}]

Init ==
    /\ request = TRUE
    /\ row = [d \in Docs |-> "none"]
    /\ disk = {}
    /\ old = {}
    /\ worker = [w \in Workers |-> Idle]
    /\ crashes = 0
    /\ lost = FALSE

Set(w, r) == worker' = [worker EXCEPT ![w] = r]

Begin(w, pc, docs) == worker[w] = Idle /\ Set(w, [pc |-> pc, docs |-> docs, todo |-> docs])

Fresh(d) == row[d] = "none" /\ d \notin old /\ d \notin disk
            /\ \A v \in Workers : d \notin worker[v].docs

-----------------------------------------------------------------------------
(* _store: the file, then its row *)

StoreFile(w, d) ==
    /\ request /\ Fresh(d)
    /\ Begin(w, "create", {d})
    /\ disk' = disk \cup {d}
    /\ UNCHANGED <<request, row, old, crashes, lost>>

\* The item may be gone meanwhile: the insert fails and the file stays.
CreateRow(w) ==
    /\ worker[w].pc = "create"
    /\ row' = IF request THEN [d \in Docs |-> IF d \in worker[w].docs THEN "row" ELSE row[d]]
              ELSE row
    /\ lost' = (lost \/ ~request \/ \E v \in Workers : worker[v].pc = "erase")
    /\ Set(w, Idle)
    /\ UNCHANGED <<request, disk, old, crashes>>

-----------------------------------------------------------------------------
(* GuestDeleteService.delete_own_upload: the file, then its row *)

DeleteFile(w, d) ==
    /\ row[d] = "row"
    /\ Begin(w, "delete", {d})
    /\ disk' = disk \ {d}
    /\ UNCHANGED <<request, row, old, crashes, lost>>

DeleteRow(w) ==
    /\ worker[w].pc = "delete"
    /\ row' = [d \in Docs |-> IF d \in worker[w].docs THEN "none" ELSE row[d]]
    /\ Set(w, Idle)
    /\ UNCHANGED <<request, disk, old, crashes, lost>>

-----------------------------------------------------------------------------
(* DocumentRetentionService.anonymize_expired *)

\* retention_days after the upload.
Expire(d) ==
    /\ row[d] = "row" /\ d \notin old
    /\ old' = old \cup {d}
    /\ UNCHANGED <<request, row, disk, worker, crashes, lost>>

\* Mutant of ExpiredDocuments: a request's files wait for the youngest.
ExpiredTogether == IF \E d \in Docs : row[d] = "row" /\ d \notin old THEN {}
                   ELSE {d \in Docs : row[d] = "row" /\ d \in old}

ExpiredDocuments == {d \in Docs : row[d] = "row" /\ d \in old}

Retain(w) ==
    /\ ExpiredDocuments # {}
    /\ Begin(w, "retain", ExpiredDocuments)
    /\ UNCHANGED <<request, row, disk, old, crashes, lost>>

\* Mutant of RetainFile: only the row is emptied.
RetainFileNot(w, d) ==
    /\ worker[w].pc = "retain" /\ d \in worker[w].todo
    /\ Set(w, [worker[w] EXCEPT !.todo = @ \ {d}])
    /\ UNCHANGED <<request, row, disk, old, crashes, lost>>

\* The file goes at once, the row's new fields with the commit.
RetainFile(w, d) ==
    /\ worker[w].pc = "retain" /\ d \in worker[w].todo
    /\ disk' = disk \ {d}
    /\ Set(w, [worker[w] EXCEPT !.todo = @ \ {d}])
    /\ UNCHANGED <<request, row, old, crashes, lost>>

\* save() of a row deleted meanwhile inserts it again; with its item gone
\* that fails and the transaction is rolled back.
RetainCommit(w) ==
    /\ worker[w].pc = "retain" /\ worker[w].todo = {}
    /\ row' = IF request THEN [d \in Docs |-> IF d \in worker[w].docs THEN "anonymized" ELSE row[d]]
              ELSE row
    /\ Set(w, Idle)
    /\ UNCHANGED <<request, disk, old, crashes, lost>>

-----------------------------------------------------------------------------
(* _erase and erase_account: the rows, then the files *)

\* The storage keys are listed...
EraseList(w) ==
    /\ request
    /\ Begin(w, "erase", {d \in Docs : row[d] = "row"})
    /\ UNCHANGED <<request, row, disk, old, crashes, lost>>

\* ... the rows go, uploads of the meantime with them...
EraseRows(w) ==
    /\ worker[w].pc = "erase"
    /\ request' = FALSE
    /\ row' = [d \in Docs |-> "none"]
    /\ Set(w, [worker[w] EXCEPT !.pc = "unlink"])
    /\ UNCHANGED <<disk, old, crashes, lost>>

\* ... and after the commit the files.
Unlink(w) ==
    /\ worker[w].pc = "unlink"
    /\ \E d \in worker[w].todo :
        /\ disk' = disk \ {d}
        /\ Set(w, IF worker[w].todo = {d} THEN Idle
                  ELSE [worker[w] EXCEPT !.todo = @ \ {d}])
    /\ UNCHANGED <<request, row, old, crashes, lost>>

NothingToUnlink(w) ==
    /\ worker[w].pc = "unlink" /\ worker[w].todo = {}
    /\ Set(w, Idle)
    /\ UNCHANGED <<request, row, disk, old, crashes, lost>>

\* The transaction fails - a row inserted while the related rows were
\* collected - and nothing is deleted.
EraseFails(w) ==
    /\ worker[w].pc = "erase"
    /\ Set(w, Idle)
    /\ UNCHANGED <<request, row, disk, old, crashes, lost>>

\* A worker is killed; an open transaction is rolled back.
Crash(w) ==
    /\ worker[w] # Idle
    /\ crashes < MaxCrashes
    /\ crashes' = crashes + 1
    /\ Set(w, Idle)
    /\ UNCHANGED <<request, row, disk, old, lost>>

Step(w) ==
    \/ CreateRow(w) \/ DeleteRow(w) \/ RetainCommit(w)
    \/ EraseRows(w) \/ Unlink(w) \/ NothingToUnlink(w)
    \/ \E d \in Docs : RetainFile(w, d)

Next ==
    \/ \E d \in Docs : Expire(d)
    \/ \E w \in Workers :
        \/ Step(w) \/ Retain(w) \/ EraseList(w) \/ EraseFails(w) \/ Crash(w)
        \/ \E d \in Docs : StoreFile(w, d) \/ DeleteFile(w, d)

Spec == Init /\ [][Next]_vars

\* The retention task runs every day, and a worker once at work goes on.
FairSpec ==
    /\ Spec
    /\ \A w \in Workers : WF_vars(Step(w))
    /\ SF_vars(\E w \in Workers : Retain(w))

-----------------------------------------------------------------------------
(* The variables keep their types.                                          *)
TypeOK ==
    /\ request \in BOOLEAN /\ lost \in BOOLEAN
    /\ row \in [Docs -> {"none", "row", "anonymized"}]
    /\ disk \subseteq Docs /\ old \subseteq Docs
    /\ \A w \in Workers :
        /\ worker[w].pc \in {"idle", "create", "delete", "retain", "erase", "unlink"}
        /\ worker[w].todo \subseteq worker[w].docs

Orderly == crashes = 0 /\ \A w \in Workers : worker[w] = Idle

(* "Nothing identifying remains in storage" (retention.py:25-26) of a row   *)
(* emptied, whatever was killed, deleted or uploaded meanwhile; and unless  *)
(* a worker was killed, a row keeps its file - "files go last and only once *)
(* the database changes are certain" (erasure.py:68) - and a file its row,  *)
(* but for an upload that met the deletion of its request.                  *)
FilesKeepStep ==
    /\ \A d \in Docs : row[d] = "anonymized" => d \notin disk
    /\ Orderly => \A d \in Docs : row[d] = "row" => d \in disk
    /\ Orderly /\ ~lost => \A d \in disk : row[d] = "row"

(* No row names a file past its retention period for ever, also when the    *)
(* task was killed in the middle or its transaction rolled back.            *)
ExpiredIsErased == \A d \in Docs : d \in old ~> row[d] # "row"

=============================================================================
