--------------------------- MODULE EncryptionKeys ---------------------------
(***************************************************************************)
(* The master key of the stored files and of the two-step verification     *)
(* secrets: switched on, replaced and dropped by an operator who follows   *)
(* the README, with the commands encrypt_documents and                     *)
(* rewrap_document_keys (apps/documents/encryption.py, storage.py,         *)
(* management/commands) run beside uploads, deletions and the retention    *)
(* task.  The key is read from the environment, so every change restarts   *)
(* the processes.  Encryption itself is taken as perfect.                  *)
(***************************************************************************)
EXTENDS Integers

CONSTANTS
    Docs,
    MaxKeys,    \* bound: master keys ever used
    MaxNames,   \* bound: storage names of a document
    MaxSetups   \* bound: times two-step verification is set up

KeyAssumption == MaxKeys \in Nat /\ MaxNames \in Nat \ {0} /\ MaxSetups \in Nat

VARIABLES
    current,  \* DOCUMENTS_ENCRYPTION_KEY; 0: none
    olds,     \* DOCUMENTS_ENCRYPTION_OLD_KEYS
    doc,      \* the Document rows: the file named, the key it is wrapped with
    disk,     \* the files in private storage
    secret,   \* the TwoFactor row of an account
    worker,   \* a request or the retention task, with the row it read
    command,  \* the command that runs
    said,     \* the command said that the old keys can be removed
    killed,   \* history: a process stopped in the middle of its work
    crossed   \* history: a row was saved or deleted from an older copy of it

vars == <<current, olds, doc, disk, secret, worker, command, said, killed, crossed>>

Absent == [state |-> "none", name |-> 0, key |-> 0]
NoSecret == [pk |-> 0, on |-> FALSE, key |-> 0]
Idle == [pc |-> "idle", rows |-> <<>>, at |-> {}, name |-> 0]

Init ==
    /\ current = 0 /\ olds = {}
    /\ doc = [d \in Docs |-> Absent] /\ disk = {}
    /\ secret = NoSecret
    /\ worker = Idle /\ command = Idle
    /\ said = FALSE /\ killed = FALSE /\ crossed = FALSE

\* _keyring, and unwrap or unseal with it; 0 is stored as it is.
Keyring == (olds \cup {current}) \ {0}
Opens(key) == key = 0 \/ key \in Keyring

\* save_document_file of a document's bytes under a name.
Saved(d, name) == [doc |-> d, name |-> name, sealed |-> current # 0]
FileOf(d, row) == {f \in disk : f.doc = d /\ f.name = row.name}
FreeNames(d) == {n \in 1..MaxNames : \A f \in disk : f.doc # d \/ f.name # n}

-----------------------------------------------------------------------------
(* Requests and the retention task, one at a time; see Storage for more *)

Work(pc, d, row) ==
    worker' = [pc |-> pc, rows |-> [x \in {d} |-> row], at |-> {d}, name |-> 0]

StoreFile(d) ==
    /\ worker = Idle /\ doc[d] = Absent /\ FileOf(d, [name |-> 1]) = {}
    /\ disk' = disk \cup {Saved(d, 1)}
    /\ Work("create", d, [state |-> "kept", name |-> 1, key |-> current])
    /\ UNCHANGED <<current, olds, doc, secret, command, said, killed, crossed>>

\* delete_own_upload, or _anonymize_for_request: the row is read...
ReadRow(d, pc) ==
    /\ worker = Idle /\ doc[d].state = "kept"
    /\ Work(pc, d, doc[d])
    /\ UNCHANGED <<current, olds, doc, disk, secret, command, said, killed, crossed>>

\* ... its file deleted...
RemoveFile(d) ==
    /\ worker.pc \in {"delete", "anonymize"} /\ d \in worker.at
    /\ disk' = disk \ FileOf(d, worker.rows[d])
    /\ Work(IF worker.pc = "delete" THEN "drop" ELSE "save", d, worker.rows[d])
    /\ UNCHANGED <<current, olds, doc, secret, command, said, killed, crossed>>

\* ... and the row saved whole - as read, its key included - or deleted.
SaveRow(d) ==
    /\ worker.pc \in {"create", "drop", "save"} /\ d \in worker.at
    /\ doc' = [doc EXCEPT ![d] =
          CASE worker.pc = "create" -> worker.rows[d]
            [] worker.pc = "drop" -> Absent
            [] worker.pc = "save" -> [worker.rows[d] EXCEPT !.state = "anonymized", !.name = 0]]
    /\ crossed' = (crossed \/ (worker.pc # "create" /\ doc[d] # worker.rows[d]))
    /\ worker' = Idle
    /\ UNCHANGED <<current, olds, disk, secret, command, said, killed>>

\* confirm_setup replaces the row, _turn_off deletes it.
SetUp ==
    /\ secret.pk < MaxSetups
    /\ secret' = [pk |-> secret.pk + 1, on |-> TRUE, key |-> current]
    /\ UNCHANGED <<current, olds, doc, disk, worker, command, said, killed, crossed>>

TurnOff ==
    /\ secret.on
    /\ secret' = [secret EXCEPT !.on = FALSE, !.key = 0]
    /\ UNCHANGED <<current, olds, doc, disk, worker, command, said, killed, crossed>>

-----------------------------------------------------------------------------
(* encrypt_documents *)

Run(pc, rows, at, name) ==
    command' = [pc |-> pc, rows |-> rows, at |-> at, name |-> name]

Others(d) == [x \in DOMAIN command.rows \ {d} |-> command.rows[x]]

EncryptBegin ==
    /\ command = Idle /\ current # 0
    /\ Run("encrypt",
           [d \in {x \in Docs : doc[x].state = "kept" /\ doc[x].key = 0} |-> doc[d]], {}, 0)
    /\ UNCHANGED <<current, olds, doc, disk, secret, worker, said, killed, crossed>>

\* A row without its file is skipped; the others are written again.
EncryptWrite(d) ==
    /\ command.pc = "encrypt" /\ d \in DOMAIN command.rows
    /\ IF FileOf(d, command.rows[d]) = {}
       THEN Run("encrypt", Others(d), {}, 0) /\ UNCHANGED disk
       ELSE \E name \in FreeNames(d) :
                /\ disk' = disk \cup {Saved(d, name)}
                /\ Run("update", command.rows, {d}, name)
    /\ UNCHANGED <<current, olds, doc, secret, worker, said, killed, crossed>>

\* The row is still as it was read: its old file is next to go, otherwise
\* the new one.
EncryptUpdate(d) ==
    /\ command.pc = "update" /\ d \in command.at
    /\ IF doc[d] = command.rows[d]
       THEN /\ doc' = [doc EXCEPT ![d] = [@ EXCEPT !.name = command.name, !.key = current]]
            /\ Run("unlink", command.rows, {d}, command.rows[d].name)
       ELSE Run("unlink", command.rows, {d}, command.name) /\ UNCHANGED doc
    /\ UNCHANGED <<current, olds, disk, secret, worker, said, killed, crossed>>

EncryptUnlink(d) ==
    /\ command.pc = "unlink" /\ d \in command.at
    /\ disk' = disk \ FileOf(d, command)
    /\ Run("encrypt", Others(d), {}, 0)
    /\ UNCHANGED <<current, olds, doc, secret, worker, said, killed, crossed>>

EncryptEnd ==
    /\ command.pc = "encrypt" /\ DOMAIN command.rows = {}
    /\ command' = Idle
    /\ UNCHANGED <<current, olds, doc, disk, secret, worker, said, killed, crossed>>

-----------------------------------------------------------------------------
(* rewrap_document_keys *)

\* Mutant of Stale: the rows of the key just replaced.
StalePrevious(key) == key = current - 1

Stale(key) == key # current

\* Anonymized rows keep their wrapped key and are listed too.
RewrapBegin ==
    /\ command = Idle /\ current # 0
    /\ Run("rewrap", [d \in {x \in Docs : doc[x].key # 0 /\ Stale(doc[x].key)} |-> doc[d]], {}, 0)
    /\ UNCHANGED <<current, olds, doc, disk, secret, worker, said, killed, crossed>>

\* A key outside the keyring stops the command (DecryptionError); a row whose
\* key changed meanwhile is left alone.
RewrapDocument(d) ==
    /\ command.pc = "rewrap" /\ d \in DOMAIN command.rows
    /\ LET key == command.rows[d].key IN
       IF Opens(key)
       THEN /\ doc' = IF doc[d].key = key THEN [doc EXCEPT ![d].key = current] ELSE doc
            /\ Run("rewrap", Others(d), {}, 0)
       ELSE command' = Idle /\ UNCHANGED doc
    /\ UNCHANGED <<current, olds, disk, secret, worker, said, killed, crossed>>

\* The TwoFactor rows are listed: here one, or none.
RewrapList ==
    /\ command.pc = "rewrap" /\ DOMAIN command.rows = {}
    /\ IF secret.on /\ Stale(secret.key)
       THEN Run("reseal", secret, {}, 0) /\ UNCHANGED said
       ELSE command' = Idle /\ said' = TRUE
    /\ UNCHANGED <<current, olds, doc, disk, secret, worker, killed, crossed>>

RewrapSecret ==
    /\ command.pc = "reseal"
    /\ secret' = IF secret = command.rows /\ Opens(secret.key)
                 THEN [secret EXCEPT !.key = current] ELSE secret
    /\ said' = (said \/ Opens(command.rows.key))
    /\ command' = Idle
    /\ UNCHANGED <<current, olds, doc, disk, worker, killed, crossed>>

-----------------------------------------------------------------------------
(* The operator; every change of the environment restarts all processes *)

Restart ==
    /\ killed' = (killed \/ worker # Idle \/ command # Idle)
    /\ worker' = Idle /\ command' = Idle
    /\ UNCHANGED <<doc, disk, secret, crossed>>

\* A new key; the one before it becomes an old one.
NewKey ==
    /\ current < MaxKeys
    /\ current' = current + 1 /\ olds' = Keyring
    /\ said' = FALSE
    /\ Restart

\* "The old master key can now be removed."
DropOldKeys ==
    /\ said /\ olds # {}
    /\ olds' = {}
    /\ UNCHANGED <<current, said>>
    /\ Restart

Crash ==
    /\ worker # Idle \/ command # Idle
    /\ UNCHANGED <<current, olds, said>>
    /\ Restart

Next ==
    \/ SetUp \/ TurnOff
    \/ EncryptBegin \/ EncryptEnd \/ RewrapBegin \/ RewrapList \/ RewrapSecret
    \/ NewKey \/ DropOldKeys \/ Crash
    \/ \E d \in Docs :
        \/ StoreFile(d) \/ RemoveFile(d) \/ SaveRow(d)
        \/ \E pc \in {"delete", "anonymize"} : ReadRow(d, pc)
        \/ EncryptWrite(d) \/ EncryptUpdate(d) \/ EncryptUnlink(d) \/ RewrapDocument(d)

Spec == Init /\ [][Next]_vars

-----------------------------------------------------------------------------
(* The variables keep their types.                                          *)
TypeOK ==
    /\ current \in 0..MaxKeys /\ olds \subseteq 1..MaxKeys
    /\ \A d \in Docs : /\ doc[d].state \in {"none", "kept", "anonymized"}
                       /\ doc[d].name \in 0..MaxNames /\ doc[d].key \in 0..MaxKeys
    /\ disk \subseteq [doc : Docs, name : 1..MaxNames, sealed : BOOLEAN]
    /\ secret \in [pk : 0..MaxSetups, on : BOOLEAN, key : 0..MaxKeys]

(* However the commands, requests and restarts interleave, every document   *)
(* kept and the account's secret open with the keys that are left, and a    *)
(* document's file is encrypted exactly if its row has a key: dropping the  *)
(* old keys when the command says so loses nothing (encryption.py:12-15).   *)
EverythingOpens ==
    /\ secret.on => Opens(secret.key)
    /\ \A d \in Docs : doc[d].state = "kept" =>
          /\ Opens(doc[d].key)
          /\ \A f \in FileOf(d, doc[d]) : f.sealed <=> doc[d].key # 0

(* The next rotation is not stopped by a row whose key is gone, unless the  *)
(* retention task saved an older copy of it over the rewrapped one.         *)
NextRotationWorks == crossed \/ \A d \in Docs : Opens(doc[d].key)

(* At rest the disk holds exactly the files of the rows, unless a process   *)
(* was stopped or a row was changed under the hands of its deletion.        *)
NothingLeftOver ==
    worker = Idle /\ command = Idle /\ ~killed /\ ~crossed =>
        {<<f.doc, f.name>> : f \in disk} = {<<d, doc[d].name>> : d \in {x \in Docs : doc[x].state = "kept"}}

KeysHold == EverythingOpens /\ NextRotationWorks /\ NothingLeftOver

=============================================================================
