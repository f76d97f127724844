------------------------------ MODULE MCItems ------------------------------
(***************************************************************************)
(* Small requests for TLC: an item for files, one to confirm, one  *)
(* the client may add.  The workers are interchangeable.  A run checks     *)
(* several small requests, and the keys of the stored files beside them;   *)
(* the first state says which.                                             *)
(***************************************************************************)
EXTENDS ItemLifecycle, Sequences, TLC

CONSTANTS invoice, consent, extra, a1, a2, a3, a4, x1, KeyDocs, MaxKeys, MaxNames, MaxSetups

VARIABLES part, current, olds, stored, disk, secret, worker, command, said, killed, crossed

K == INSTANCE EncryptionKeys WITH Docs <- KeyDocs, doc <- stored

keyVars == <<current, olds, stored, disk, secret, worker, command, said, killed, crossed>>

ASSUME K!KeyAssumption

\* Every file is for the invoice, but x1, the client's extra document.
MCItemOf == [d \in Docs |-> IF d = x1 THEN extra ELSE invoice]

\* a1 and a2 are copies of one file.
MCChecksum == [d \in Docs |-> CASE d \in {a1, a2} -> 1
                                [] d = a3 -> 2
                                [] d = a4 -> 3
                                [] d = x1 -> 4]

\* "files": two workers and more files than there is room for, at one item.
\* "pair": two workers, a file and an item to confirm.
\* "late": two workers and an extra file of an open request, nothing accepted.
\* "alone": one worker, which may be killed, with everything.
UsedDocs == CASE part = "files" -> Docs \ {x1}
              [] part = "pair" -> {a1}
              [] part = "late" -> {x1}
              [] part = "alone" -> {a1, a3, x1}

UsedItems == IF part = "files" THEN {invoice} ELSE Items

Within ==
    /\ \A t \in Threads : th[t].doc \in UsedDocs \cup {NoDoc}
                          /\ th[t].item \in UsedItems \cup {NoItem}
    /\ part # "alone" => crashes = 0
    /\ part = "late" => ~closed /\ \A t \in Threads : th[t].pc \notin {"accept", "delete"}
    /\ part = "alone" => \E t \in Threads : \A u \in Threads \ {t} : th[u] = Idle

PartInit == Init /\ K!Init /\ part \in {"files", "pair", "late", "alone", "keys"}

PartNext ==
    \/ part # "keys" /\ Next /\ UNCHANGED <<part, keyVars>> /\ Within'
    \/ part = "keys" /\ K!Next /\ UNCHANGED <<part, vars>>

PartSpec == PartInit /\ [][PartNext]_<<vars, part, keyVars>>

(* Between requests of a single worker the files and their item agree (see  *)
(* FilesMatchItem; requests at once are what breaks it).                    *)
AloneFilesMatch == part = "alone" => FilesMatchItem

(* The keys that are left open every document; see EncryptionKeys.          *)
KeysHold == K!KeysHold

Symmetry == Permutations(Threads)

-----------------------------------------------------------------------------
(* What becomes of uploaded files, for all inputs of a small bound: every   *)
(* kind of file around the limits, PDFs of up to two photos, archives and   *)
(* scans of up to three files; see Intake.                                  *)

N == INSTANCE Intake

Upto(S, n) == UNION {[1..m -> S] : m \in 0..n}

Answers == {"OK", "macros FOUND", "virus FOUND", "ERROR", ""}

Photo(format, pixels, side, header, body) ==
    [format |-> format, pixels |-> pixels, side |-> side, header |-> header, body |-> body]

File(size, extension, mime, zip, answer, jpegSize, photo) ==
    [size |-> size, extension |-> extension, mime |-> mime, zip |-> zip, answer |-> answer,
     jpegSize |-> jpegSize, photo |-> photo]

Sizes == {0, 1, N!MaxUploadSize, N!MaxUploadSize + 1}

\* A photo's format is what its content is.
Photos(mime) ==
    LET format == IF mime \in {"jpeg", "png"} THEN mime ELSE "heif" IN
    {Photo(format, p, s, h, b) :
        p \in {40000, 50000000, 50000001, 300000001}, s \in {199, 200}, h, b \in BOOLEAN}

Extensions == {"pdf", "png", "jpg", "docx", "heic", "exe", ""}
Contents == {"pdf", "jpeg", "png", "zip", "heic", "program"}

\* The size and the conversion on their own, the rest together.
ASSUME \A z \in Sizes, e \in Extensions, m \in Contents, a \in Answers, j \in {1, N!MaxUploadSize + 1} :
          LET file == File(z, e, m, "office", a, j, Photo("heif", 1, 200, TRUE, TRUE)) IN
          N!OnlyCheckedGetsIn(file, FALSE) /\ N!StoredIsConsistent(file)
ASSUME \A e \in Extensions, m \in Contents, o \in {"office", "damaged", "other", "macros"}, a \in Answers :
          \A p \in Photos(m) :
             LET file == File(1, e, m, o, a, 1, p) IN
             /\ \A busy \in BOOLEAN : N!OnlyCheckedGetsIn(file, busy)
             /\ N!StoredIsConsistent(file)

FewPhotos ==
    UNION {{File(1, e, m, "other", a, 1, p) :
                e \in {"pdf", "jpg", "heic"}, a \in {"OK", "virus FOUND"},
                p \in {q \in Photos(m) : q.pixels < 300000000 /\ q.header}} :
             m \in {"pdf", "jpeg", "heic"}}

ASSUME \A files \in Upto(FewPhotos, 2) : N!PagesAreChecked(files)
ASSUME \A n \in {0, 16} : LET page == CHOOSE p \in FewPhotos : N!PageError(p, TRUE, FALSE) = ""
                          IN N!PdfError([i \in 1..n |-> page], 1, TRUE, FALSE) # ""

\* "faktura (2).pdf" may be the name somebody gave his file.
Stored ==
    [item : {1, 2}, status : {"accepted", "rejected"}, readable : BOOLEAN,
     answer : {"OK", "virus FOUND", ""},
     name : [stem : {<<"faktura">>, <<"faktura", 2>>}, extension : {"pdf"},
             capitals : BOOLEAN, long : {FALSE}]
            \cup [stem : {<<"faktura">>}, extension : {"pdf"}, capitals : {FALSE}, long : {TRUE}]]

InOneFolder == {d \in Stored : d.item = 1 /\ d.status = "accepted" /\ d.answer = "OK"}

ASSUME \A documents \in Upto(Stored, 2) :
          N!ArchiveIsComplete(documents) /\ N!ReportAddsUp(documents)
ASSUME \A n \in 3..4 : \A documents \in [1..n -> InOneFolder] : N!ArchiveIsComplete(documents)
=============================================================================
