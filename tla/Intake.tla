------------------------------- MODULE Intake -------------------------------
(***************************************************************************)
(* What a file goes through before it is stored, and out again in one ZIP: *)
(* validate_upload with the antivirus and the decoding of photos           *)
(* (apps/documents/validation.py, antivirus.py, images.py), photos made    *)
(* one PDF (pages.py), the archive of a request (archive.py) and the       *)
(* command scan_documents.  A file is what its name claims, what its bytes *)
(* are, and what the scanner and the decoder say of it.                    *)
(***************************************************************************)
EXTENDS Integers, Sequences, SequencesExt

Megabyte == 1024 * 1024
MaxUploadSize == 20 * Megabyte

AllowedTypes ==
    [pdf |-> {"pdf"}, jpg |-> {"jpeg"}, jpeg |-> {"jpeg"}, png |-> {"png"},
     doc |-> {"msword"}, xls |-> {"ms-excel"}, docx |-> {"word", "zip"},
     xlsx |-> {"excel", "zip"}, csv |-> {"csv", "text"},
     heic |-> {"heic", "heif"}, heif |-> {"heic", "heif"}]

ConvertedToJpeg == {"heic", "heif"}
OfficeZips == {"docx", "xlsx"}

\* The first error that applies; "" if none does.
FirstOf(errors) ==
    LET at == SelectInSeq(errors, LAMBDA e : e[1]) IN
    IF at = 0 THEN "" ELSE errors[at][2]

-----------------------------------------------------------------------------
(* The scanner: nothing is checked without one *)

\* None for a clean file, what was found, or ScannerUnavailable.
Scan(answer) ==
    CASE answer = "OK" -> "clean"
      [] answer \in {"macros FOUND", "virus FOUND"} -> answer
      [] OTHER -> "unavailable"

\* check: what the sender is told, and whether the team hears of it.
Refusal(enabled, answer) ==
    IF ~enabled THEN ""
    ELSE CASE Scan(answer) = "clean" -> ""
           [] Scan(answer) = "unavailable" -> "SCANNER_UNAVAILABLE"
           [] Scan(answer) = "macros FOUND" -> "FILE_HAS_MACROS"
           [] Scan(answer) = "virus FOUND" -> "VIRUS_FOUND"

-----------------------------------------------------------------------------
(* Photos *)

MaxPixels(format) == IF format = "jpeg" THEN 300000000 ELSE 50000000

TooManyPixels(photo) == photo.pixels > MaxPixels(photo.format)

\* The only lock: one whole decode at a time, or "busy" after a minute.
DecodedWhole(format) == format # "jpeg"

PhotoErrors(photo, busy) ==
    <<<<~photo.header, "IMAGE_UNREADABLE">>,
      <<TooManyPixels(photo), "IMAGE_TOO_LARGE">>,
      <<DecodedWhole(photo.format) /\ busy, "SERVER_BUSY">>,
      <<~photo.body, "IMAGE_UNREADABLE">>>>

-----------------------------------------------------------------------------
(* validate_upload *)

Types(extension) == IF extension \in DOMAIN AllowedTypes THEN AllowedTypes[extension] ELSE {}

OfficeErrors(file) ==
    <<<<file.extension \in OfficeZips /\ file.zip \in {"damaged", "other"}, "FILE_DAMAGED">>,
      <<file.extension \in OfficeZips /\ file.zip = "macros", "FILE_HAS_MACROS">>>>

NameAndContentErrors(file) ==
    <<<<file.size > MaxUploadSize, "FILE_TOO_LARGE">>,
      <<file.size = 0, "EMPTY_FILE">>,
      <<file.extension \notin DOMAIN AllowedTypes, "EXTENSION_NOT_ALLOWED">>,
      <<file.mime \notin Types(file.extension), "MIME_NOT_ALLOWED">>>>

ScanErrors(file, enabled) ==
    LET refusal == Refusal(enabled, file.answer) IN <<<<refusal # "", refusal>>>>

ConversionErrors(file, busy) ==
    IF file.extension \in ConvertedToJpeg THEN PhotoErrors(file.photo, busy) ELSE <<>>

ValidationError(file, enabled, busy) ==
    FirstOf(NameAndContentErrors(file) \o OfficeErrors(file) \o ScanErrors(file, enabled)
                \o ConversionErrors(file, busy))

\* What is stored: a HEIC photo as a JPG, of another size.
Validated(file) ==
    IF file.extension \in ConvertedToJpeg
    THEN [extension |-> "jpg", mime |-> "jpeg", size |-> file.jpegSize, converted |-> TRUE,
          photo |-> [file.photo EXCEPT !.format = "jpeg"]]
    ELSE [extension |-> file.extension, mime |-> file.mime, size |-> file.size,
          converted |-> FALSE, photo |-> file.photo]

\* The name shown is what _store makes of the one sent.
StoredExtension(file) == IF Validated(file).converted THEN "jpg" ELSE file.extension

-----------------------------------------------------------------------------
(* photos_to_pdf *)

MaxPages == 15
PageMinSide == 200
PhotoExtensions == {"jpg", "jpeg", "png", "heic", "heif"}

\* _page: a HEIC photo was decoded by the validation, in its turn.
PageError(file, enabled, busy) ==
    LET refused == ValidationError(file, enabled, busy)
        page == Validated(file)
        errors == PhotoErrors(page.photo, busy)
    IN  FirstOf(<<<<refused # "", refused>>,
                  <<page.extension \notin PhotoExtensions, "PAGE_NOT_A_PHOTO">>>>
                \o SubSeq(errors, 1, 2)
                \o <<<<page.photo.side < PageMinSide, "PAGE_TOO_SMALL">>>>
                \o SubSeq(errors, 3, 4))

\* The pages are read in order until one is refused.
PdfError(files, pdfSize, enabled, busy) ==
    FirstOf(<<<<files = <<>>, "NO_PAGES">>, <<Len(files) > MaxPages, "TOO_MANY_PAGES">>>>
            \o [i \in DOMAIN files |->
                   LET refused == PageError(files[i], enabled, busy) IN <<refused # "", refused>>]
            \o <<<<pdfSize > MaxUploadSize, "PDF_TOO_LARGE">>>>)

-----------------------------------------------------------------------------
(* The archive: an entry is the item's folder, rejected files apart, and    *)
(* the file's name: its stem, its extension, and whether it is in capitals. *)

\* safe_name keeps 120 characters, so a long name ends before its extension.
SafeName(name) == IF name.long THEN [name EXCEPT !.extension = ""] ELSE name

Path(document) ==
    [item |-> document.item, rejected |-> document.status = "rejected",
     name |-> SafeName(document.name)]

Lower(path) == [path EXCEPT !.name.capitals = FALSE]

\* faktura.pdf, faktura (2).pdf, ...
Unique(path, used) ==
    LET Candidate(n) == IF n = 1 THEN path ELSE [path EXCEPT !.name.stem = Append(@, n)]
        Free(n) == Lower(Candidate(n)) \notin used
    IN  Candidate(CHOOSE n \in 1..(Cardinality(used) + 1) :
                      Free(n) /\ \A m \in 1..(n - 1) : ~Free(m))

\* build: the entries in order; a file that cannot be read is named in a note.
Entries(documents) ==
    FoldLeft(LAMBDA entries, document :
                 IF ~document.readable THEN entries
                 ELSE Append(entries,
                             Unique(Path(document), {Lower(entries[i]) : i \in DOMAIN entries})),
             <<>>, documents)

Noted(documents) == SelectSeq(documents, LAMBDA document : ~document.readable)

-----------------------------------------------------------------------------
(* scan_documents: stops where the scanner does *)

ScanReport(documents) ==
    LET stops == SelectInSeq(documents, LAMBDA d : d.readable /\ Scan(d.answer) = "unavailable")
        Of(Test(_)) == Len(SelectSeq(documents, Test))
    IN  IF stops # 0 THEN [done |-> FALSE, scanned |-> stops - 1]
        ELSE [done |-> TRUE,
              scanned |-> Len(documents) - Of(LAMBDA d : ~d.readable),
              unreadable |-> Of(LAMBDA d : ~d.readable),
              found |-> Of(LAMBDA d : d.readable /\ Scan(d.answer) # "clean")]

-----------------------------------------------------------------------------
(* "A file never gets in unchecked" (antivirus.py:15-16), and nothing is    *)
(* decoded before it was scanned (validation.py:131): a file let in was     *)
(* found clean whenever there is a scanner, and the decoder's errors are    *)
(* only ever met by clean files.                                            *)
OnlyCheckedGetsIn(file, busy) ==
    LET error == ValidationError(file, TRUE, busy) IN
    error \in {"", "IMAGE_UNREADABLE", "IMAGE_TOO_LARGE", "SERVER_BUSY"} =>
        file.answer = "OK" /\ file.size \in 1..MaxUploadSize

(* What is stored has a name, an extension and a type that agree, nothing   *)
(* in it is a HEIC photo any more, and it passes the same checks again -    *)
(* unless its conversion made it larger than a file may be.                 *)
StoredIsConsistent(file) ==
    ValidationError(file, TRUE, FALSE) = "" =>
        LET stored == Validated(file) IN
        /\ stored.mime \in Types(stored.extension)
        /\ StoredExtension(file) = stored.extension
        /\ stored.extension \notin ConvertedToJpeg
        /\ stored.size <= MaxUploadSize \/ stored.converted

(* A page refused refuses the PDF, whatever comes after it, and a virus on  *)
(* any page before the first refused one is never let through.              *)
PagesAreChecked(files) ==
    PdfError(files, 1, TRUE, FALSE) = "" =>
        \A i \in DOMAIN files :
            /\ ValidationError(files[i], TRUE, FALSE) = ""
            /\ files[i].photo.side >= PageMinSide

(* Nothing is lost in the archive: each readable file has an entry of its   *)
(* own, under its item, with the rejected ones apart; two entries are       *)
(* different files on every system; the others are in the note.             *)
ArchiveIsComplete(documents) ==
    LET entries == Entries(documents)
        readable == SelectSeq(documents, LAMBDA d : d.readable)
    IN  /\ Len(entries) + Len(Noted(documents)) = Len(documents)
        /\ \A i, j \in DOMAIN entries : Lower(entries[i]) = Lower(entries[j]) => i = j
        /\ \A i \in DOMAIN entries :
            /\ entries[i].item = readable[i].item
            /\ entries[i].rejected <=> readable[i].status = "rejected"
            /\ entries[i].name.extension = readable[i].name.extension \/ readable[i].name.long

(* A report that ends counts every file once.                               *)
ReportAddsUp(documents) ==
    LET report == ScanReport(documents) IN
    IF report.done
    THEN /\ report.scanned + report.unreadable = Len(documents)
         /\ report.found <= report.scanned
    ELSE report.scanned < Len(documents)

=============================================================================
