---------------------------- MODULE ImportTable ----------------------------
(***************************************************************************)
(* The file of an import (apps/clients/importing.py): which column fills   *)
(* which field, and what each row will do.  A column is its header - the   *)
(* field the header names exactly, or by a word - and how many of its      *)
(* cells look like an address, a NIP, a text.  A row is its address.       *)
(***************************************************************************)
EXTENDS Naturals, Sequences, FiniteSets, SequencesExt

Fields == {"name", "email", "phone", "nip", "note"}

\* A header no field is known by, and a column that fills nothing.
NoField == ""

\* _cells_ filled cells, and how many of them pass each test.
Column(exact, word, at, cells, emails, nips, texts) ==
    [exact |-> exact, word |-> word, at |-> at, cells |-> cells,
     email |-> emails, nip |-> nips, text |-> texts]

\* field_for_header.  The words about the firm's own people, "opiekun", are
\* part of which word a header has.
FieldForHeader(column, exactOnly) ==
    IF column.exact # NoField \/ exactOnly THEN column.exact ELSE column.word

\* has_header: an address among the headers means they are none.
HasHeader(columns) ==
    /\ \E i \in DOMAIN columns : FieldForHeader(columns[i], FALSE) # NoField
    /\ \A i \in DOMAIN columns : ~columns[i].at

Chosen(mapping) == {mapping[i] : i \in DOMAIN mapping} \ {NoField}

\* A column gets the field of its header, when both are free.
ByHeader(columns, exactOnly, before) ==
    LET Take(mapping, i) ==
            LET key == FieldForHeader(columns[i], exactOnly) IN
            IF key # NoField /\ key \notin Chosen(mapping) /\ mapping[i] = NoField
            THEN [mapping EXCEPT ![i] = key] ELSE mapping
    IN  FoldLeft(Take, before, [i \in DOMAIN columns |-> i])

\* share(a, test) >= share(b, test); a column without cells has share 0.
AtLeast(a, b, test) ==
    IF a.cells = 0 THEN b.cells = 0 \/ b[test] = 0
    ELSE b.cells = 0 \/ a[test] * b.cells >= b[test] * a.cells

Half(column, test) == column.cells > 0 /\ 2 * column[test] >= column.cells

\* The first of the free columns with the largest share.
ByCells(columns, key, mapping) ==
    LET free == {i \in DOMAIN columns : mapping[i] = NoField}
        best == {i \in free : \A j \in free :
                    /\ AtLeast(columns[i], columns[j], key)
                    /\ j < i => ~AtLeast(columns[j], columns[i], key)}
    IN  [i \in DOMAIN columns |->
            IF key \notin Chosen(mapping) /\ i \in best /\ Half(columns[i], key)
            THEN key ELSE mapping[i]]

\* A list without headers: the first column of texts is the names.
ByText(columns, mapping) ==
    LET texts == {i \in DOMAIN columns : mapping[i] = NoField /\ Half(columns[i], "text")}
    IN  [i \in DOMAIN columns |->
            IF "name" \notin Chosen(mapping) /\ i \in texts /\ \A j \in texts : i <= j
            THEN "name" ELSE mapping[i]]

GuessMapping(columns, header) ==
    LET none == [i \in DOMAIN columns |-> NoField]
        named == IF header
                 THEN ByHeader(columns, FALSE, ByHeader(columns, TRUE, none))
                 ELSE none
        seen == ByCells(columns, "nip", ByCells(columns, "email", named))
    IN  IF header THEN seen ELSE ByText(columns, seen)

MappingProblem(mapping) ==
    IF \E i, j \in DOMAIN mapping : i # j /\ mapping[i] = mapping[j] /\ mapping[i] # NoField
    THEN "twice"
    ELSE IF "email" \notin Chosen(mapping) THEN "email" ELSE "none"

\* _read_choices: the columns as the person set them on the preview, when
\* they fit the file, or as guessed.
ReadChoices(columns, rows, params) ==
    LET header == /\ IF params.header = "unsaid" THEN HasHeader(columns)
                     ELSE params.header = "1"
                  /\ rows > 1
        fits == /\ DOMAIN params.mapping = DOMAIN columns
                /\ Chosen(params.mapping) \subseteq Fields
    IN  IF fits THEN params.mapping ELSE GuessMapping(columns, header)

-----------------------------------------------------------------------------
(* Rows.  A row's address is a mailbox, or NoField when none is valid.      *)

\* check_rows
CheckRows(existing, rows) ==
    [i \in DOMAIN rows |->
        CASE rows[i] = NoField -> "error"
          [] rows[i] # NoField /\ \E j \in 1..(i - 1) : rows[j] = rows[i] -> "repeated"
          [] rows[i] # NoField /\ (\A j \in 1..(i - 1) : rows[j] # rows[i]) ->
                IF rows[i] \in existing THEN "existing" ELSE "new"]

Of(statuses, status) == {i \in DOMAIN statuses : statuses[i] = status}

\* run_import's result; _changed_ are the rows with something new about an
\* existing client, when those are updated.
RunImport(rows, statuses, changed) ==
    LET updated == Of(statuses, "existing") \cap changed IN
    [clients |-> {rows[i] : i \in Of(statuses, "new")},
     created |-> Cardinality(Of(statuses, "new")),
     updated |-> Cardinality(updated),
     skipped |-> Len(rows) - Cardinality(Of(statuses, "new")) - Cardinality(updated)]

-----------------------------------------------------------------------------
(* NIP, ten digits (apps/common/nip.py) *)

Weights == <<6, 5, 7, 2, 3, 4, 5, 6, 7>>

\* nip.is_valid
NipValid(d) ==
    LET check == FoldLeft(LAMBDA sum, i : sum + d[i] * Weights[i],
                          0, [i \in 1..9 |-> i]) % 11
    IN  check # 10 /\ check = d[10]

-----------------------------------------------------------------------------
(* What a guess and an import promise *)

\* "each field at most once" (importing.py:268), and an exact header wins
\* wherever it stands: only a file that shows no addresses is a problem.
GuessIsSound(columns) ==
    LET header == HasHeader(columns)
        mapping == GuessMapping(columns, header)
    IN  /\ MappingProblem(mapping) # "twice"
        /\ header => \A i \in DOMAIN columns :
              columns[i].exact # NoField =>
                  \E j \in 1..i : columns[j].exact = columns[i].exact
                                  /\ mapping[j] = columns[i].exact
        /\ (\E i \in DOMAIN columns : columns[i].cells > 0 /\ columns[i].email = columns[i].cells
                                      /\ FieldForHeader(columns[i], FALSE) = NoField)
           => MappingProblem(mapping) = "none"

\* What was posted with the preview, whatever it is, leaves each column of the
\* file one known field, and an import of a field twice is nobody's guess.
ChoicesAreKept(columns, rows, params) ==
    LET read == ReadChoices(columns, rows, params) IN
    /\ DOMAIN read = DOMAIN columns /\ Chosen(read) \subseteq Fields
    /\ read = params.mapping \/ MappingProblem(read) # "twice"
    /\ rows < 2 /\ read # params.mapping => read = GuessMapping(columns, FALSE)

\* Every row is counted once; a file imported a second time creates nobody;
\* each mailbox of the file is a client after it.
ImportIsSound(existing, rows) ==
    LET first == RunImport(rows, CheckRows(existing, rows), {})
        after == existing \cup first.clients
        again == RunImport(rows, CheckRows(after, rows), DOMAIN rows)
    IN  /\ first.created = Cardinality(first.clients)
        /\ first.clients \cap existing = {}
        /\ \A i \in DOMAIN rows : rows[i] \in after \cup {NoField}
        /\ again.created = 0
        /\ again.created + again.updated + again.skipped = Len(rows)

\* The checksum finds a mistyped digit and two digits swapped.
NipFindsMistakes(d) ==
    NipValid(d) =>
        /\ \A i \in 1..10, x \in 0..9 : x # d[i] => ~NipValid([d EXCEPT ![i] = x])
        /\ \A i \in 1..9 : d[i] # d[i + 1] =>
               ~NipValid([d EXCEPT ![i] = d[i + 1], ![i + 1] = d[i]])

=============================================================================
