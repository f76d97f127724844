------------------------------ MODULE Clients ------------------------------
(***************************************************************************)
(* The clients of an account (apps/clients; the pages and the API).  A     *)
(* client is found by email - on the request form, for a list of           *)
(* recipients, in an imported file - and added when not there; nothing in  *)
(* the database keeps an address from being there twice, and by hand it    *)
(* may be.  A worker is one page at work; the pages of an import are of    *)
(* one person's tabs.  An address is a spelling of a mailbox.              *)
(***************************************************************************)
EXTENDS Naturals, FiniteSets

CONSTANTS
    ClientRows,
    Addresses,
    Mailbox,     \* the mailbox of an address: its letters in lower case
    Requests,
    Imports,     \* rows of ClientImport
    Workers,
    Owners,      \* workers that are pages of the account's owner
    NoRow

ClientAssumption == DOMAIN Mailbox = Addresses /\ Owners \subseteq Workers /\ IsFiniteSet(Workers)

VARIABLES
    email,      \* a client's address, NoRow when there is no such row
    byHand,     \* history: the address was typed in the client's form
    client,     \* the client of each request, NoRow when there is none
    monthly,    \* the clients of the account's recurring request
    table,      \* the addresses in the file of each draft, NoRow when gone
    hand        \* what each worker has read

vars == <<email, byHand, client, monthly, table, hand>>

Idle == [doing |-> "nothing", about |-> NoRow, new |-> {}]

Init ==
    /\ email = [c \in ClientRows |-> NoRow]
    /\ byHand = {}
    /\ client = [r \in Requests |-> NoRow]
    /\ monthly = {}
    /\ table = [d \in Imports |-> NoRow]
    /\ hand = [w \in Workers |-> Idle]

Rows == {c \in ClientRows : email[c] # NoRow}

HasRequests(c) == \E r \in Requests : client[r] = c

\* Mutant of SameAddress: spelled the same.
SameAddressExactly(a, b) == a = b

\* email__iexact, and the lower() of the import.
SameAddress(a, b) == Mailbox[a] = Mailbox[b]

Existing(a) == {c \in Rows : SameAddress(email[c], a)}

Does(w, doing) == hand[w].doing = doing

Starts(w, doing, about, new) ==
    /\ Does(w, "nothing")
    /\ hand' = [hand EXCEPT ![w] = [doing |-> doing, about |-> about, new |-> new]]

Rests(w) == hand' = [hand EXCEPT ![w] = Idle]

\* Rows get the addresses of a set, one each.
Added(as) ==
    \E f \in [as -> ClientRows \ Rows] :
        /\ \A a, b \in as : f[a] = f[b] => a = b
        /\ email' = [c \in ClientRows |->
                        IF \E a \in as : f[a] = c THEN CHOOSE a \in as : f[a] = c
                        ELSE email[c]]

-----------------------------------------------------------------------------
(* By hand: the form and the card *)

Typed(c, a) ==
    /\ email' = [email EXCEPT ![c] = a]
    /\ byHand' = byHand \cup {c}
    /\ UNCHANGED <<client, monthly, table, hand>>

\* client_create: no look at who is there.
ClientCreate(a) == \E c \in ClientRows \ Rows : Typed(c, a)

\* client_edit; the save of a row deleted meanwhile fails.
ClientEdit(c, a) == c \in Rows /\ Typed(c, a)

\* The clients of the recurring request, as its form has them.
SetMonthly(cs) ==
    /\ cs \subseteq Rows
    /\ monthly' = cs
    /\ UNCHANGED <<email, byHand, client, table, hand>>

-----------------------------------------------------------------------------
(* A request to an address *)

\* get_or_create_by_email looks.
LookUp(w, a) ==
    IF Existing(a) = {}
    THEN Starts(w, "create", NoRow, {a})
    ELSE \E c \in Existing(a) : Starts(w, "request", c, {})

\* request_create: a client picked on the form, or an address typed there.
RequestCreate(w) ==
    /\ (\E c \in Rows : Starts(w, "request", c, {})) \/ (\E a \in Addresses : LookUp(w, a))
    /\ UNCHANGED <<email, byHand, client, monthly, table>>

\* ... and adds; the single request is created after that.
CreateMissing(w) ==
    /\ Does(w, "create")
    /\ Added(hand[w].new)
    /\ \E c \in ClientRows \ Rows :
          /\ email'[c] # NoRow
          /\ hand' = [hand EXCEPT ![w] = [doing |-> "request", about |-> c, new |-> {}]]
    /\ UNCHANGED <<byHand, client, monthly, table>>

\* RequestService.create reads the client again.
CreateRequest(w, r) ==
    /\ Does(w, "request")
    /\ client[r] = NoRow
    /\ client' = IF hand[w].about \in Rows THEN [client EXCEPT ![r] = hand[w].about] ELSE client
    /\ Rests(w)
    /\ UNCHANGED <<email, byHand, monthly, table>>

\* create_many: the clients and their requests in one transaction.
CreateMany(w, r) ==
    /\ Does(w, "create")
    /\ client[r] = NoRow
    /\ Added(hand[w].new)
    /\ \E c \in ClientRows \ Rows :
          /\ email'[c] # NoRow
          /\ client' = [client EXCEPT ![r] = c]
    /\ Rests(w)
    /\ UNCHANGED <<byHand, monthly, table>>

\* A limit says no: the client stays, or in a transaction was never there.
RequestRefused(w) ==
    /\ Does(w, "create") \/ Does(w, "request")
    /\ Rests(w)
    /\ UNCHANGED <<email, byHand, client, monthly, table>>

-----------------------------------------------------------------------------
(* An import: upload, preview, "Importuj" *)

\* client_import: the person's drafts go, then the new one is stored.
UploadClears(w) ==
    /\ Starts(w, "upload", NoRow, {})
    /\ table' = [d \in Imports |-> NoRow]
    /\ UNCHANGED <<email, byHand, client, monthly>>

UploadStores(w, d, as) ==
    /\ Does(w, "upload")
    /\ table[d] = NoRow
    /\ table' = [table EXCEPT ![d] = as]
    /\ Rests(w)
    /\ UNCHANGED <<email, byHand, client, monthly>>

\* check_rows again, in the POST: the addresses not there yet, of several
\* spellings the first.
CheckRows(w, d) ==
    /\ table[d] # NoRow
    /\ \E new \in SUBSET table[d] :
          /\ \A a \in new : Existing(a) = {}
          /\ \A a, b \in new : SameAddress(a, b) => a = b
          /\ \A a \in table[d] : Existing(a) # {} \/ \E b \in new : SameAddress(a, b)
          /\ Starts(w, "import", d, new)
    /\ UNCHANGED <<email, byHand, client, monthly, table>>

\* run_import, in a transaction.
RunImport(w) ==
    /\ Does(w, "import")
    /\ Added(hand[w].new)
    /\ hand' = [hand EXCEPT ![w] = [@ EXCEPT !.doing = "imported", !.new = {}]]
    /\ UNCHANGED <<byHand, client, monthly, table>>

\* An existing client to update was deleted meanwhile: everything is rolled back.
ImportFails(w) ==
    /\ Does(w, "import")
    /\ Rests(w)
    /\ UNCHANGED <<email, byHand, client, monthly, table>>

\* draft.delete(), unless the worker is killed before it.
ImportDone(w) ==
    /\ Does(w, "imported")
    /\ Rests(w)
    /\ \/ table' = [table EXCEPT ![hand[w].about] = NoRow]
       \/ UNCHANGED table
    /\ UNCHANGED <<email, byHand, client, monthly>>

\* delete_old_client_imports.
DeleteOldImport(d) ==
    /\ table[d] # NoRow
    /\ table' = [table EXCEPT ![d] = NoRow]
    /\ UNCHANGED <<email, byHand, client, monthly, hand>>

-----------------------------------------------------------------------------
(* Deleting *)

Gone(cs) ==
    /\ email' = [c \in ClientRows |-> IF c \in cs THEN NoRow ELSE email[c]]
    /\ byHand' = byHand \ cs
    /\ monthly' = monthly \ cs

\* ClientService.delete: a look at its requests, an entry in the audit log.
DeleteLook(w, c) ==
    /\ c \in Rows
    /\ ~HasRequests(c)
    /\ Starts(w, "delete", c, {})
    /\ UNCHANGED <<email, byHand, client, monthly, table>>

\* on_delete=PROTECT of Request.client.
Protected(c) == HasRequests(c)

\* ... then the row, unless a request came meanwhile.
DeleteRow(w) ==
    /\ Does(w, "delete")
    /\ IF Protected(hand[w].about)
       THEN UNCHANGED <<email, byHand, monthly>>
       ELSE Gone({hand[w].about})
    /\ Rests(w)
    /\ UNCHANGED <<client, table>>

\* _erase: the requests of these clients go.
Erased(cs) == client' = [r \in Requests |-> IF client[r] \in cs THEN NoRow ELSE client[r]]

\* delete_client_with_history: the clients and all their requests in one
\* transaction; a recurring request left with nobody goes too.
DeletedWithHistory(cs) == Erased(cs) /\ Gone(cs)

\* The API's client_detail: both ways of deleting one client, the second
\* the owner's alone.
ClientDelete(w, c) ==
    \/ DeleteLook(w, c)
    \/ /\ w \in Owners /\ Does(w, "nothing") /\ c \in Rows
       /\ DeletedWithHistory({c})
       /\ UNCHANGED <<table, hand>>

\* client_bulk_delete: the clients ticked or found by the filters, read
\* once; each goes in a transaction of its own, as far as the worker comes.
BulkDelete(w, cs) ==
    /\ w \in Owners /\ cs \subseteq Rows /\ cs # {}
    /\ Starts(w, "bulk", NoRow, cs)
    /\ UNCHANGED <<email, byHand, client, monthly, table>>

BulkDeleteNext(w) ==
    /\ Does(w, "bulk")
    /\ \/ \E c \in hand[w].new :
             /\ DeletedWithHistory({c})
             /\ hand' = [hand EXCEPT ![w] = IF hand[w].new = {c} THEN Idle
                                           ELSE [hand[w] EXCEPT !.new = @ \ {c}]]
       \/ Rests(w) /\ UNCHANGED <<email, byHand, client, monthly>>
    /\ UNCHANGED table

\* request_delete: a request goes and its client stays.
RequestDelete(r) ==
    /\ client[r] # NoRow
    /\ client' = [client EXCEPT ![r] = NoRow]
    /\ UNCHANGED <<email, byHand, monthly, table, hand>>

\* request_bulk_delete with the clients: all in one transaction.
RequestBulkDelete(w, rs) ==
    LET cs == {client[r] : r \in rs} IN
    /\ w \in Owners /\ Does(w, "nothing") /\ NoRow \notin cs /\ cs # {}
    /\ DeletedWithHistory(cs)
    /\ UNCHANGED <<table, hand>>

Next ==
    \/ \E a \in Addresses : ClientCreate(a)
    \/ \E c \in ClientRows, a \in Addresses : ClientEdit(c, a)
    \/ \E cs \in SUBSET ClientRows : SetMonthly(cs)
    \/ \E r \in Requests : RequestDelete(r)
    \/ \E d \in Imports : DeleteOldImport(d)
    \/ \E w \in Workers :
        \/ RequestCreate(w) \/ CreateMissing(w) \/ RequestRefused(w)
        \/ \E r \in Requests : CreateRequest(w, r) \/ CreateMany(w, r)
        \/ UploadClears(w) \/ RunImport(w) \/ ImportFails(w) \/ ImportDone(w)
        \/ \E d \in Imports : CheckRows(w, d)
        \/ \E d \in Imports, as \in SUBSET Addresses \ {{}} : UploadStores(w, d, as)
        \/ \E c \in ClientRows : ClientDelete(w, c)
        \/ \E cs \in SUBSET ClientRows : BulkDelete(w, cs)
        \/ BulkDeleteNext(w) \/ DeleteRow(w)
        \/ \E rs \in SUBSET Requests : RequestBulkDelete(w, rs)

Spec == Init /\ [][Next]_vars

-----------------------------------------------------------------------------
(* The variables keep their types.                                          *)
TypeOK ==
    /\ email \in [ClientRows -> Addresses \cup {NoRow}]
    /\ byHand \subseteq Rows
    /\ client \in [Requests -> ClientRows \cup {NoRow}]
    /\ monthly \subseteq Rows
    /\ \A d \in Imports : table[d] = NoRow \/ table[d] \subseteq Addresses

(* "A client is the same as one already there when the email is the same"   *)
(* (importing.py:13): of the clients that were found or imported, and not   *)
(* typed in by hand, one has the address - and one more for every other     *)
(* page that had looked before it was there, whatever was imported, asked   *)
(* and deleted since.                                                       *)
OnePerAddress ==
    \A a \in Addresses :
        LET found == {c \in Rows \ byHand : Mailbox[email[c]] = Mailbox[a]}
            coming == {w \in Workers : /\ Does(w, "create") \/ Does(w, "import")
                                       /\ \E b \in hand[w].new : Mailbox[b] = Mailbox[a]}
        IN  Cardinality(found) + Cardinality(coming) <= Cardinality(Workers)

=============================================================================
