----------------------------- MODULE MCOffice -----------------------------
(***************************************************************************)
(* An account's office for TLC: the places of its plan, its clients, the   *)
(* terms it accepted and the links to its panel, side by side (the first   *)
(* state says which of them moves), and what its lists and imported files  *)
(* say, over small inputs.                                                 *)
(***************************************************************************)
EXTENDS PlanSlots, Integers, Sequences, TLC

CONSTANTS
    Spellings, MailboxOf, ClientRequests, Imports, Pages, Owners, NoRow,
    Never, ToDoLength, MonthSegments, HistoryMonths,
    Documents, Customers, Senders, MaxDay, MaxTexts,
    LinkDays, MaxDays, MaxLinks, MaxKilled

VARIABLES
    part,
    email, byHand, client, monthly, table, hand,
    today, site, archive, accepted, termsPage, orders, announced, told, sender,
    early, odd,
    access, made, links, session, visit, day, crashes, newest, crossed

\* The values that are requests for the plan are rows of clients here: one
\* set of interchangeable values is enough.
C == INSTANCE Clients WITH Addresses <- Spellings, Requests <- ClientRequests, Workers <- Pages,
                           ClientRows <- Requests, Mailbox <- MailboxOf
T == INSTANCE ImportTable
L == INSTANCE PanelLists
D == INSTANCE DemoData
V == INSTANCE LegalVersions WITH Users <- Customers, Workers <- Senders, shown <- termsPage
P == INSTANCE PanelLinks WITH Browsers <- Workers, hand <- visit, Life <- LinkDays,
                              MaxDay <- MaxDays, MaxTokens <- MaxLinks, MaxCrashes <- MaxKilled

ASSUME C!ClientAssumption /\ V!LegalAssumption /\ P!PanelAssumption

clientVars == <<email, byHand, client, monthly, table, hand>>
legalVars == <<today, site, archive, accepted, termsPage, orders, announced, told,
               sender, early, odd>>
linkVars == <<access, made, links, session, visit, day, crashes, newest, crossed>>

PartInit ==
    /\ Init /\ C!Init /\ V!Init /\ P!Init
    /\ part \in {"plan", "clients", "terms", "links"}
    /\ part # "plan" => verified /\ \A l \in Limits : l <= limit
    /\ part # "terms" => archive = {}
    /\ part # "links" => \A w \in Workers : session[w] = "nobody"

PartNext ==
    \/ part = "plan" /\ Next /\ UNCHANGED <<part, clientVars, legalVars, linkVars>>
    \/ part = "clients" /\ C!Next /\ UNCHANGED <<part, vars, legalVars, linkVars>>
    \/ part = "terms" /\ V!Next /\ UNCHANGED <<part, vars, clientVars, linkVars>>
    \/ part = "links" /\ P!Next /\ UNCHANGED <<part, vars, clientVars, legalVars>>

PartSpec == PartInit /\ [][PartNext]_<<part, vars, clientVars, legalVars, linkVars>>

\* Every address is a spelling of the same mailbox.
OneMailbox == [a \in Spellings |-> "mailbox"]

Symmetry == Permutations(Requests) \cup Permutations(Workers) \cup Permutations(Spellings)

-----------------------------------------------------------------------------
(* One client for an address; see Clients.                                  *)
OnePerAddress == C!OnePerAddress

(* Nobody buys on what was not accepted, or before its day; see             *)
(* LegalVersions.                                                           *)
AcceptedBeforeBought == V!AcceptedBeforeBought

(* The links to the panel; see PanelLinks.                                  *)
PanelLinksHold == P!PanelLinksHold

-----------------------------------------------------------------------------
(* Imported files *)

Headers == {<<"", "">>, <<"email", "email">>, <<"", "email">>, <<"name", "name">>,
            <<"", "name">>, <<"nip", "nip">>}
CellKinds == {<<0, 0, 0, 0>>, <<2, 2, 0, 2>>, <<2, 0, 2, 0>>, <<2, 1, 0, 2>>, <<2, 0, 0, 2>>}

Columns(ats) ==
    {T!Column(h[1], h[2], at, k[1], k[2], k[3], k[4]) : h \in Headers, k \in CellKinds, at \in ats}

\* A guess fills no field twice; an exact header wins wherever it stands.
ASSUME \A n \in 1..2 : \A columns \in [1..n -> Columns(BOOLEAN)] : T!GuessIsSound(columns)
ASSUME \A columns \in [1..3 -> Columns({FALSE})] : T!GuessIsSound(columns)

\* Choices posted for these columns, or for another file's.
ASSUME
    \A n, k \in 1..2 : \A columns \in [1..n -> Columns({FALSE})],
                         mapping \in [1..k -> {"", "email", "name", "key"}] :
        \A rows \in 1..2, header \in {"unsaid", "1", "0"} :
            T!ChoicesAreKept(columns, rows, [header |-> header, mapping |-> mapping])

\* A file imported twice adds nobody the second time.
ASSUME \A n \in 0..4 : \A rows \in [1..n -> {"", "m1", "m2"}], existing \in SUBSET {"m1", "m2"} :
          T!ImportIsSound(existing, rows)

\* The checksum of a NIP finds one mistake.
ASSUME \A a, b, c, k \in 0..9 : T!NipFindsMistakes(<<5, 2, a, 3, 0, b, 7, c, 2, k>>)

-----------------------------------------------------------------------------
(* Lists *)

\* Requests for documents with their states, deadlines and months.
Asked(items, dues, months, clients, ages) ==
    {[question |-> FALSE, held |-> h, closed |-> x, items |-> i, due |-> d, age |-> a,
      month |-> m, opened |-> o, client |-> c] :
        h \in BOOLEAN, x \in BOOLEAN, i \in items, d \in dues, a \in ages, m \in months,
        o \in BOOLEAN, c \in clients}

Question(state, held, closed) ==
    [question |-> TRUE, held |-> held, closed |-> closed, items |-> <<state>>, due |-> 3,
     age |-> 5, month |-> 0, opened |-> FALSE, client |-> "c1"]

QuestionStates == {"BRAK", "ODRZUCONY", "DOSTARCZONY", "ZAAKCEPTOWANY"}

\* A request's state is the same in every list.
ASSUME \A r \in Asked(UNION {[1..n -> L!Delivered \cup L!Missing] : n \in 0..2},
                      {-1, 3, 9, Never}, {0}, {"c1"}, {0, 5}) : L!StatesAgree(r)
ASSUME \A s \in QuestionStates, h, x \in BOOLEAN : L!StatesAgree(Question(s, h, x))

FewItems == {<<"BRAK">>, <<"DOSTARCZONY">>, <<"ZAAKCEPTOWANY">>, <<"BRAK", "DOSTARCZONY">>}

Few ==
    {r \in Asked(FewItems, {-1, 3}, {0, 1}, {"c1", "c2"}, {5}) :
        ~r.opened /\ ~(r.held /\ r.closed)}
    \cup {Question(s, FALSE, FALSE) : s \in {"BRAK", "DOSTARCZONY"}}

\* The numbers of the pages add up, and nothing that waits is left out.
ASSUME \A a, b \in Few : L!ListsAgree({a, b}) /\ L!NothingToDoIsLost({a, b})
ASSUME LET open == {r \in Few : r.month = 0 /\ ~r.held} IN
       \A a, b, c \in open : Cardinality({a, b, c}) = 3 => L!ListsAgree({a, b, c})

\* A question is held only until it is sent, so nobody has answered it.
Dated ==
    {r \in Asked(FewItems, {-1, 0, 1, 2, Never}, {0}, {"c1"}, {5}) : ~r.opened}
    \cup {[Question(s, h, x) EXCEPT !.age = a, !.due = d] :
            s \in {"BRAK", "ZAAKCEPTOWANY"}, h, x \in BOOLEAN, a \in {7, 8}, d \in {-1, 0, 1, 2, Never}}
    \cup {[Question("DOSTARCZONY", FALSE, x) EXCEPT !.due = d] : x \in BOOLEAN, d \in {0, 2}}

\* The calendar, the panel and the morning email.
ASSUME \A a, b \in Dated : L!MorningAgrees({a, b})

\* The bar of the month has a mark for each client.
ASSUME \A k, d, c, p \in 0..4, closed \in 0..1 :
          L!SegmentsFit([komplet |-> k, do_sprawdzenia |-> d, czekamy |-> c, po_terminie |-> p],
                        k + d + c + p + closed)

\* The months of the overview follow one another.
ASSUME \A m \in 1..12 : LET days == L!FirstDays(<<2026, m>>, 12) IN
          days[12] = <<2026, m>> /\ \A i \in 1..11 : L!NextMonth(days[i]) = days[i + 1]

\* The activity has no line twice in a row, and a page of history its length.
ASSUME \A n \in 0..5 : \A logs \in [1..n -> {"a", "b"}] :
          LET shown == L!Activity(logs) IN
          /\ \A i \in 1..(Len(shown) - 1) : shown[i] # shown[i + 1]
          /\ L!History(logs, "a", 2).has_more <=> Cardinality({i \in 1..n : logs[i] = "a"}) > 2

-----------------------------------------------------------------------------
(* The demo *)

\* Its requests are where the lists put them, the showcase among them.
ASSUME \A i \in DOMAIN D!Seed : D!StoryHolds(D!Seed[i], 2, 3, 3) /\ L!StatesAgree(D!Row(D!Seed[i]))
ASSUME [i \in DOMAIN D!Seed |-> L!RequestState(D!Row(D!Seed[i]))] =
       <<"czekamy", "komplet", "po_terminie", "czekamy">>
ASSUME D!Showcase = D!September

Visitors == [signedIn : BOOLEAN, cookie : BOOLEAN, demoExists : BOOLEAN, expires : {9, 10, 11},
             ip : {1, 2}]

\* Demos of the last day: n from this address, m from another, l of them new.
Started(n, m, l) == {[id |-> i, ip |-> IF i <= n THEN 1 ELSE 2,
                      created |-> IF i > n + m - l THEN 0 ELSE -100] : i \in 1..(n + m)}

ASSUME \A n \in {0, 29, 30}, m \in {0, 270, 271}, l \in {0, 299, 300, 301} :
          LET demos == Started(n, m, l) IN
          \A v \in Visitors : D!StartIsFair(v, demos, 10)
=============================================================================
