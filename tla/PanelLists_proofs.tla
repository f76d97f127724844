------------------------- MODULE PanelLists_proofs -------------------------
(***************************************************************************)
(* That what the panel shows of the requests agrees, for any finite set of *)
(* them: a request has one state in every list, the numbers of the tabs,   *)
(* the tiles and the dashboard add up, nothing that waits for the owner is *)
(* lost from the list of things to do, and the morning email says what the *)
(* panel does.  Every proof of a sum cuts a set of requests into parts     *)
(* that do not meet; ListsAgree, NothingToDoIsLost and MorningAgrees are   *)
(* the ASSUMEs of MCOffice on two or three requests.                       *)
(***************************************************************************)
EXTENDS PanelLists, FiniteSetTheorems, TLAPS

-----------------------------------------------------------------------------
(* Requests *)

States == Delivered \cup Missing

\* A question has one item, and the pages offer "Nie dotyczy" for documents
\* only (_request_item.html, detail.html).
IsRequest(r) ==
    /\ r.question \in BOOLEAN /\ r.held \in BOOLEAN /\ r.closed \in BOOLEAN
    /\ r.items \in Seq(States)
    /\ r.due \in Int \cup {Never}
    /\ r.question => \E s \in Missing \cup {"DOSTARCZONY", "ZAAKCEPTOWANY"} : r.items = <<s>>

LEMMA ItemsCounted ==
    ASSUME NEW r, r.items \in Seq(States), NEW T
    PROVE  /\ Total(r) \in Nat /\ Items(r, T) \in Nat /\ Items(r, T) <= Total(r)
           /\ Items(r, T) = Total(r) <=> \A i \in DOMAIN r.items : r.items[i] \in T
           /\ Items(r, T) = 0 <=> \A i \in DOMAIN r.items : r.items[i] \notin T
           /\ Total(r) = 0 <=> r.items = <<>>
<1> DEFINE D == 1..Len(r.items)
           X == {i \in D : r.items[i] \in T}
<1>1. DOMAIN r.items = D /\ Len(r.items) \in Nat /\ (Len(r.items) = 0 <=> r.items = <<>>)
  OBVIOUS
<1>2. IsFiniteSet(D) /\ Cardinality(D) = Len(r.items)
  BY <1>1, FS_Interval
<1>3. /\ IsFiniteSet(X) /\ Cardinality(X) <= Cardinality(D)
      /\ Cardinality(X) = Cardinality(D) => X = D
  BY <1>2, FS_Subset
<1>4. Cardinality(X) \in Nat /\ (Cardinality(X) = 0 <=> X = {})
  BY <1>3, FS_CardinalityType, FS_EmptySet
<1>5. Items(r, T) = Cardinality(X) /\ Total(r) = Len(r.items)
  BY <1>1 DEF Items, Total
<1> QED BY <1>1, <1>2, <1>3, <1>4, <1>5

\* A question's state is its item's.
LEMMA QuestionItem ==
    ASSUME NEW r, IsRequest(r), r.question
    PROVE  /\ Total(r) = 1 /\ DOMAIN r.items = {1}
           /\ r.items[1] \in Missing \cup {"DOSTARCZONY", "ZAAKCEPTOWANY"}
<1>1. PICK s \in Missing \cup {"DOSTARCZONY", "ZAAKCEPTOWANY"} : r.items = <<s>>
  BY DEF IsRequest
<1> QED BY <1>1 DEF Total

(* One request has one state, whether the database counts its items, the     *)
(* monthly overview goes through them, or a list asks whether it is still    *)
(* open (compute_status, overview.request_state, in_progress).               *)
THEOREM StatesAgreeAlways ==
    ASSUME NEW r, IsRequest(r)
    PROVE  StatesAgree(r)
<1>1. r.items \in Seq(States)
  BY DEF IsRequest
<1> DEFINE d == Items(r, Delivered)
           n == Total(r)
<1>2. /\ n \in Nat /\ d \in Nat /\ d <= n /\ (n = 0 <=> r.items = <<>>)
      /\ d = n <=> \A i \in DOMAIN r.items : r.items[i] \in Delivered
      /\ d = 0 <=> \A i \in DOMAIN r.items : r.items[i] \notin Delivered
  BY <1>1, ItemsCounted
<1>3. Items(r, ToReview) \in Nat
  BY <1>1, ItemsCounted
<1>4. /\ r.question \in BOOLEAN /\ r.held \in BOOLEAN /\ r.closed \in BOOLEAN
  BY DEF IsRequest
<1>5. ComputeStatus(r) \in Statuses
  BY DEF ComputeStatus, Statuses
<1>6. ~r.question => (InProgress(r) <=> ComputeStatus(r) \in {"OVERDUE", "MISSING", "IN_PROGRESS"})
  BY <1>2, <1>4 DEF InProgress, ComputeStatus
<1>7. ASSUME ~r.held, r.items # <<>>
      PROVE  /\ RequestState(r) = "po_terminie" <=> ComputeStatus(r) = "OVERDUE"
             /\ RequestState(r) = "czekamy" <=> ComputeStatus(r) \in {"MISSING", "IN_PROGRESS"}
  BY <1>2, <1>3, <1>4, <1>7 DEF RequestState, ComputeStatus
<1>8. ASSUME r.question
      PROVE  OpenQuestion(r) <=> ComputeStatus(r) \in {"OVERDUE", "MISSING"}
  <2>1. /\ n = 1 /\ DOMAIN r.items = {1}
        /\ r.items[1] \in Missing \cup {"DOSTARCZONY", "ZAAKCEPTOWANY"}
    BY <1>8, QuestionItem
  <2>2. OpenQuestion(r) <=> ~r.held /\ ~r.closed /\ r.items[1] \in Missing
    BY <1>8, <2>1 DEF OpenQuestion
  <2>3. (d = n <=> r.items[1] \in Delivered) /\ (d = 0 <=> r.items[1] \notin Delivered)
    BY <1>2, <2>1
  <2>4. r.items[1] \in Missing <=> r.items[1] \notin Delivered
    BY <2>1 DEF Missing, Delivered
  <2> QED BY <1>4, <2>1, <2>2, <2>3, <2>4 DEF ComputeStatus
<1> QED BY <1>5, <1>6, <1>7, <1>8 DEF StatesAgree

-----------------------------------------------------------------------------
(* Counting *)

LEMMA Two ==
    ASSUME NEW A, NEW B, IsFiniteSet(A), IsFiniteSet(B), A \cap B = {}
    PROVE  /\ IsFiniteSet(A \cup B) /\ Cardinality(A) \in Nat /\ Cardinality(B) \in Nat
           /\ Cardinality(A \cup B) = Cardinality(A) + Cardinality(B)
<1>1. /\ IsFiniteSet(A \cup B)
      /\ Cardinality(A \cup B) = Cardinality(A) + Cardinality(B) - Cardinality(A \cap B)
  BY FS_Union
<1>2. Cardinality(A \cap B) = 0
  BY FS_EmptySet
<1>3. Cardinality(A) \in Nat /\ Cardinality(B) \in Nat
  BY FS_CardinalityType
<1> QED BY <1>1, <1>2, <1>3

LEMMA Three ==
    ASSUME NEW A, NEW B, NEW C, IsFiniteSet(A), IsFiniteSet(B), IsFiniteSet(C),
           A \cap B = {}, A \cap C = {}, B \cap C = {}
    PROVE  /\ IsFiniteSet(A \cup B \cup C)
           /\ Cardinality(A) \in Nat /\ Cardinality(B) \in Nat /\ Cardinality(C) \in Nat
           /\ Cardinality(A \cup B \cup C) = Cardinality(A) + Cardinality(B) + Cardinality(C)
<1>1. /\ IsFiniteSet(A \cup B) /\ Cardinality(A) \in Nat /\ Cardinality(B) \in Nat
      /\ Cardinality(A \cup B) = Cardinality(A) + Cardinality(B)
  BY Two
<1>2. (A \cup B) \cap C = {}
  OBVIOUS
<1>3. /\ IsFiniteSet(A \cup B \cup C) /\ Cardinality(C) \in Nat
      /\ Cardinality(A \cup B \cup C) = Cardinality(A \cup B) + Cardinality(C)
  BY <1>1, <1>2, Two
<1> QED BY <1>1, <1>3

\* Five sets cut a set up.
Cut(X, A, B, C, D, E) ==
    /\ IsFiniteSet(A) /\ IsFiniteSet(B) /\ IsFiniteSet(C) /\ IsFiniteSet(D) /\ IsFiniteSet(E)
    /\ A \cap B = {} /\ A \cap C = {} /\ B \cap C = {} /\ D \cap E = {}
    /\ X = (A \cup B \cup C) \cup (D \cup E) /\ (A \cup B \cup C) \cap (D \cup E) = {}

LEMMA Five ==
    ASSUME NEW X, NEW A, NEW B, NEW C, NEW D, NEW E, Cut(X, A, B, C, D, E)
    PROVE  Cardinality(X) = Cardinality(A) + Cardinality(B) + Cardinality(C)
                            + Cardinality(D) + Cardinality(E)
<1> DEFINE F == A \cup B \cup C
           G == D \cup E
<1>1. /\ IsFiniteSet(A) /\ IsFiniteSet(B) /\ IsFiniteSet(C)
      /\ A \cap B = {} /\ A \cap C = {} /\ B \cap C = {}
  BY DEF Cut
<1>2. /\ IsFiniteSet(F)
      /\ Cardinality(A) \in Nat /\ Cardinality(B) \in Nat /\ Cardinality(C) \in Nat
      /\ Cardinality(F) = Cardinality(A) + Cardinality(B) + Cardinality(C)
  BY <1>1, Three
<1>3. IsFiniteSet(D) /\ IsFiniteSet(E) /\ D \cap E = {}
  BY DEF Cut
<1>4. /\ IsFiniteSet(G) /\ Cardinality(D) \in Nat /\ Cardinality(E) \in Nat
      /\ Cardinality(G) = Cardinality(D) + Cardinality(E)
  BY <1>3, Two
<1>5. X = F \cup G /\ F \cap G = {}
  BY DEF Cut
<1> HIDE DEF F, G
<1>6. Cardinality(X) = Cardinality(F) + Cardinality(G)
  BY <1>2, <1>4, <1>5, Two
<1> QED BY <1>2, <1>4, <1>6

-----------------------------------------------------------------------------
(* Lists and tabs *)

Asked(S) == {r \in S : ~r.question}

LEMMA FilteredAll == ASSUME NEW S PROVE Filtered(S, [client |-> {}, due |-> {}]) = Asked(S)
BY DEF Filtered, Asked

Tab(S, code) == {r \in Asked(S) : ComputeStatus(r) = code}

LEMMA TabCounts ==
    ASSUME NEW S, NEW code, code # ""
    PROVE  TabCount(Asked(S), code) = Cardinality(Tab(S, code))
<1>1. {r \in Asked(S) : code = "" \/ ComputeStatus(r) = code} = Tab(S, code)
  BY DEF Tab
<1> QED BY <1>1 DEF TabCount, Count

LEMMA FirstTab ==
    ASSUME NEW S
    PROVE  TabCount(S, "") = Cardinality(S)
<1>1. {r \in S : "" = "" \/ ComputeStatus(r) = ""} = S
  OBVIOUS
<1> QED BY <1>1 DEF TabCount, Count

\* The tabs have every request once.
LEMMA TabsAddUp ==
    ASSUME NEW S, IsFiniteSet(S), \A r \in S : IsRequest(r)
    PROVE  /\ \A code \in Statuses : IsFiniteSet(Tab(S, code)) /\ Cardinality(Tab(S, code)) \in Nat
           /\ Cardinality(Asked(S)) = Cardinality(Tab(S, "AWAITING"))
                 + Cardinality(Tab(S, "CLOSED")) + Cardinality(Tab(S, "COMPLETE"))
                 + Cardinality(Tab(S, "OVERDUE")) + Cardinality(Tab(S, "MISSING"))
                 + Cardinality(Tab(S, "IN_PROGRESS"))
           /\ Cardinality({r \in Asked(S) : InProgress(r)}) = Cardinality(Tab(S, "OVERDUE"))
                 + Cardinality(Tab(S, "MISSING")) + Cardinality(Tab(S, "IN_PROGRESS"))
<1>1. ASSUME NEW code \in Statuses
      PROVE  IsFiniteSet(Tab(S, code)) /\ Cardinality(Tab(S, code)) \in Nat
  <2>1. Tab(S, code) \subseteq S
    BY DEF Tab, Asked
  <2> QED BY <2>1, FS_Subset, FS_CardinalityType
<1>2. \A r \in Asked(S) : /\ ComputeStatus(r) \in Statuses
                          /\ InProgress(r) <=> ComputeStatus(r) \in {"OVERDUE", "MISSING", "IN_PROGRESS"}
  BY StatesAgreeAlways DEF Asked, StatesAgree
<1> DEFINE done == Tab(S, "AWAITING") \cup Tab(S, "CLOSED") \cup Tab(S, "COMPLETE")
           open == Tab(S, "OVERDUE") \cup Tab(S, "MISSING") \cup Tab(S, "IN_PROGRESS")
<1>3. open = {r \in Asked(S) : InProgress(r)}
  BY <1>2 DEF Tab
<1>4. Asked(S) = done \cup open /\ done \cap open = {}
  BY <1>2 DEF Tab, Statuses
<1>5. \A x, y \in Statuses : x # y => Tab(S, x) \cap Tab(S, y) = {}
  BY DEF Tab
<1>6. /\ IsFiniteSet(done)
      /\ Cardinality(done) = Cardinality(Tab(S, "AWAITING")) + Cardinality(Tab(S, "CLOSED"))
                              + Cardinality(Tab(S, "COMPLETE"))
  BY <1>1, <1>5, Three DEF Statuses
<1>7. /\ IsFiniteSet(open)
      /\ Cardinality(open) = Cardinality(Tab(S, "OVERDUE")) + Cardinality(Tab(S, "MISSING"))
                              + Cardinality(Tab(S, "IN_PROGRESS"))
  BY <1>1, <1>5, Three DEF Statuses
<1>8. Cardinality(Asked(S)) = Cardinality(done) + Cardinality(open)
  BY <1>4, <1>6, <1>7, Two
<1> HIDE DEF done, open
<1>9. \A code \in Statuses : Cardinality(Tab(S, code)) \in Nat
  BY <1>1
<1> QED BY <1>1, <1>3, <1>6, <1>7, <1>8, <1>9 DEF Statuses

\* Questions are on three tabs, each on one.
LEMMA QuestionsAddUp ==
    ASSUME NEW S, IsFiniteSet(S)
    PROVE  Count({r \in S : r.question}, LAMBDA r : TRUE) = QuestionTabCount(S, "czeka")
              + QuestionTabCount(S, "odpowiedziano") + QuestionTabCount(S, "wyjasnione")
<1> DEFINE asked == {r \in S : r.question}
           On(tab) == {r \in S : r.question /\ QuestionTab(r) = tab}
<1>1. \A r \in S : QuestionTab(r) \in {"czeka", "odpowiedziano", "wyjasnione"}
  BY DEF QuestionTab
<1>2. /\ asked = On("czeka") \cup On("odpowiedziano") \cup On("wyjasnione")
      /\ On("czeka") \cap On("odpowiedziano") = {} /\ On("czeka") \cap On("wyjasnione") = {}
      /\ On("odpowiedziano") \cap On("wyjasnione") = {}
  BY <1>1
<1>3. \A tab : On(tab) \subseteq S /\ IsFiniteSet(On(tab))
  BY FS_Subset
<1>4. \A tab : QuestionTabCount(S, tab) = Cardinality(On(tab))
  BY DEF QuestionTabCount, Count
<1>5. {r \in asked : TRUE} = asked
  OBVIOUS
<1>6. Count(asked, LAMBDA r : TRUE) = Cardinality(asked)
  BY <1>5 DEF Count
<1> HIDE DEF On, asked
<1>7. Cardinality(asked) = Cardinality(On("czeka")) + Cardinality(On("odpowiedziano"))
                           + Cardinality(On("wyjasnione"))
  BY <1>2, <1>3, Three
<1>8. Count(asked, LAMBDA r : TRUE) = QuestionTabCount(S, "czeka")
              + QuestionTabCount(S, "odpowiedziano") + QuestionTabCount(S, "wyjasnione")
  BY <1>4, <1>6, <1>7
<1> QED BY <1>8 DEF asked

LEMMA LateOnes ==
    ASSUME NEW S, \A r \in S : IsRequest(r)
    PROVE  /\ {r \in S : InProgress(r) /\ Past(r)} = Tab(S, "OVERDUE")
           /\ {r \in S : InProgress(r)} = {r \in Asked(S) : InProgress(r)}
<1>1. ASSUME NEW r \in S, ~r.question
      PROVE  InProgress(r) /\ Past(r) <=> ComputeStatus(r) = "OVERDUE"
  <2>1. r.held \in BOOLEAN /\ r.closed \in BOOLEAN
    BY DEF IsRequest
  <2> QED BY <1>1, <2>1 DEF InProgress, ComputeStatus
<1>2. \A r \in S : InProgress(r) => ~r.question
  BY DEF InProgress
<1> QED BY <1>1, <1>2 DEF Tab, Asked

\* The dashboard's numbers.
LEMMA DashboardCounts ==
    ASSUME NEW S, \A r \in S : IsRequest(r)
    PROVE  /\ ForOwner(S).overdue_requests = Cardinality(Tab(S, "OVERDUE"))
           /\ ForOwner(S).active_requests = Cardinality({r \in Asked(S) : InProgress(r)})
<1>1. /\ ForOwner(S).overdue_requests = Cardinality({r \in S : InProgress(r) /\ Past(r)})
      /\ ForOwner(S).active_requests = Cardinality({r \in S : InProgress(r)})
  BY DEF ForOwner, Count
<1> QED BY <1>1, LateOnes

-----------------------------------------------------------------------------
(* The monthly overview *)

RowStates == {"komplet", "do_sprawdzenia", "czekamy", "po_terminie", "zamknieta"}

LEMMA MostUrgentIs ==
    ASSUME NEW X \in SUBSET RowStates, X # {}
    PROVE  /\ MostUrgent(X) \in X
           /\ MostUrgent(X) \in Waiting <=> X \cap Waiting # {}
<1> DEFINE Is(i) == Urgency[i] \in X /\ \A j \in 1..(i - 1) : Urgency[j] \notin X
<1>1. /\ DOMAIN Urgency = 1..5 /\ Urgency[1] = "po_terminie" /\ Urgency[2] = "czekamy"
      /\ Urgency[3] = "do_sprawdzenia" /\ Urgency[4] = "komplet" /\ Urgency[5] = "zamknieta"
  BY DEF Urgency
<1>2. \E i \in 1..5 : Is(i)
  <2>1. CASE "po_terminie" \in X
    BY <1>1, <2>1
  <2>2. CASE "po_terminie" \notin X /\ "czekamy" \in X
    <3>1. Is(2)
      BY <1>1, <2>2
    <3> QED BY <3>1
  <2>3. CASE X \cap {"po_terminie", "czekamy"} = {} /\ "do_sprawdzenia" \in X
    <3>1. Is(3)
      BY <1>1, <2>3
    <3> QED BY <3>1
  <2>4. CASE X \cap {"po_terminie", "czekamy", "do_sprawdzenia"} = {} /\ "komplet" \in X
    <3>1. Is(4)
      BY <1>1, <2>4
    <3> QED BY <3>1
  <2>5. CASE X = {"zamknieta"}
    <3>1. Is(5)
      BY <1>1, <2>5
    <3> QED BY <3>1
  <2> QED BY <2>1, <2>2, <2>3, <2>4, <2>5 DEF RowStates
<1> DEFINE k == CHOOSE i \in DOMAIN Urgency : Is(i)
<1>3. k \in 1..5 /\ Is(k)
  BY <1>1, <1>2
<1>4. MostUrgent(X) = Urgency[k]
  BY DEF MostUrgent
<1> HIDE DEF k
<1>5. Urgency[k] \in Waiting <=> k \in {1, 2}
  BY <1>1, <1>3 DEF Waiting
<1>6. X \cap Waiting # {} => k \in {1, 2}
  <2>1. ASSUME X \cap Waiting # {}, k > 2 PROVE FALSE
    <3>1. 1 \in 1..(k - 1) /\ 2 \in 1..(k - 1)
      BY <1>3, <2>1
    <3> QED BY <1>1, <1>3, <2>1, <3>1 DEF Waiting
  <2> QED BY <1>3, <2>1
<1> QED BY <1>3, <1>4, <1>5, <1>6

\* A row is a client asked in the month, and waits if a request of it does.
LEMMA Rows ==
    ASSUME NEW S
    PROVE  LET rows == OverviewRows(S, 0) IN
           /\ DOMAIN rows = {r.client : r \in RequestsIn(S, {0})}
           /\ \A c \in DOMAIN rows :
                 /\ rows[c] \in RowStates
                 /\ rows[c] \in Waiting <=> \E r \in RequestsIn(S, {0}) :
                                               r.client = c /\ RequestState(r) \in Waiting
<1> DEFINE asked == RequestsIn(S, {0})
           rows == OverviewRows(S, 0)
           Of(c) == {RequestState(r) : r \in {q \in asked : q.client = c}}
<1>1. rows = [c \in {r.client : r \in asked} |-> MostUrgent(Of(c))]
  BY DEF OverviewRows
<1>2. \A r \in asked : RequestState(r) \in RowStates
  BY DEF RequestState, RowStates
<1>3. ASSUME NEW c \in DOMAIN rows
      PROVE  /\ rows[c] \in RowStates
             /\ rows[c] \in Waiting <=> \E r \in asked : r.client = c /\ RequestState(r) \in Waiting
  <2>1. rows[c] = MostUrgent(Of(c)) /\ Of(c) # {} /\ Of(c) \in SUBSET RowStates
    BY <1>1, <1>2, <1>3
  <2>2. rows[c] \in Of(c) /\ (rows[c] \in Waiting <=> Of(c) \cap Waiting # {})
    BY <2>1, MostUrgentIs
  <2> QED BY <2>1, <2>2
<1> QED BY <1>1, <1>3

Tile(rows, tile) == {c \in DOMAIN rows : rows[c] = tile}

\* The tiles have every client once.
LEMMA TilesAddUp ==
    ASSUME NEW rows, IsFiniteSet(DOMAIN rows), \A c \in DOMAIN rows : rows[c] \in RowStates
    PROVE  TileCount(rows, "") = TileCount(rows, "komplet") + TileCount(rows, "do_sprawdzenia")
              + TileCount(rows, "czekamy") + TileCount(rows, "po_terminie")
              + TileCount(rows, "zamknieta")
<1> DEFINE A == Tile(rows, "komplet")
           B == Tile(rows, "do_sprawdzenia")
           C == Tile(rows, "czekamy")
           D == Tile(rows, "po_terminie")
           E == Tile(rows, "zamknieta")
<1>1. TileCount(rows, "") = Cardinality(DOMAIN rows)
  <2>1. {c \in DOMAIN rows : "" = "" \/ rows[c] = ""} = DOMAIN rows
    OBVIOUS
  <2> QED BY <2>1 DEF TileCount
<1>2. /\ TileCount(rows, "komplet") = Cardinality(A)
      /\ TileCount(rows, "do_sprawdzenia") = Cardinality(B)
      /\ TileCount(rows, "czekamy") = Cardinality(C)
      /\ TileCount(rows, "po_terminie") = Cardinality(D)
      /\ TileCount(rows, "zamknieta") = Cardinality(E)
  BY DEF TileCount, Tile
<1>3. \A tile : Tile(rows, tile) \subseteq DOMAIN rows
  BY DEF Tile
<1>4. /\ IsFiniteSet(A) /\ IsFiniteSet(B) /\ IsFiniteSet(C) /\ IsFiniteSet(D) /\ IsFiniteSet(E)
  BY <1>3, FS_Subset
<1>5. /\ A \cap B = {} /\ A \cap C = {} /\ B \cap C = {} /\ D \cap E = {}
      /\ (A \cup B \cup C) \cap (D \cup E) = {}
      /\ DOMAIN rows = (A \cup B \cup C) \cup (D \cup E)
  BY DEF RowStates, Tile
<1> HIDE DEF A, B, C, D, E
<1>6. Cut(DOMAIN rows, A, B, C, D, E)
  BY <1>4, <1>5 DEF Cut
<1>7. Cardinality(DOMAIN rows) = Cardinality(A) + Cardinality(B) + Cardinality(C)
                                 + Cardinality(D) + Cardinality(E)
  BY <1>6, Five
<1> QED BY <1>1, <1>2, <1>7, Zenon

\* Every client asked is on a tile, and "Przypomnij" writes to those that wait.
LEMMA OverviewAddsUp ==
    ASSUME NEW S, IsFiniteSet(S)
    PROVE  LET rows == OverviewRows(S, 0) IN
           /\ TileCount(rows, "") = TileCount(rows, "komplet") + TileCount(rows, "do_sprawdzenia")
                 + TileCount(rows, "czekamy") + TileCount(rows, "po_terminie")
                 + TileCount(rows, "zamknieta")
           /\ DOMAIN WaitingByClient(S, 0) = {c \in DOMAIN rows : rows[c] \in Waiting}
           /\ Remindable(rows) = Cardinality(DOMAIN WaitingByClient(S, 0))
           /\ NotAsked(S, 0) \cap DOMAIN rows = {}
<1> DEFINE rows == OverviewRows(S, 0)
           asked == RequestsIn(S, {0})
<1>1. /\ DOMAIN rows = {r.client : r \in asked}
      /\ \A c \in DOMAIN rows :
            /\ rows[c] \in RowStates
            /\ rows[c] \in Waiting <=> \E r \in asked : r.client = c /\ RequestState(r) \in Waiting
  BY Rows
<1>2. IsFiniteSet(DOMAIN rows)
  <2>1. asked \subseteq S
    BY DEF RequestsIn
  <2>2. IsFiniteSet(asked)
    BY <2>1, FS_Subset
  <2>3. IsFiniteSet({r.client : r \in asked})
    <3> DEFINE f == [r \in asked |-> r.client]
               T == {r.client : r \in asked}
    <3>1. f \in Surjection(asked, T)
      <4>1. f \in [asked -> T] /\ \A t \in T : \E r \in asked : f[r] = t
        OBVIOUS
      <4> HIDE DEF f, T
      <4> QED BY <4>1 DEF Surjection
    <3> HIDE DEF f, T
    <3>2. IsFiniteSet(T)
      BY <2>2, <3>1, FS_Surjection
    <3> QED BY <3>2 DEF T
  <2> QED BY <1>1, <2>3
<1>3. DOMAIN WaitingByClient(S, 0) = {c \in DOMAIN rows : rows[c] \in Waiting}
  <2>1. DOMAIN WaitingByClient(S, 0) = {r.client : r \in {q \in asked : RequestState(q) \in Waiting}}
    BY DEF WaitingByClient
  <2> QED BY <1>1, <2>1
<1>4. Remindable(rows) = Cardinality(DOMAIN WaitingByClient(S, 0))
  BY <1>3 DEF Remindable
<1>5. NotAsked(S, 0) \cap DOMAIN rows = {}
  BY DEF NotAsked
<1>6. \A c \in DOMAIN rows : rows[c] \in RowStates
  BY <1>1
<1> HIDE DEF rows
<1>7. TileCount(rows, "") = TileCount(rows, "komplet") + TileCount(rows, "do_sprawdzenia")
                 + TileCount(rows, "czekamy") + TileCount(rows, "po_terminie")
                 + TileCount(rows, "zamknieta")
  BY <1>2, <1>6, TilesAddUp
<1> QED BY <1>3, <1>4, <1>5, <1>7 DEF rows

-----------------------------------------------------------------------------
(* A client's card and the recipient's page *)

LEMMA NotFinished ==
    ASSUME NEW r, IsRequest(r), ~r.held
    PROVE  /\ ~IsFinished(r) <=> InProgress(r) \/ OpenQuestion(r)
           /\ ~(InProgress(r) /\ OpenQuestion(r))
<1>1. ~r.question => (InProgress(r) <=> ComputeStatus(r) \in {"OVERDUE", "MISSING", "IN_PROGRESS"})
  BY StatesAgreeAlways DEF StatesAgree
<1>2. r.question => (OpenQuestion(r) <=> ComputeStatus(r) \in {"OVERDUE", "MISSING"})
  BY StatesAgreeAlways DEF StatesAgree
<1>3. ComputeStatus(r) \in Statuses /\ ComputeStatus(r) # "AWAITING"
  BY StatesAgreeAlways DEF StatesAgree, ComputeStatus
<1>4. ASSUME r.question PROVE ComputeStatus(r) # "IN_PROGRESS"
  <2>1. Total(r) = 1 /\ r.items \in Seq(States)
    BY <1>4, QuestionItem DEF IsRequest
  <2>2. Items(r, Delivered) \in Nat /\ Items(r, Delivered) <= Total(r)
    BY <2>1, ItemsCounted
  <2> QED BY <2>1, <2>2 DEF ComputeStatus
<1>5. r.question \in BOOLEAN /\ (InProgress(r) => ~r.question) /\ (OpenQuestion(r) => r.question)
  BY DEF IsRequest, InProgress, OpenQuestion
<1> QED BY <1>1, <1>2, <1>3, <1>4, <1>5 DEF IsFinished, Statuses

\* What a client sees as open is what waits for them on their card.
LEMMA OpenOnCard ==
    ASSUME NEW S, IsFiniteSet(S), \A r \in S : IsRequest(r), NEW c
    PROVE  OpenCount(S, c) = Count(Received(S, c), InProgress)
                             + Cardinality(OpenMatters(S, c).waiting)
<1> DEFINE here == Received(S, c)
           asked == {r \in here : InProgress(r)}
           waiting == {r \in S : r.client = c /\ OpenQuestion(r)}
<1>1. {r \in here : ~IsFinished(r)} = asked \cup waiting /\ asked \cap waiting = {}
  BY NotFinished DEF Received, OpenQuestion
<1>2. IsFiniteSet(asked) /\ IsFiniteSet(waiting)
  <2>1. asked \subseteq S /\ waiting \subseteq S
    BY DEF Received
  <2> QED BY <2>1, FS_Subset
<1>3. OpenMatters(S, c).waiting = waiting
  BY DEF OpenMatters
<1>4. OpenCount(S, c) = Cardinality({r \in here : ~IsFinished(r)})
  BY DEF OpenCount, Count
<1>5. Count(here, InProgress) = Cardinality(asked)
  BY DEF Count
<1> HIDE DEF asked, waiting
<1>6. Cardinality(asked \cup waiting) = Cardinality(asked) + Cardinality(waiting)
  BY <1>1, <1>2, Two
<1> QED BY <1>1, <1>3, <1>4, <1>5, <1>6

\* From a client that delivered everything nothing is missing.
LEMMA NothingMissing ==
    ASSUME NEW S, \A r \in S : IsRequest(r), NEW c, ClientStatus(S, c) = "ALL_DELIVERED"
    PROVE  OpenMatters(S, c).missing = {}
<1> DEFINE all == UNION {{r} \X DOMAIN r.items : r \in {q \in S : q.client = c /\ ~q.question}}
           done == {a \in all : a[1].items[a[2]] \in Delivered}
<1>1. done = all
  BY DEF ClientStatus
<1>2. ASSUME NEW r \in S, r.client = c, InProgress(r), Items(r, Missing) > 0
      PROVE  FALSE
  <2>1. r.items \in Seq(States) /\ ~r.question
    BY <1>2 DEF IsRequest, InProgress
  <2>2. PICK i \in DOMAIN r.items : r.items[i] \in Missing
    BY <1>2, <2>1, ItemsCounted
  <2>3. <<r, i>> \in all
    BY <1>2, <2>1
  <2>4. r.items[i] \in Delivered
    BY <1>1, <2>3
  <2> QED BY <2>2, <2>4 DEF Missing, Delivered
<1> QED BY <1>2 DEF OpenMatters

(* The numbers of the panel add up - tabs, tiles, the dashboard - and each   *)
(* list shows what its number says, for any requests at all (status_tabs,    *)
(* for_owner, overview_rows, waiting_by_client, card.open_matters).          *)
THEOREM ListsAgreeAlways ==
    ASSUME NEW S, IsFiniteSet(S), \A r \in S : IsRequest(r)
    PROVE  ListsAgree(S)
<1> DEFINE documents == Filtered(S, [client |-> {}, due |-> {}])
           rows == OverviewRows(S, 0)
<1>1. documents = Asked(S)
  BY FilteredAll
<1>2. /\ \A code \in Statuses : TabCount(documents, code) = Cardinality(Tab(S, code))
      /\ TabCount(documents, "") = Cardinality(Asked(S))
  <2>1. \A code \in Statuses : code # ""
    BY DEF Statuses
  <2>2. \A code \in Statuses : TabCount(Asked(S), code) = Cardinality(Tab(S, code))
    BY <2>1, TabCounts
  <2>3. TabCount(Asked(S), "") = Cardinality(Asked(S))
    BY FirstTab
  <2> QED BY <1>1, <2>2, <2>3
<1>3. /\ TabCount(documents, "") = TabCount(documents, "AWAITING")
              + TabCount(documents, "CLOSED") + TabCount(documents, "COMPLETE")
              + TabCount(documents, "OVERDUE") + TabCount(documents, "MISSING")
              + TabCount(documents, "IN_PROGRESS")
      /\ ForOwner(S).overdue_requests = TabCount(documents, "OVERDUE")
      /\ ForOwner(S).active_requests = TabCount(documents, "OVERDUE")
              + TabCount(documents, "MISSING") + TabCount(documents, "IN_PROGRESS")
  BY <1>2, TabsAddUp, DashboardCounts DEF Statuses
<1>4. /\ TileCount(rows, "") = TileCount(rows, "komplet") + TileCount(rows, "do_sprawdzenia")
              + TileCount(rows, "czekamy") + TileCount(rows, "po_terminie")
              + TileCount(rows, "zamknieta")
      /\ DOMAIN WaitingByClient(S, 0) = {c \in DOMAIN rows : rows[c] \in Waiting}
      /\ Remindable(rows) = Cardinality(DOMAIN WaitingByClient(S, 0))
      /\ NotAsked(S, 0) \cap DOMAIN rows = {}
  BY OverviewAddsUp
<1>5. Count({r \in S : r.question}, LAMBDA r : TRUE) = QuestionTabCount(S, "czeka")
              + QuestionTabCount(S, "odpowiedziano") + QuestionTabCount(S, "wyjasnione")
  BY QuestionsAddUp
<1>6. \A c \in {r.client : r \in S} :
         /\ OpenCount(S, c) = Count(Received(S, c), InProgress)
               + Cardinality(OpenMatters(S, c).waiting)
         /\ ClientStatus(S, c) = "ALL_DELIVERED" => OpenMatters(S, c).missing = {}
  BY OpenOnCard, NothingMissing
<1>7. TabCount(documents, "") = Count(documents, LAMBDA r : TRUE)
  <2>1. {r \in documents : TRUE} = documents /\ TabCount(documents, "") = Cardinality(documents)
    BY FirstTab
  <2> QED BY <2>1 DEF Count
<1> QED BY <1>3, <1>4, <1>5, <1>6, <1>7 DEF ListsAgree

-----------------------------------------------------------------------------
(* What is to do *)

LEMMA Listed ==
    ASSUME NEW T, IsFiniteSet(T)
    PROVE  /\ SetToSeq(T) \in Seq(T) /\ Len(SetToSeq(T)) = Cardinality(T)
           /\ \A r \in T : \E i \in 1..Cardinality(T) : SetToSeq(T)[i] = r
<1> DEFINE n == Cardinality(T)
           all == SetToSeq(T)
<1>1. n \in Nat /\ ExistsBijection(1..n, T)
  BY FS_CardinalityType
<1>2. \E f \in [1..n -> T] : IsInjective(f)
  BY <1>1 DEF ExistsBijection, Bijection, Injection
<1>3. all \in [1..n -> T] /\ IsInjective(all)
  BY <1>2 DEF SetToSeq
<1> HIDE DEF all
<1>4. IsFiniteSet(1..n) /\ Cardinality(1..n) = n
  BY <1>1, FS_Interval
<1>5. all \in Injection(1..n, T)
  BY <1>3 DEF Injection
<1>6. all \in Surjection(1..n, T)
  BY <1>4, <1>5, FS_Injection
<1>7. \A r \in T : \E i \in 1..n : all[i] = r
  BY <1>6 DEF Surjection
<1>8. all \in Seq(T) /\ Len(all) = n
  BY <1>1, <1>3
<1> QED BY <1>7, <1>8 DEF all

Least(a, b) == IF a < b THEN a ELSE b

Entries(kind, T) ==
    [i \in 1..Least(Len(SetToSeq(T)), ToDoLength) |-> [kind |-> kind, request |-> SetToSeq(T)[i]]]

Shows(entries, e) == \E i \in DOMAIN entries : entries[i] = e

Kinds == {"answer", "review", "overdue", "unopened"}
Entry(S) == [kind : Kinds, request : S]

\* Entries of a kind show some of its requests, and all of them unless they
\* fill the list.
Part(S, entries, kind, T) ==
    /\ entries \in Seq(Entry(S)) /\ Len(entries) \in Nat
    /\ \A e : Shows(entries, e) => e.kind = kind /\ e.request \in T
    /\ Len(entries) < ToDoLength => \A r \in T : Shows(entries, [kind |-> kind, request |-> r])

LEMMA EntriesAre ==
    ASSUME ToDoLength \in Nat, NEW S, NEW T \in SUBSET S, IsFiniteSet(T), NEW kind \in Kinds
    PROVE  Part(S, Entries(kind, T), kind, T)
<1> DEFINE all == SetToSeq(T)
           n == Least(Len(all), ToDoLength)
           entries == Entries(kind, T)
<1>1. /\ all \in Seq(T) /\ Len(all) \in Nat /\ Cardinality(T) = Len(all)
      /\ \A r \in T : \E i \in 1..Len(all) : all[i] = r
  BY Listed
<1>2. n \in Nat /\ n <= ToDoLength /\ n <= Len(all) /\ (n < ToDoLength => n = Len(all))
  BY <1>1 DEF Least
<1>3. entries = [i \in 1..n |-> [kind |-> kind, request |-> all[i]]]
  BY DEF Entries
<1> HIDE DEF all, n, entries
<1>4. \A i \in 1..n : all[i] \in T
  BY <1>1, <1>2
<1>5. \A i \in 1..n : /\ entries[i] = [kind |-> kind, request |-> all[i]]
                      /\ entries[i] \in Entry(S)
  BY <1>3, <1>4 DEF Entry
<1>6. entries \in Seq(Entry(S)) /\ Len(entries) = n /\ DOMAIN entries = 1..n
  BY <1>2, <1>3, <1>5
<1>7. \A e : Shows(entries, e) => e.kind = kind /\ e.request \in T
  BY <1>4, <1>5, <1>6 DEF Shows
<1>8. n < ToDoLength => \A r \in T : Shows(entries, [kind |-> kind, request |-> r])
  BY <1>1, <1>2, <1>5, <1>6 DEF Shows
<1> QED BY <1>2, <1>6, <1>7, <1>8 DEF entries, Part

LEMMA ShownInBoth ==
    ASSUME NEW X, NEW s \in Seq(X), NEW t \in Seq(X)
    PROVE  /\ s \o t \in Seq(X) /\ Len(s \o t) = Len(s) + Len(t)
           /\ Len(s) \in Nat /\ Len(t) \in Nat
           /\ \A e : Shows(s \o t, e) <=> Shows(s, e) \/ Shows(t, e)
<1>1. /\ s \o t \in Seq(X) /\ Len(s \o t) = Len(s) + Len(t)
      /\ Len(s) \in Nat /\ Len(t) \in Nat
  OBVIOUS
<1>2. /\ DOMAIN s = 1..Len(s) /\ DOMAIN t = 1..Len(t)
      /\ DOMAIN (s \o t) = 1..(Len(s) + Len(t))
  OBVIOUS
<1>3. /\ \A i \in DOMAIN s : i \in DOMAIN (s \o t) /\ (s \o t)[i] = s[i]
      /\ \A i \in DOMAIN t : Len(s) + i \in DOMAIN (s \o t) /\ (s \o t)[Len(s) + i] = t[i]
  BY <1>1, <1>2
<1>4. \A i \in DOMAIN (s \o t) : \/ i \in DOMAIN s /\ (s \o t)[i] = s[i]
                                 \/ i - Len(s) \in DOMAIN t /\ (s \o t)[i] = t[i - Len(s)]
  BY <1>1, <1>2
<1>5. ASSUME NEW e PROVE Shows(s \o t, e) <=> Shows(s, e) \/ Shows(t, e)
  BY <1>3, <1>4 DEF Shows
<1> QED BY <1>1, <1>5

Answers(S) == {r \in S : ~r.held /\ ~r.closed /\ r.question /\ r.items[1] = "DOSTARCZONY"}
Reviews(S) == {r \in S : ~r.held /\ ~r.closed /\ ~r.question /\ Items(r, ToReview) > 0}
Late(S) == {r \in S : InProgress(r) /\ Past(r)}

AllToDo(S) ==
    Entries("answer", Answers(S)) \o Entries("review", Reviews(S))
        \o Entries("overdue", Late(S)) \o Entries("unopened", Unopened(S))

LEMMA ToDoIs ==
    ASSUME NEW S
    PROVE  ToDo(S) = SubSeq(AllToDo(S), 1, Least(Len(AllToDo(S)), ToDoLength))
<1> DEFINE open == {r \in S : ~r.held /\ ~r.closed}
<1>1. /\ {r \in open : r.question /\ r.items[1] = "DOSTARCZONY"} = Answers(S)
      /\ {r \in open : ~r.question /\ Items(r, ToReview) > 0} = Reviews(S)
      /\ {r \in S : InProgress(r) /\ Past(r)} = Late(S)
  BY DEF Answers, Reviews, Late
<1> QED BY <1>1, Zenon DEF ToDo, AllToDo, Entries, Least

\* The list has what its four parts have, and all of it unless it is full.
LEMMA ToDoShows ==
    ASSUME ToDoLength \in Nat, NEW S, IsFiniteSet(S)
    PROVE  /\ Len(ToDo(S)) \in Nat /\ Len(ToDo(S)) <= ToDoLength
           /\ \A e : Shows(ToDo(S), e) =>
                 \/ e.kind = "answer" /\ e.request \in Answers(S)
                 \/ e.kind = "review" /\ e.request \in Reviews(S)
                 \/ e.kind = "overdue" /\ e.request \in Late(S)
                 \/ e.kind = "unopened" /\ e.request \in Unopened(S)
           /\ Len(ToDo(S)) # ToDoLength =>
                 /\ \A r \in Answers(S) : Shows(ToDo(S), [kind |-> "answer", request |-> r])
                 /\ \A r \in Reviews(S) : Shows(ToDo(S), [kind |-> "review", request |-> r])
                 /\ \A r \in Late(S) : Shows(ToDo(S), [kind |-> "overdue", request |-> r])
<1> DEFINE a == Entries("answer", Answers(S))
           b == Entries("review", Reviews(S))
           c == Entries("overdue", Late(S))
           d == Entries("unopened", Unopened(S))
           all == AllToDo(S)
           n == Least(Len(all), ToDoLength)
<1>1. /\ Answers(S) \in SUBSET S /\ Reviews(S) \in SUBSET S
      /\ Late(S) \in SUBSET S /\ Unopened(S) \in SUBSET S
  BY DEF Answers, Reviews, Late, Unopened
<1>2. /\ IsFiniteSet(Answers(S)) /\ IsFiniteSet(Reviews(S))
      /\ IsFiniteSet(Late(S)) /\ IsFiniteSet(Unopened(S))
  BY <1>1, FS_Subset
<1>3. /\ Part(S, a, "answer", Answers(S)) /\ Part(S, b, "review", Reviews(S))
      /\ Part(S, c, "overdue", Late(S)) /\ Part(S, d, "unopened", Unopened(S))
  <2>1. \A kind \in Kinds : \A T \in SUBSET S :
           IsFiniteSet(T) => Part(S, Entries(kind, T), kind, T)
    BY EntriesAre
  <2> QED BY <1>1, <1>2, <2>1 DEF Kinds
<1>4. all = a \o b \o c \o d
  BY DEF AllToDo
<1> HIDE DEF a, b, c, d, all, n
<1>5. /\ a \o b \in Seq(Entry(S)) /\ Len(a \o b) = Len(a) + Len(b)
      /\ Len(a) \in Nat /\ Len(b) \in Nat
      /\ \A e : Shows(a \o b, e) <=> Shows(a, e) \/ Shows(b, e)
  BY <1>3, ShownInBoth DEF Part
<1>6. /\ a \o b \o c \in Seq(Entry(S)) /\ Len(a \o b \o c) = Len(a \o b) + Len(c)
      /\ Len(c) \in Nat
      /\ \A e : Shows(a \o b \o c, e) <=> Shows(a \o b, e) \/ Shows(c, e)
  BY <1>3, <1>5, ShownInBoth DEF Part
<1>7. /\ all \in Seq(Entry(S)) /\ Len(all) = Len(a) + Len(b) + Len(c) + Len(d)
      /\ Len(d) \in Nat /\ Len(all) \in Nat
      /\ \A e : Shows(all, e) <=> Shows(a \o b \o c, e) \/ Shows(d, e)
  <2>1. d \in Seq(Entry(S))
    BY <1>3 DEF Part
  <2> DEFINE abc == a \o b \o c
  <2>2. abc \in Seq(Entry(S)) /\ Len(abc) = Len(a) + Len(b) + Len(c) /\ all = abc \o d
    BY <1>4, <1>5, <1>6
  <2> HIDE DEF abc
  <2>3. /\ all \in Seq(Entry(S)) /\ Len(all) = Len(abc) + Len(d)
        /\ Len(d) \in Nat /\ Len(abc) \in Nat
        /\ \A e : Shows(all, e) <=> Shows(abc, e) \/ Shows(d, e)
    BY <2>1, <2>2, ShownInBoth
  <2> QED BY <1>5, <1>6, <2>2, <2>3 DEF abc
<1>8. /\ ToDo(S) = SubSeq(all, 1, n) /\ n \in Nat /\ n <= Len(all) /\ n <= ToDoLength
      /\ (n < ToDoLength => n = Len(all))
  BY <1>7, ToDoIs DEF n, all, Least
<1>9. /\ Len(ToDo(S)) = n /\ DOMAIN ToDo(S) = 1..n
      /\ \A i \in 1..n : ToDo(S)[i] = all[i]
  BY <1>7, <1>8
<1>10. /\ \A e : Shows(ToDo(S), e) => Shows(all, e)
       /\ n = Len(all) => \A e : Shows(all, e) => Shows(ToDo(S), e)
  BY <1>7, <1>8, <1>9 DEF Shows
<1>11. \A e : Shows(all, e) <=> \/ Shows(a, e) \/ Shows(b, e) \/ Shows(c, e) \/ Shows(d, e)
  BY <1>5, <1>6, <1>7
<1>12. \A e : Shows(ToDo(S), e) =>
                 \/ e.kind = "answer" /\ e.request \in Answers(S)
                 \/ e.kind = "review" /\ e.request \in Reviews(S)
                 \/ e.kind = "overdue" /\ e.request \in Late(S)
                 \/ e.kind = "unopened" /\ e.request \in Unopened(S)
  BY <1>3, <1>10, <1>11 DEF Part
<1>13. ASSUME Len(ToDo(S)) # ToDoLength
       PROVE  /\ \A r \in Answers(S) : Shows(ToDo(S), [kind |-> "answer", request |-> r])
              /\ \A r \in Reviews(S) : Shows(ToDo(S), [kind |-> "review", request |-> r])
              /\ \A r \in Late(S) : Shows(ToDo(S), [kind |-> "overdue", request |-> r])
  <2>1. n = Len(all) /\ Len(a) < ToDoLength /\ Len(b) < ToDoLength /\ Len(c) < ToDoLength
    BY <1>5, <1>6, <1>7, <1>8, <1>9, <1>13
  <2> QED BY <1>3, <1>10, <1>11, <2>1 DEF Part
<1> QED BY <1>8, <1>9, <1>12, <1>13

(* What waits for the owner - an answer, files to look at, a late request -  *)
(* is on the list of things to do until the list is full, and no late        *)
(* request is among those merely not opened (dashboard.to_do, unopened).     *)
THEOREM NothingToDoIsLostAlways ==
    ASSUME ToDoLength \in Nat, NEW S, IsFiniteSet(S), \A r \in S : IsRequest(r)
    PROVE  NothingToDoIsLost(S)
<1> DEFINE entries == ToDo(S)
           shown == {entries[i].request : i \in DOMAIN entries}
<1>1. Len(entries) <= ToDoLength
  BY ToDoShows
<1>2. \A e : Shows(entries, e) => e.request \in shown
  BY DEF Shows
<1>3. ASSUME NEW r \in S, ~r.held, ~r.closed, Items(r, ToReview) > 0 \/ (InProgress(r) /\ Past(r)),
             Len(entries) # ToDoLength
      PROVE  r \in shown
  <2>1. r \in Answers(S) \cup Reviews(S) \cup Late(S)
    <3>1. CASE InProgress(r) /\ Past(r)
      BY <3>1 DEF Late
    <3>2. CASE Items(r, ToReview) > 0 /\ ~r.question
      BY <1>3, <3>2 DEF Reviews
    <3>3. CASE Items(r, ToReview) > 0 /\ r.question
      <4>1. r.items \in Seq(States) /\ DOMAIN r.items = {1}
            /\ r.items[1] \in Missing \cup {"DOSTARCZONY", "ZAAKCEPTOWANY"}
        BY <3>3, QuestionItem DEF IsRequest
      <4>2. r.items[1] \in ToReview
        BY <3>3, <4>1, ItemsCounted
      <4>3. r.items[1] = "DOSTARCZONY"
        BY <4>1, <4>2 DEF ToReview, Missing
      <4> QED BY <1>3, <3>3, <4>3 DEF Answers
    <3> QED BY <1>3, <3>1, <3>2, <3>3 DEF IsRequest
  <2>2. \E kind : Shows(entries, [kind |-> kind, request |-> r])
    BY <1>3, <2>1, ToDoShows
  <2> QED BY <1>2, <2>2
<1>4. Unopened(S) \cap Upcoming(S) \subseteq {r \in S : InProgress(r) /\ ~Past(r)}
  BY DEF Unopened, Upcoming
<1>5. FirstSteps(S) = {} => \E r \in S : ~r.question /\ Items(r, Delivered) > 0
  BY DEF FirstSteps
<1> QED BY <1>1, <1>3, <1>4, <1>5 DEF NothingToDoIsLost

-----------------------------------------------------------------------------
(* The morning email *)

\* A held question has not reached anybody: no answer to it.
Unanswered(S) == \A r \in S : r.question /\ r.held => r.items[1] # "DOSTARCZONY"

LEMMA SectionIs ==
    ASSUME NEW S
    PROVE  /\ Section(S).overdue = Cardinality(Late(S))
           /\ Section(S).to_review = Cardinality(Answers(S))
           /\ Section(S).waiting = {r \in S : WaitsLong(r)}
           /\ Section(S).deadlines = Deadlines(S, 0, 1)
<1>1. {r \in S : r.question /\ ~r.closed /\ ~r.held /\ r.items[1] = "DOSTARCZONY"} = Answers(S)
  BY DEF Answers
<1>2. /\ Section(S).overdue = Cardinality({r \in S : InProgress(r) /\ Past(r)})
      /\ Section(S).to_review = Cardinality({r \in S : r.question /\ ~r.closed /\ ~r.held
                                                       /\ r.items[1] = "DOSTARCZONY"})
      /\ Section(S).waiting = {r \in S : WaitsLong(r)}
      /\ Section(S).deadlines = Deadlines(S, 0, 1)
  BY DEF Section, Count
<1> QED BY <1>1, <1>2 DEF Late

\* Every request with a deadline of tomorrow or before is late or in the list.
LEMMA NearOnes ==
    ASSUME NEW S, IsFiniteSet(S), \A r \in S : IsRequest(r)
    PROVE  LET near == {r \in S : InProgress(r) /\ r.due # Never /\ r.due <= 1}
               listed == {r \in Deadlines(S, 0, 1) : ~r.question}
           IN  /\ near = Late(S) \cup listed
               /\ Cardinality(near) = Cardinality(Late(S)) + Cardinality(listed)
<1> DEFINE near == {r \in S : InProgress(r) /\ r.due # Never /\ r.due <= 1}
           listed == {r \in Deadlines(S, 0, 1) : ~r.question}
<1>1. \A r \in S : r.due \in Int \cup {Never}
  BY DEF IsRequest
<1>2. listed = {r \in S : InProgress(r) /\ r.due # Never /\ r.due \in 0..1}
  BY DEF Deadlines, InProgress
<1>3. Late(S) = {r \in S : InProgress(r) /\ r.due # Never /\ r.due < 0}
  BY DEF Late, Past
<1>4. near = Late(S) \cup listed
  <2>1. ASSUME NEW r \in S, r.due # Never
        PROVE  r.due <= 1 <=> r.due < 0 \/ r.due \in 0..1
    BY <1>1, <2>1
  <2> QED BY <1>2, <1>3, <2>1
<1>5. Late(S) \cap listed = {}
  <2>1. ASSUME NEW r \in S, r.due # Never, r.due < 0, r.due \in 0..1 PROVE FALSE
    BY <1>1, <2>1
  <2> QED BY <1>2, <1>3, <2>1
<1>6. IsFiniteSet(Late(S)) /\ IsFiniteSet(listed)
  BY <1>2, FS_Subset DEF Late
<1> HIDE DEF near, listed
<1>7. Cardinality(near) = Cardinality(Late(S)) + Cardinality(listed)
  BY <1>4, <1>5, <1>6, Two
<1> QED BY <1>4, <1>7 DEF near, listed

(* The morning email counts what the dashboard and the calendar count, has   *)
(* every open request with a deadline of tomorrow or before, and when it has *)
(* nothing to say the list of things to do has no answer to look at and no   *)
(* late request (digest._section, calendar.today_summary, dashboard.to_do).  *)
THEOREM MorningAgreesAlways ==
    ASSUME ToDoLength \in Nat, NEW S, IsFiniteSet(S), \A r \in S : IsRequest(r), Unanswered(S)
    PROVE  MorningAgrees(S)
<1> DEFINE near == {r \in S : InProgress(r) /\ r.due # Never /\ r.due <= 1}
           listed == {r \in Deadlines(S, 0, 1) : ~r.question}
<1>1. Section(S).overdue = ForOwner(S).overdue_requests
  <2>1. Late(S) = Tab(S, "OVERDUE")
    BY LateOnes DEF Late
  <2>2. ForOwner(S).overdue_requests = Cardinality(Tab(S, "OVERDUE"))
    BY DashboardCounts
  <2>3. Section(S).overdue = Cardinality(Late(S))
    BY SectionIs
  <2> QED BY <2>1, <2>2, <2>3
<1>2. Section(S).to_review = TodaySummary(S).to_review
  <2>1. {r \in S : r.question /\ ~r.closed /\ r.items[1] = "DOSTARCZONY"} = Answers(S)
    BY DEF Answers, Unanswered, IsRequest
  <2>2. TodaySummary(S).to_review
            = Cardinality({r \in S : r.question /\ ~r.closed /\ r.items[1] = "DOSTARCZONY"})
    BY DEF TodaySummary, Count
  <2> QED BY <2>1, <2>2, SectionIs
<1>3. Cardinality(Section(S).waiting) = TodaySummary(S).waiting_long
  BY SectionIs DEF TodaySummary, Count
<1>4. TodaySummary(S).due_today \subseteq Section(S).deadlines
  <2>1. Deadlines(S, 0, 0) \subseteq Deadlines(S, 0, 1)
    BY DEF Deadlines
  <2>2. TodaySummary(S).due_today = Deadlines(S, 0, 0)
    BY DEF TodaySummary
  <2> QED BY <2>1, <2>2, SectionIs
<1>5. /\ near = Late(S) \cup listed
      /\ Cardinality(near) = Cardinality(Late(S)) + Cardinality(listed)
  BY NearOnes
<1>6. ASSUME EmptySection(S)
      PROVE  /\ near = {}
             /\ \A e \in {ToDo(S)[i] : i \in DOMAIN ToDo(S)} :
                   e.kind \notin {"answer", "overdue"}
  <2>1. /\ Deadlines(S, 0, 1) = {}
        /\ Cardinality(Late(S)) = 0 /\ Cardinality(Answers(S)) = 0
    BY <1>6, SectionIs DEF EmptySection
  <2>2. Late(S) \subseteq S /\ Answers(S) \subseteq S
    BY DEF Late, Answers
  <2>3. Late(S) = {} /\ Answers(S) = {}
    BY <2>1, <2>2, FS_Subset, FS_EmptySet
  <2>4. listed = {}
    BY <2>1
  <2>5. \A e : Shows(ToDo(S), e) => e.kind \notin {"answer", "overdue"}
    BY <2>3, ToDoShows
  <2> QED BY <1>5, <2>3, <2>4, <2>5 DEF Shows
<1>7. /\ Section(S).overdue = Cardinality(Late(S))
      /\ Section(S).deadlines = Deadlines(S, 0, 1)
  BY SectionIs
<1> QED BY <1>1, <1>2, <1>3, <1>4, <1>5, <1>6, <1>7 DEF MorningAgrees

=============================================================================
