----------------------------- MODULE PanelLists -----------------------------
(***************************************************************************)
(* What the panel says of the requests: the lists and their tabs, the      *)
(* dashboard, the monthly overview, the client's card, the recipient's     *)
(* page.  Each computes a request's state in its own way, in the database  *)
(* or in Python, and together they should say the same.  A request is      *)
(*   [question, held, closed, items, due, age, month, opened, client]      *)
(* with items a sequence of states, due the days to its deadline (or       *)
(* Never), age the days since it was sent and month the months since.      *)
(***************************************************************************)
EXTENDS Integers, Sequences, FiniteSets, SequencesExt

CONSTANTS
    Never,          \* no deadline
    ToDoLength,     \* TO_DO_LENGTH
    MonthSegments,  \* MONTH_SEGMENTS
    HistoryMonths   \* HISTORY_MONTHS

Delivered == {"DOSTARCZONY", "ZAAKCEPTOWANY", "NIE_DOTYCZY", "NIE_DOTYCZY accepted"}
Missing == {"BRAK", "ODRZUCONY"}

\* DocumentReviewService.to_review's rule.
ToReview == {"DOSTARCZONY", "NIE_DOTYCZY"}

\* Count(..., filter=Q(items__status__in=statuses))
Items(r, statuses) == Cardinality({i \in DOMAIN r.items : r.items[i] \in statuses})

\* with_stats' total_items.
Total(r) == Len(r.items)

\* A NULL deadline is before and after nothing.
Past(r) == r.due # Never /\ r.due < 0

Count(S, P(_)) == Cardinality({r \in S : P(r)})

-----------------------------------------------------------------------------
(* The state of a request *)

InProgress(r) ==
    /\ ~r.held /\ ~r.closed /\ ~r.question
    /\ ~(Total(r) > 0 /\ Items(r, Delivered) = Total(r))

OpenQuestion(r) ==
    r.question /\ ~r.held /\ ~r.closed /\ \E i \in DOMAIN r.items : r.items[i] \in Missing

\* compute_status
ComputeStatus(r) ==
    IF r.held THEN "AWAITING"
    ELSE IF r.closed THEN "CLOSED"
    ELSE IF Total(r) > 0 /\ Items(r, Delivered) = Total(r) THEN "COMPLETE"
    ELSE IF Past(r) THEN "OVERDUE"
    ELSE IF Items(r, Delivered) = 0 THEN "MISSING"
    ELSE "IN_PROGRESS"

Statuses == {"AWAITING", "CLOSED", "COMPLETE", "OVERDUE", "MISSING", "IN_PROGRESS"}

\* The monthly overview's request_state.
RequestState(r) ==
    IF Items(r, Delivered) < Total(r)
    THEN IF r.closed THEN "zamknieta" ELSE IF Past(r) THEN "po_terminie" ELSE "czekamy"
    ELSE IF Items(r, ToReview) > 0 THEN "do_sprawdzenia" ELSE "komplet"

Urgency == <<"po_terminie", "czekamy", "do_sprawdzenia", "komplet", "zamknieta">>
Waiting == {"po_terminie", "czekamy"}

MostUrgent(states) ==
    IF states = {} THEN ""
    ELSE Urgency[CHOOSE i \in DOMAIN Urgency :
                    Urgency[i] \in states /\ \A j \in 1..(i - 1) : Urgency[j] \notin states]

\* The state of a client, from the items of their requests for documents.
ClientStatus(S, c) ==
    LET all == UNION {{r} \X DOMAIN r.items : r \in {q \in S : q.client = c /\ ~q.question}}
        done == {a \in all : a[1].items[a[2]] \in Delivered}
    IN  IF all = {} THEN "INACTIVE"
        ELSE IF done = all THEN "ALL_DELIVERED"
        ELSE IF done = {} THEN "MISSING_DOCUMENTS" ELSE "ACTIVE"

-----------------------------------------------------------------------------
(* Lists and tabs *)

\* filter_for_owner, with the filters of the form.
Filtered(S, filters) ==
    {r \in S :
        /\ ~r.question
        /\ filters.client # {} => r.client \in filters.client
        /\ filters.due # {} => r.due \in filters.due}

\* status_tabs: "" counts everything.
TabCount(S, code) == Count(S, LAMBDA r : code = "" \/ ComputeStatus(r) = code)

\* The tabs of Pytania.
QuestionTab(r) ==
    LET state == r.items[1] IN
    IF state \in Missing THEN "czeka"
    ELSE IF state = "DOSTARCZONY" THEN "odpowiedziano" ELSE "wyjasnione"

QuestionTabCount(S, tab) == Count(S, LAMBDA r : r.question /\ QuestionTab(r) = tab)

\* received.filtered: what a recipient sees as finished.
IsFinished(r) == ComputeStatus(r) \in {"COMPLETE", "CLOSED"}

Received(S, c) == {r \in S : r.client = c /\ ~r.held}

OpenCount(S, c) == Count(Received(S, c), LAMBDA r : ~IsFinished(r))

\* card.open_matters of a client.
OpenMatters(S, c) ==
    [waiting |-> {r \in S : r.client = c /\ OpenQuestion(r)},
     to_review |-> {r \in S : /\ r.client = c /\ r.question /\ ~r.held /\ ~r.closed
                              /\ r.items[1] = "DOSTARCZONY"},
     missing |-> {r \in S : r.client = c /\ InProgress(r) /\ Items(r, Missing) > 0}]

-----------------------------------------------------------------------------
(* The dashboard *)

ForOwner(S) ==
    LET review == {a \in UNION {{r} \X DOMAIN r.items : r \in S} :
                      LET r == a[1] IN
                      ~r.closed /\ ~r.held /\ r.items[a[2]] \in ToReview}
    IN  [active_requests |-> Count(S, InProgress),
         overdue_requests |-> Count(S, LAMBDA r : InProgress(r) /\ Past(r)),
         to_review |-> Cardinality(review)]

\* unopened: sent days ago, nothing delivered, not late, never opened.
Unopened(S) ==
    {r \in S : /\ ~r.held /\ ~r.closed /\ r.age >= 3
               /\ Items(r, Delivered) = 0 /\ ~Past(r) /\ ~r.opened}

Upcoming(S) == {r \in S : InProgress(r) /\ r.due # Never /\ r.due \in 0..6}

\* to_do: each kind cut to the length of the list, then the list.
ToDo(S) ==
    LET Some(kind, T) ==
            LET all == SetToSeq(T) IN
            [i \in 1..(IF Len(all) < ToDoLength THEN Len(all) ELSE ToDoLength) |->
                [kind |-> kind, request |-> all[i]]]
        open == {r \in S : ~r.held /\ ~r.closed}
        all == Some("answer", {r \in open : r.question /\ r.items[1] = "DOSTARCZONY"})
               \o Some("review", {r \in open : ~r.question /\ Items(r, ToReview) > 0})
               \o Some("overdue", {r \in S : InProgress(r) /\ Past(r)})
               \o Some("unopened", Unopened(S))
    IN  SubSeq(all, 1, IF Len(all) < ToDoLength THEN Len(all) ELSE ToDoLength)

\* The two steps of a new account, {} once both are done.
FirstSteps(S) ==
    LET sent == \E r \in S : ~r.held /\ ~r.question
        got == \E r \in S : ~r.question /\ Items(r, Delivered) > 0
    IN  IF sent /\ got THEN {} ELSE {<<"request", sent>>, <<"received", got>>}

\* activity: one line for a burst of the same.
Activity(logs) ==
    FoldLeft(LAMBDA shown, i : IF i > 1 /\ logs[i - 1] = logs[i] THEN shown
                               ELSE Append(shown, logs[i]),
             <<>>, [i \in DOMAIN logs |-> i])

\* card.history: pages of the lines that concern the kind.
History(lines, kind, limit) ==
    LET kept == SelectSeq(lines, LAMBDA l : kind = "wszystko" \/ l = kind) IN
    [shown |-> SubSeq(kept, 1, IF Len(kept) < limit THEN Len(kept) ELSE limit),
     has_more |-> Len(kept) > limit]

-----------------------------------------------------------------------------
(* The calendar and the morning email (apps/agenda) *)

\* calendar.deadlines of the days first..last, counted from today.
Deadlines(S, first, last) ==
    {r \in S : /\ r.due # Never /\ r.due \in first..last
               /\ InProgress(r) \/ (r.question /\ ~r.closed /\ Items(r, Missing) > 0)}

WaitsLong(r) == OpenQuestion(r) /\ r.age > 7

\* calendar.today_summary
TodaySummary(S) ==
    [waiting_long |-> Count(S, WaitsLong),
     to_review |-> Count(S, LAMBDA r : /\ r.question /\ ~r.closed
                                       /\ r.items[1] = "DOSTARCZONY"),
     due_today |-> Deadlines(S, 0, 0)]

\* digest._section, but the reminders and what arrived.
Section(S) ==
    [deadlines |-> Deadlines(S, 0, 1),
     overdue |-> Count(S, LAMBDA r : InProgress(r) /\ Past(r)),
     waiting |-> {r \in S : WaitsLong(r)},
     to_review |-> Count(S, LAMBDA r : /\ r.question /\ ~r.closed /\ ~r.held
                                       /\ r.items[1] = "DOSTARCZONY")]

EmptySection(S) ==
    LET section == Section(S) IN
    /\ section.deadlines = {} /\ section.waiting = {}
    /\ section.overdue = 0 /\ section.to_review = 0

-----------------------------------------------------------------------------
(* Zestawienie: the month of a request is the month it was sent in *)

\* A month is <<year, month>>.
NextMonth(m) == IF m[2] = 12 THEN <<m[1] + 1, 1>> ELSE <<m[1], m[2] + 1>>
MonthBefore(m) == IF m[2] = 1 THEN <<m[1] - 1, 12>> ELSE <<m[1], m[2] - 1>>

\* _first_days, oldest first.
FirstDays(last, count) ==
    LET back[i \in 0..(count - 1)] == IF i = 0 THEN last ELSE MonthBefore(back[i - 1])
    IN  [i \in 1..count |-> back[count - i]]

\* requests_in, of one month or of them all.
RequestsIn(S, months) == {r \in S : ~r.held /\ ~r.question /\ r.month \in months}

OverviewRows(S, month) ==
    LET asked == RequestsIn(S, {month}) IN
    [c \in {r.client : r \in asked} |->
        MostUrgent({RequestState(r) : r \in {q \in asked : q.client = c}})]

\* The tiles; "" is everyone.
TileCount(rows, tile) == Cardinality({c \in DOMAIN rows : tile = "" \/ rows[c] = tile})

Remindable(rows) == Cardinality({c \in DOMAIN rows : rows[c] \in Waiting})

\* Asked in the months shown, not in this one.
NotAsked(S, month) ==
    {r.client : r \in RequestsIn(S, 0..(HistoryMonths - 1))} \ DOMAIN OverviewRows(S, month)

\* waiting_by_client: what "Przypomnij" writes about.
WaitingByClient(S, month) ==
    LET waiting == {r \in RequestsIn(S, {month}) : RequestState(r) \in Waiting} IN
    [c \in {r.client : r \in waiting} |-> {r \in waiting : r.client = c}]

\* round() of n / d: to the even neighbour when halfway.
Rounded(n, d) ==
    LET q == n \div d  rest == 2 * (n % d) IN
    IF rest > d \/ (rest = d /\ q % 2 = 1) THEN q + 1 ELSE q

Repeated(x, n) == [i \in 1..n |-> x]

\* month_segments: marks in the states' order, made to fit.
Segments(counts, total) ==
    LET size == IF total < MonthSegments THEN total ELSE MonthSegments
        Marks(state) == Repeated(state, Rounded(counts[state] * size, total))
    IN  IF total = 0 THEN <<>>
        ELSE SubSeq(Marks("komplet") \o Marks("do_sprawdzenia") \o Marks("czekamy")
                    \o Marks("po_terminie") \o Repeated("czekamy", size), 1, size)

-----------------------------------------------------------------------------
(* What they should agree on *)

\* One request, everywhere.  A held or closed one is in no list of what waits.
StatesAgree(r) ==
    /\ ComputeStatus(r) \in Statuses
    /\ ~r.question => (InProgress(r) <=> ComputeStatus(r) \in {"OVERDUE", "MISSING", "IN_PROGRESS"})
    /\ ~r.held /\ r.items # <<>> =>
          /\ RequestState(r) = "po_terminie" <=> ComputeStatus(r) = "OVERDUE"
          /\ RequestState(r) = "czekamy" <=> ComputeStatus(r) \in {"MISSING", "IN_PROGRESS"}
    /\ r.question => (OpenQuestion(r) <=> ComputeStatus(r) \in {"OVERDUE", "MISSING"})

\* The numbers of a page add up, and every list shows what its number says.
ListsAgree(S) ==
    LET documents == Filtered(S, [client |-> {}, due |-> {}])
        clients == {r.client : r \in S}
        rows == OverviewRows(S, 0)
    IN  /\ TabCount(documents, "") = Count(documents, LAMBDA r : TRUE)
        /\ TabCount(documents, "") = TabCount(documents, "AWAITING")
              + TabCount(documents, "CLOSED") + TabCount(documents, "COMPLETE")
              + TabCount(documents, "OVERDUE") + TabCount(documents, "MISSING")
              + TabCount(documents, "IN_PROGRESS")
        /\ ForOwner(S).overdue_requests = TabCount(documents, "OVERDUE")
        /\ ForOwner(S).active_requests = TabCount(documents, "OVERDUE")
              + TabCount(documents, "MISSING") + TabCount(documents, "IN_PROGRESS")
        /\ TileCount(rows, "") = TileCount(rows, "komplet") + TileCount(rows, "do_sprawdzenia")
              + TileCount(rows, "czekamy") + TileCount(rows, "po_terminie")
              + TileCount(rows, "zamknieta")
        /\ DOMAIN WaitingByClient(S, 0) = {c \in DOMAIN rows : rows[c] \in Waiting}
        /\ Remindable(rows) = Cardinality(DOMAIN WaitingByClient(S, 0))
        /\ NotAsked(S, 0) \cap DOMAIN rows = {}
        /\ Count({r \in S : r.question}, LAMBDA r : TRUE) = QuestionTabCount(S, "czeka")
              + QuestionTabCount(S, "odpowiedziano") + QuestionTabCount(S, "wyjasnione")
        /\ \A c \in clients :
              /\ OpenCount(S, c) = Count(Received(S, c), InProgress)
                    + Cardinality(OpenMatters(S, c).waiting)
              /\ ClientStatus(S, c) = "ALL_DELIVERED" =>
                    OpenMatters(S, c).missing = {}

\* What waits for the owner is on the list until the list is full, and late
\* requests are never among the unopened.
NothingToDoIsLost(S) ==
    LET entries == ToDo(S)
        shown == {entries[i].request : i \in DOMAIN entries}
        work == {r \in S : /\ ~r.held /\ ~r.closed
                           /\ Items(r, ToReview) > 0 \/ (InProgress(r) /\ Past(r))}
    IN  /\ Len(entries) <= ToDoLength
        /\ work \subseteq shown \/ Len(entries) = ToDoLength
        /\ Unopened(S) \cap Upcoming(S) \subseteq {r \in S : InProgress(r) /\ ~Past(r)}
        /\ FirstSteps(S) = {} => \E r \in S : ~r.question /\ Items(r, Delivered) > 0

\* The morning email says what the panel does, and every request with a
\* deadline of tomorrow or before is in it.
MorningAgrees(S) ==
    LET section == Section(S)
        summary == TodaySummary(S)
        near == {r \in S : InProgress(r) /\ r.due # Never /\ r.due <= 1}
    IN  /\ section.overdue = ForOwner(S).overdue_requests
        /\ section.to_review = summary.to_review
        /\ Cardinality(section.waiting) = summary.waiting_long
        /\ summary.due_today \subseteq section.deadlines
        /\ Cardinality(near) = section.overdue
              + Cardinality({r \in section.deadlines : ~r.question})
        /\ EmptySection(S) => /\ near = {}
                              /\ \A e \in {ToDo(S)[i] : i \in DOMAIN ToDo(S)} :
                                    e.kind \notin {"answer", "overdue"}

\* A mark for each client while they fit, in their states when none is closed.
SegmentsFit(counts, total) ==
    LET marks == Segments(counts, total)
        Shown(state) == Cardinality({i \in DOMAIN marks : marks[i] = state})
        states == {"komplet", "do_sprawdzenia", "czekamy", "po_terminie"}
    IN  /\ Len(marks) = IF total < MonthSegments THEN total ELSE MonthSegments
        /\ (total <= MonthSegments /\ total = counts["komplet"] + counts["do_sprawdzenia"]
                                              + counts["czekamy"] + counts["po_terminie"])
           => \A s \in states : Shown(s) = counts[s]

=============================================================================
