---------------------------- MODULE LegalVersions ----------------------------
(***************************************************************************)
(* The versions of the legal documents (apps/consents, apps/common/        *)
(* legal.py).  A version is the day its wording applies from; a deployment *)
(* puts new wordings on the site, usually ahead of their day.  Until then  *)
(* the wording in force is looked up in the archive, people accept and buy *)
(* on that one, and an announcement tells everybody once.  A wording is    *)
(* its version and the number of the deployment that brought it.           *)
(***************************************************************************)
EXTENDS Naturals, FiniteSets

CONSTANTS
    Documents,   \* the ACCEPTED ones
    Users,
    Workers,     \* whatever may be sending announcements
    MaxDay,      \* bound: days
    MaxTexts     \* bound: deployments, the first one included

LegalAssumption == MaxDay \in Nat \ {0} /\ MaxTexts \in Nat \ {0}

VARIABLES
    today,
    site,       \* the wording of each document on the site
    archive,    \* LegalVersion rows
    accepted,   \* LegalAcceptance rows
    shown,      \* the versions on the acceptance page a person has open
    orders,     \* the versions each person bought on
    announced,  \* LegalAnnouncement rows: the versions of all documents
    told,       \* LegalUpdateNotice rows
    sender,     \* a send() at work
    early,      \* history: versions accepted or bought on before their day
    odd         \* history: documents with a wording replaced before its day,
                \* or without any earlier one

vars == <<today, site, archive, accepted, shown, orders, announced, told,
          sender, early, odd>>

people == <<accepted, shown, orders, early, odd>>
posted == <<announced, told, sender>>

Days == 1..MaxDay
Wordings == [document : Documents, version : Days, text : 1..MaxTexts]

Idle == [key |-> {}, list |-> {}]
NoPage == {}

Init ==
    /\ today = 1
    /\ site = [d \in Documents |-> [document |-> d, version |-> 1, text |-> 1]]
    /\ archive \in SUBSET {site[d] : d \in Documents}
    /\ accepted = {}
    /\ shown = [u \in Users |-> NoPage]
    /\ orders = [u \in Users |-> {}]
    /\ announced = {}
    /\ told = {}
    /\ sender = [w \in Workers |-> Idle]
    /\ early = {}
    /\ odd = {}

-----------------------------------------------------------------------------
(* Which wording applies *)

LastText == CHOOSE n \in 1..MaxTexts :
    (\E d \in Documents : site[d].text = n) /\ \A d \in Documents : site[d].text <= n

InForceOnSite(d) == site[d].version <= today

Earlier(d) == {x \in archive : x.document = d /\ x.version < site[d].version}

Newest(S) ==
    CHOOSE x \in S : \A y \in S :
        y.version < x.version \/ (y.version = x.version /\ y.text <= x.text)

\* Mutant of InForce: the site's wording, whatever its day.
InForceAtOnce(d) == {site[d]}

\* versions.in_force, at most one: on the site, or the newest earlier one.
InForce(d) ==
    IF InForceOnSite(d) THEN {site[d]}
    ELSE IF Earlier(d) = {} THEN {} ELSE {Newest(Earlier(d))}

\* in_force(key) or current(key), as stored with an acceptance or an order.
Applies(d) == IF InForce(d) = {} THEN site[d] ELSE CHOOSE x \in InForce(d) : TRUE

\* Whatever is stored is archived first.
Archived == archive' = archive \cup {Applies(d) : d \in Documents}

\* to_accept
ToAccept(u) ==
    {d \in Documents : \E x \in InForce(d) : <<u, d, x.version>> \notin accepted}

Member(u) == \E a \in accepted : a[1] = u

\* needs_acceptance
NeedsAcceptance(u) == ToAccept(u) # {}

\* What a person is held to before its day.
NoteEarly(u) ==
    early' = early \cup {<<u, d>> : d \in {e \in Documents : Applies(e).version > today}}

-----------------------------------------------------------------------------
(* The team and time *)

\* A deployment; one document's text changes, its date may.
Deploy(d, v) ==
    LET text == 1 + LastText IN
    /\ \A w \in Workers : sender[w] = Idle
    /\ text <= MaxTexts /\ v >= site[d].version
    /\ site' = [site EXCEPT ![d] = [document |-> d, version |-> v, text |-> text]]
    /\ odd' = IF ~InForceOnSite(d) \/ site[d] \notin archive THEN odd \cup {d} ELSE odd
    /\ UNCHANGED <<today, archive, accepted, shown, orders, early, posted>>

\* archive_all, once a day.
ArchiveAll ==
    /\ archive' = archive \cup {site[d] : d \in Documents}
    /\ archive' # archive
    /\ UNCHANGED <<today, site, people, posted>>

Tick ==
    /\ today < MaxDay /\ today' = today + 1
    /\ UNCHANGED <<site, archive, people, posted>>

-----------------------------------------------------------------------------
(* People *)

\* record_acceptance
RecordAcceptance(u) ==
    /\ accepted' = accepted \cup {<<u, d, Applies(d).version>> : d \in Documents}
    /\ Archived
    /\ NoteEarly(u)

\* Signing up, in any of its ways.
Join(u) ==
    /\ ~Member(u)
    /\ RecordAcceptance(u)
    /\ UNCHANGED <<today, site, shown, orders, odd, posted>>

\* The middleware sends to the page what needs accepting.
AcceptPage(u) ==
    /\ Member(u) /\ NeedsAcceptance(u)
    /\ shown' = [shown EXCEPT ![u] = {<<d, Applies(d).version>> : d \in ToAccept(u)}]
    /\ UNCHANGED <<today, site, archive, accepted, orders, early, odd, posted>>

\* ... and its form records what applies by then, if anything is missing still.
Accept(u) ==
    /\ shown[u] # NoPage
    /\ shown' = [shown EXCEPT ![u] = NoPage]
    /\ IF NeedsAcceptance(u) THEN RecordAcceptance(u)
       ELSE UNCHANGED <<accepted, archive, early>>
    /\ UNCHANGED <<today, site, orders, odd, posted>>

\* checkout: wordings(CONTRACT), past the middleware; what is to follow is
\* archived too.
Checkout(u) ==
    /\ Member(u) /\ ~NeedsAcceptance(u)
    /\ orders' = [orders EXCEPT ![u] = @ \cup {<<d, Applies(d).version>> : d \in Documents}]
    /\ archive' = archive \cup {site[d] : d \in Documents}
    /\ NoteEarly(u)
    /\ UNCHANGED <<today, site, accepted, shown, odd, posted>>

-----------------------------------------------------------------------------
(* Announcements *)

\* announced_key
AnnouncedKey == {<<d, site[d].version>> : d \in Documents}

\* notify_legal_update publishes.
Publish ==
    /\ announced' = announced \cup {AnnouncedKey}
    /\ announced' # announced
    /\ UNCHANGED <<today, site, archive, people, told, sender>>

\* recipients, of everybody or of somebody who just joined.
Recipients(us) ==
    {u \in us : /\ Member(u) /\ <<u, AnnouncedKey>> \notin told
                /\ \E d \in Documents : <<u, d, site[d].version>> \notin accepted}

\* send: the command, the hourly task, welcome.
Send(w, us) ==
    /\ sender[w] = Idle
    /\ AnnouncedKey \in announced
    /\ Recipients(us) # {}
    /\ sender' = [sender EXCEPT ![w] = [key |-> AnnouncedKey, list |-> Recipients(us)]]
    /\ UNCHANGED <<today, site, archive, people, announced, told>>

\* The notice is stored, then mailed; another run may have been there first
\* (IntegrityError).
SendNext(w, u) ==
    LET s == sender[w] IN
    /\ u \in s.list
    /\ sender' = [sender EXCEPT ![w] = IF s.list = {u} THEN Idle ELSE [s EXCEPT !.list = @ \ {u}]]
    /\ told' = told \cup {<<u, s.key>>}
    /\ UNCHANGED <<today, site, archive, people, announced>>

SendKilled(w) ==
    /\ sender[w] # Idle
    /\ sender' = [sender EXCEPT ![w] = Idle]
    /\ \/ UNCHANGED told
       \/ \E u \in sender[w].list : told' = told \cup {<<u, sender[w].key>>}
    /\ UNCHANGED <<today, site, archive, people, announced>>

Next ==
    \/ \E d \in Documents, v \in Days : Deploy(d, v)
    \/ ArchiveAll \/ Tick \/ Publish
    \/ \E u \in Users : Join(u) \/ AcceptPage(u) \/ Accept(u) \/ Checkout(u)
    \/ \E w \in Workers :
        \/ Send(w, Users) \/ SendKilled(w)
        \/ \E u \in Users : Send(w, {u}) \/ SendNext(w, u)

Spec == Init /\ [][Next]_vars

-----------------------------------------------------------------------------
(* The variables keep their types.                                          *)
TypeOK ==
    /\ today \in Days
    /\ \A d \in Documents : site[d] \in Wordings
    /\ archive \subseteq Wordings
    /\ accepted \subseteq Users \X Documents \X Days
    /\ \A u \in Users : orders[u] \subseteq Documents \X Days

(* "During a notice period the earlier one" (consents/services.py:24-25,    *)
(* versions.py:80-84): nobody accepts a version, or buys on it, before its  *)
(* day, and whoever buys has accepted what is bought on - but for documents *)
(* that had no earlier wording archived, or whose new one was replaced      *)
(* before its day came.                                                     *)
AcceptedBeforeBought ==
    \A u \in Users :
        /\ \A d \in Documents : <<u, d>> \in early => d \in odd
        /\ \A o \in orders[u] : o[1] \notin odd => <<u, o[1], o[2]>> \in accepted

=============================================================================
