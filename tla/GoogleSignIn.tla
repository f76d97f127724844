---------------------------- MODULE GoogleSignIn ----------------------------
(***************************************************************************)
(* Signing in with Google (apps/accounts/google.py, google_auth.py,        *)
(* google_views.py).  A browser goes to Google and comes back; its session *)
(* remembers one trip, one sign-up waiting for the terms, one confirmation *)
(* it asked for and one proof that whoever is signed in may connect Google.*)
(* The person at a browser holds Google accounts, reads mailboxes and      *)
(* knows passwords.  A mailed link is opened by who reads the mailbox, in  *)
(* whichever browser.  Everything kept in a session or a link expires, and *)
(* every limit refuses, whenever they may.                                 *)
(***************************************************************************)
EXTENDS Naturals, FiniteSets

CONSTANTS
    Browsers,
    Accounts,
    Subjects,    \* Google accounts, by their permanent id
    Mailboxes,
    AddressOf,   \* the address of a Google account
    Kept,        \* Google accounts whose mailbox Google runs
    Has,         \* the Google accounts of the person at a browser
    Reads,       \* the mailboxes they read
    Knows,       \* the accounts whose password they know
    NoAccount,
    NoSubject,
    NoProof,
    Password,    \* the proof given by typing the password
    MaxTrips     \* bound: trips to Google and confirmations asked for

\* Whoever holds a Google account whose mailbox Google runs reads it.
GoogleAssumption ==
    /\ AddressOf \in [Subjects -> Mailboxes]
    /\ Kept \subseteq Subjects
    /\ Has \in [Browsers -> SUBSET Subjects]
    /\ \A b \in Browsers : \A s \in Has[b] \cap Kept : AddressOf[s] \in Reads[b]
    /\ NoProof \notin Mailboxes /\ Password \notin Mailboxes
    /\ NoAccount \notin Accounts

VARIABLES
    acct,     \* the User rows, each with its GoogleAccount
    session,
    answers,  \* Google's answers on their way back to the browsers
    mails,    \* links mailed that still work
    page,     \* a page between finding the account and linking it
    trips

vars == <<acct, session, answers, mails, page, trips>>

Fresh == [user |-> NoAccount, flow |-> [n |-> 0, user |-> NoAccount, over |-> NoProof],
          signup |-> NoSubject, nonce |-> 0, proof |-> NoProof]

NoPage == [doing |-> "none", user |-> NoAccount, subject |-> NoSubject, over |-> NoProof]

NoRow == [mail |-> NoProof, verified |-> FALSE, pass |-> FALSE, google |-> NoSubject]

Rows == {u \in Accounts : acct[u].mail # NoProof}

Init ==
    /\ acct \in [Accounts -> {NoRow} \cup [mail : Mailboxes, verified : BOOLEAN,
                                           pass : BOOLEAN, google : {NoSubject}]]
    /\ \A u, v \in Rows : acct[u].mail = acct[v].mail => u = v
    /\ session = [b \in Browsers |-> Fresh]
    /\ answers = {}
    /\ mails = {}
    /\ page = [b \in Browsers |-> NoPage]
    /\ trips = 0

Idle(b) == page[b] = NoPage

-----------------------------------------------------------------------------
(* Sessions *)

\* login() in a session of somebody else empties it first.  What two-step
\* verification adds is in SignIn.
LoggedIn(s, u) ==
    [(IF s.user \in {NoAccount, u} THEN s ELSE Fresh) EXCEPT !.user = u]

Login(b, u) == session' = [session EXCEPT ![b] = LoggedIn(@, u)]

SignIn(b, u) ==
    /\ Idle(b) /\ u \in Rows /\ acct[u].pass
    /\ u \in Knows[b] /\ session[b].user = NoAccount
    /\ Login(b, u)
    /\ UNCHANGED <<acct, answers, mails, page, trips>>

\* RegistrationService.register for an address nobody has, which need not be
\* the person's own: straight in, the address unconfirmed.  For an address of
\* somebody's it changes no account.
Register(b, u, m) ==
    /\ Idle(b) /\ u \in Accounts \ Rows /\ u \in Knows[b]
    /\ \A v \in Rows : acct[v].mail # m
    /\ acct' = [acct EXCEPT ![u] = [mail |-> m, verified |-> FALSE, pass |-> TRUE,
                                    google |-> NoSubject]]
    /\ Login(b, u)
    /\ UNCHANGED <<answers, mails, page, trips>>

SignOut(b) ==
    /\ Idle(b) /\ session[b] # Fresh
    /\ session' = [session EXCEPT ![b] = Fresh]
    /\ UNCHANGED <<acct, answers, mails, page, trips>>

\* Whatever waits in a session, or in a mailbox, has its time.
Expire(b) ==
    /\ Idle(b)
    /\ \/ /\ session[b].proof # NoProof
          /\ session' = [session EXCEPT ![b].proof = NoProof]
       \/ /\ session[b].signup # NoSubject
          /\ session' = [session EXCEPT ![b].signup = NoSubject]
    /\ UNCHANGED <<acct, answers, mails, page, trips>>

LinkExpires(l) ==
    /\ l \in mails
    /\ mails' = mails \ {l}
    /\ UNCHANGED <<acct, session, answers, page, trips>>

\* EmailChangeService.confirm_change.
ChangeEmail(u, m) ==
    /\ u \in Rows
    /\ \A v \in Rows : acct[v].mail # m
    /\ acct' = [acct EXCEPT ![u].mail = m]
    /\ UNCHANGED <<session, answers, mails, page, trips>>

-----------------------------------------------------------------------------
(* To Google *)

\* authorization_url: this trip replaces the session's earlier one.
AuthorizationUrl(b, user) ==
    /\ trips < MaxTrips /\ trips' = trips + 1
    /\ \E s \in Has[b] \cup {NoSubject} :
          answers' = answers \cup {[browser |-> b, n |-> trips + 1, subject |-> s]}
    /\ session' = [session EXCEPT ![b] =
                      [@ EXCEPT !.flow = [n |-> trips + 1, user |-> user,
                                          over |-> session[b].proof],
                                !.proof = NoProof]]

GoogleStart(b) ==
    /\ Idle(b) /\ session[b].user = NoAccount
    /\ AuthorizationUrl(b, NoAccount)
    /\ UNCHANGED <<acct, mails, page>>

\* ConfirmPassword, or ConfirmLink for an account without one; take uses it up.
GoogleConnect(b) ==
    LET u == session[b].user IN
    /\ Idle(b) /\ u # NoAccount
    /\ acct[u].google = NoSubject
    /\ session[b].proof # NoProof
    /\ AuthorizationUrl(b, u)
    /\ UNCHANGED <<acct, mails, page>>

ConfirmPassword(b) ==
    LET u == session[b].user IN
    /\ Idle(b) /\ u # NoAccount
    /\ acct[u].pass /\ u \in Knows[b]
    /\ session' = [session EXCEPT ![b].proof = Password]
    /\ UNCHANGED <<acct, answers, mails, page, trips>>

SendLink(b) ==
    LET u == session[b].user IN
    /\ Idle(b) /\ u # NoAccount /\ acct[u].google = NoSubject
    /\ mails' = mails \cup {[n |-> 0, user |-> u, to |-> acct[u].mail, subject |-> NoSubject]}
    /\ UNCHANGED <<acct, session, answers, page, trips>>

\* Only for the account that asked, signed in in this browser.
ConfirmLink(b, l) ==
    /\ Idle(b) /\ l \in mails /\ l.n = 0 /\ l.to \in Reads[b]
    /\ session[b].user = l.user
    /\ session' = [session EXCEPT ![b].proof = l.to]
    /\ UNCHANGED <<acct, answers, mails, page, trips>>

-----------------------------------------------------------------------------
(* Back from Google *)

Taken(s) == {u \in Rows : acct[u].google = s}

Waits(b, doing, u, s, over) ==
    page' = [page EXCEPT ![b] = [doing |-> doing, user |-> u, subject |-> s, over |-> over]]

\* _send_confirmation; past the limit nothing is mailed, quietly.
SendConfirmation(b, s, u, to, session1) ==
    \/ /\ trips < MaxTrips /\ trips' = trips + 1
       /\ mails' = mails \cup {[n |-> trips + 1, user |-> u, to |-> to, subject |-> s]}
       /\ session' = [session1 EXCEPT ![b].nonce = trips + 1]
    \/ UNCHANGED <<mails, trips>> /\ session' = session1

\* take_flow: one answer for a trip.
FlowTaken(b) == [session EXCEPT ![b].flow = Fresh.flow]

\* check_state fails, the person said no, or Google did not answer for them.
CallbackRefused(b, a) ==
    /\ a \in answers /\ a.browser = b
    /\ answers' = answers \ {a}
    /\ session' = FlowTaken(b)
    /\ UNCHANGED <<acct, mails, page, trips>>

\* check_state: the answer to this session's trip.
StateMatches(b, a) ==
    /\ a \in answers /\ a.browser = b
    /\ a.subject # NoSubject
    /\ a.n = session[b].flow.n

\* A known Google account signs in.
GoogleKnown(b, a) ==
    /\ StateMatches(b, a) /\ session[b].flow.user = NoAccount
    /\ answers' = answers \ {a}
    /\ \E u \in Taken(a.subject) :
          session' = [session EXCEPT ![b] = LoggedIn(FlowTaken(b)[b], u)]
    /\ UNCHANGED <<acct, mails, page, trips>>

\* sign_in: nobody's address leads to the terms, a known one to its account -
\* at once when Google keeps the mailbox, or by a mailed link.
GoogleNew(b, a) ==
    LET s == a.subject
        found == {u \in Rows : acct[u].mail = AddressOf[s]}
    IN
    /\ Idle(b) /\ StateMatches(b, a) /\ session[b].flow.user = NoAccount
    /\ Taken(s) = {}
    /\ answers' = answers \ {a}
    /\ \/ /\ found = {}
          /\ session' = [FlowTaken(b) EXCEPT ![b].signup = s]
          /\ UNCHANGED <<mails, page, trips>>
       \/ \E u \in found :
             /\ acct[u].google = NoSubject
             /\ IF s \in Kept
                THEN /\ Waits(b, "link", u, s, AddressOf[s])
                     /\ session' = FlowTaken(b) /\ UNCHANGED <<mails, trips>>
                ELSE SendConfirmation(b, s, u, acct[u].mail, FlowTaken(b)) /\ UNCHANGED page
    /\ UNCHANGED acct

\* connect: still signed in to the account the trip began with.
Connect(b, a) ==
    LET u == session[b].flow.user IN
    /\ StateMatches(b, a) /\ u # NoAccount
    /\ Idle(b) /\ session[b].user = u
    /\ acct[u].google = NoSubject /\ Taken(a.subject) = {}
    /\ answers' = answers \ {a}
    /\ Waits(b, "connect", u, a.subject, session[b].flow.over)
    /\ session' = FlowTaken(b)
    /\ UNCHANGED <<acct, mails, trips>>

\* A confirmation works once.
Confirmed(b) == [session EXCEPT ![b].nonce = 0]

\* A new password, an unusable one too, ends every session of the account.
SignedOut(u, sessions) ==
    [c \in Browsers |-> IF sessions[c].user = u THEN Fresh ELSE sessions[c]]

\* _link, under the account's lock; a Google account links once.  A password
\* set before the address was confirmed goes.
Link(b) ==
    LET u == page[b].user
        s == page[b].subject
        before == IF page[b].doing = "confirm" THEN Confirmed(b) ELSE session
        left == IF acct[u].verified THEN before ELSE SignedOut(u, before)
    IN
    /\ page[b].doing \in {"link", "confirm", "connect"}
    /\ IF acct[u].google = NoSubject /\ Taken(s) = {}
       THEN /\ acct' = [acct EXCEPT ![u] = [acct[u] EXCEPT !.google = s, !.verified = TRUE,
                                                             !.pass = @ /\ acct[u].verified]]
            /\ session' = IF page[b].doing = "connect" THEN left
                          ELSE [left EXCEPT ![b] = LoggedIn(@, u)]
       ELSE UNCHANGED <<acct, session>>
    /\ page' = [page EXCEPT ![b] = NoPage]
    /\ UNCHANGED <<answers, mails, trips>>

\* _create_account, refused when the address or the Google account is known.
CreateAccount(b, s, session1) ==
    /\ \E u \in Accounts \ Rows :
          /\ acct' = [acct EXCEPT ![u] = [mail |-> AddressOf[s], verified |-> TRUE,
                                          pass |-> FALSE, google |-> s]]
          /\ session' = [session1 EXCEPT ![b] = LoggedIn(@, u)]
    /\ \A u \in Rows : acct[u].mail # AddressOf[s] /\ acct[u].google # s

\* complete_signup, with the terms accepted.
CompleteSignup(b) ==
    LET s == session[b].signup
        after == [session EXCEPT ![b].signup = NoSubject]
    IN
    /\ Idle(b) /\ s # NoSubject
    /\ \/ /\ s \in Kept
          /\ CreateAccount(b, s, after) \/ (session' = after /\ UNCHANGED acct)
          /\ UNCHANGED <<mails, trips>>
       \/ s \notin Kept /\ SendConfirmation(b, s, NoAccount, AddressOf[s], after) /\ UNCHANGED acct
    /\ UNCHANGED <<answers, page>>

\* Mutant of SameBrowser: any browser will do.
AnyBrowser(b, l) == TRUE

\* The click must come from the browser that asked.
SameBrowser(b, l) == l.n = session[b].nonce

\* confirm; the address the email went to must still be the account's.
Confirm(b, l) ==
    /\ Idle(b) /\ l \in mails /\ l.n # 0 /\ l.to \in Reads[b]
    /\ SameBrowser(b, l)
    /\ \/ /\ l.user = NoAccount
          /\ CreateAccount(b, l.subject, Confirmed(b))
          /\ UNCHANGED page
       \/ /\ l.user # NoAccount /\ acct[l.user].mail = l.to
          /\ \/ /\ acct[l.user].google = NoSubject
                /\ Waits(b, "confirm", l.user, l.subject, l.to)
                /\ UNCHANGED session
             \/ /\ acct[l.user].google = l.subject
                /\ session' = [session EXCEPT ![b] = LoggedIn(Confirmed(b)[b], l.user)]
                /\ UNCHANGED page
          /\ UNCHANGED acct
    /\ UNCHANGED <<answers, mails, trips>>

\* disconnect: only with a password.
Disconnect(b) ==
    LET u == session[b].user IN
    /\ Idle(b) /\ u # NoAccount
    /\ acct[u].google # NoSubject /\ acct[u].pass
    /\ acct' = [acct EXCEPT ![u].google = NoSubject]
    /\ UNCHANGED <<session, answers, mails, page, trips>>

GoogleCallback(b, a) ==
    CallbackRefused(b, a) \/ GoogleKnown(b, a) \/ GoogleNew(b, a) \/ Connect(b, a)

Next ==
    \/ \E u \in Accounts, m \in Mailboxes : ChangeEmail(u, m)
    \/ \E l \in mails : LinkExpires(l)
    \/ \E b \in Browsers :
        \/ \E u \in Accounts : SignIn(b, u) \/ \E m \in Mailboxes : Register(b, u, m)
        \/ SignOut(b) \/ Expire(b) \/ GoogleStart(b) \/ GoogleConnect(b)
        \/ ConfirmPassword(b) \/ SendLink(b) \/ Disconnect(b)
        \/ \E a \in answers : GoogleCallback(b, a)
        \/ \E l \in mails : ConfirmLink(b, l) \/ Confirm(b, l)
        \/ Link(b) \/ CompleteSignup(b)

Spec == Init /\ [][Next]_vars

-----------------------------------------------------------------------------
(* The variables keep their types.                                          *)
TypeOK ==
    /\ \A u \in Accounts :
        /\ acct[u].mail \in Mailboxes \cup {NoProof}
        /\ acct[u].google \in Subjects \cup {NoSubject}
    /\ \A b \in Browsers :
        /\ session[b].user \in Accounts \cup {NoAccount}
        /\ page[b].doing \in {"none", "link", "confirm", "connect"}
    /\ trips \in 0..MaxTrips

(* Google "never opens an account for the wrong person" (google_auth.py:    *)
(* 3-4): whoever gets into an account knows its password or holds the       *)
(* Google account linked to it; who links one holds it, and reads the       *)
(* mailbox that was proved or typed the password; and an account somebody   *)
(* registered and never confirmed is then left to who holds that Google     *)
(* account: no session of anybody else stays in it, and no password they    *)
(* know opens it.  Whichever tabs, browsers and links the steps were taken  *)
(* in.                                                                      *)
OpensForItsOwner ==
    [][\A b \in Browsers :
          LET u == session'[b].user IN
          /\ u \notin {session[b].user, NoAccount} =>
                (acct'[u].pass /\ u \in Knows[b]) \/ acct'[u].google \in Has[b]
          /\ \A v \in Accounts :
                acct'[v].google # acct[v].google /\ page'[b] # page[b] =>
                    /\ acct'[v].google \in Has[b]
                    /\ page[b].over \in Reads[b] \/ (page[b].over = Password /\ v \in Knows[b])
                    /\ acct[v].verified \/ \A c \in Browsers :
                          session'[c].user = v \/ (acct'[v].pass /\ v \in Knows[c]) =>
                              acct'[v].google \in Has[c]]_vars

=============================================================================
