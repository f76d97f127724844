----------------------------- MODULE PanelLinks -----------------------------
(***************************************************************************)
(* The links that open the panel of an account without a password          *)
(* (GuestAccessService in apps/accounts/services.py, the views around it   *)
(* and apps/requests/links.py): a permanent one, and one in every everyday *)
(* email that works for some days.  Whoever holds a link may use it.  A    *)
(* request reads the account first and acts on what it read.               *)
(***************************************************************************)
EXTENDS Integers

CONSTANTS
    Browsers,
    Life,        \* GUEST_EMAIL_LINK_MAX_AGE, in days
    MaxDay,      \* bound: days
    MaxTokens,   \* bound: permanent links made
    MaxCrashes   \* bound: workers killed

PanelAssumption == Life \in Nat /\ MaxTokens \in Nat \ {0}

VARIABLES
    access,    \* the GuestAccess row's token; 0: there is none
    made,      \* tokens made so far
    links,     \* the links mailed
    session,   \* who each browser is signed in as
    hand,      \* the request each browser has under way
    day,
    crashes,
    newest,    \* history: the last email with the permanent link: its token, and
               \* whether the token was replaced before it was mailed
    crossed    \* history: requests under way when a link stopped working

vars == <<access, made, links, session, hand, day, crashes, newest, crossed>>

Link(kind, token) == [kind |-> kind, token |-> token, day |-> day]

NoLink == [kind |-> "none", token |-> 0, day |-> 0]
Idle == [pc |-> "idle", link |-> NoLink, token |-> 0]

\* The request is confirmed: "Twoj panel" was mailed.
Init ==
    /\ access = 1 /\ made = 1 /\ newest = [token |-> 1, overtaken |-> FALSE]
    /\ day = 0 /\ crashes = 0 /\ crossed = {}
    /\ links = {Link("panel", 1)}
    /\ session \in [Browsers -> {"nobody", "other"}]
    /\ hand = [b \in Browsers |-> Idle]

Step(b, pc, link, token) ==
    hand' = [hand EXCEPT ![b] = [pc |-> pc, link |-> link, token |-> token]]

Done(b) == hand' = [hand EXCEPT ![b] = Idle]

\* Those who read the account before what happens now.
UnderWay == crossed \cup {b \in Browsers : hand[b].pc # "idle"}

Quiet == \A b \in Browsers : hand[b] = Idle

-----------------------------------------------------------------------------
(* A link opened *)

Expired(link) == link.kind = "email" /\ day - link.day > Life

\* Mutant of TokenMatches: a signed link is enough.
TokenMatchesAny(link) == access # 0

\* A newer link, or a password, replaces every older one.
TokenMatches(link) == access # 0 /\ link.token = access

\* user_for and user_for_email_link
UserFor(link) == TokenMatches(link) /\ ~Expired(link)

\* guest_access and guest_email_access: _enter_guest_account.
Open(b, link) ==
    /\ hand[b].pc = "idle"
    /\ UserFor(link)
    /\ session[b] # "account"
    /\ Step(b, IF session[b] = "other" THEN "ask" ELSE "login", link, 0)
    /\ crossed' = crossed \ {b}
    /\ UNCHANGED <<access, made, links, session, day, crashes, newest>>

\* The page that asks before it swaps accounts: its button opens the link
\* again, another page leaves it.
Answer(b, yes) ==
    /\ hand[b].pc = "ask"
    /\ IF yes /\ UserFor(hand[b].link) THEN Step(b, "login", hand[b].link, 0) ELSE Done(b)
    /\ crossed' = crossed \ {b}
    /\ UNCHANGED <<access, made, links, session, day, crashes, newest>>

\* login: a password set meanwhile makes the session worthless.
Login(b) ==
    /\ hand[b].pc = "login"
    /\ session' = [session EXCEPT ![b] = IF access = 0 THEN "nobody" ELSE "account"]
    /\ Done(b)
    /\ UNCHANGED <<access, made, links, day, crashes, newest, crossed>>

SignOut(b) ==
    /\ hand[b].pc = "idle" /\ session[b] # "nobody"
    /\ session' = [session EXCEPT ![b] = "nobody"]
    /\ UNCHANGED <<access, made, links, hand, day, crashes, newest, crossed>>

-----------------------------------------------------------------------------
(* Links mailed *)

\* owner_link in an everyday email.
Everyday ==
    /\ access # 0
    /\ links' = links \cup {Link("email", access)}
    /\ UNCHANGED <<access, made, session, hand, day, crashes, newest, crossed>>

\* send_access_link by anybody who types the address, within its limits;
\* resend_for_expired_link by whoever holds an expired link.
AskAgain(b) ==
    /\ hand[b].pc = "idle"
    /\ access # 0
    /\ Step(b, "mail", NoLink, access)
    /\ crossed' = crossed \ {b}
    /\ UNCHANGED <<access, made, links, session, day, crashes, newest>>

Resend(b, link) ==
    /\ hand[b].pc = "idle"
    /\ Expired(link) /\ TokenMatches(link)
    /\ Step(b, "mail", NoLink, access)
    /\ crossed' = crossed \ {b}
    /\ UNCHANGED <<access, made, links, session, day, crashes, newest>>

\* "Nowy link" in the settings: the account was read signed in.
RotateBegin(b) ==
    /\ hand[b].pc = "idle"
    /\ session[b] = "account" /\ access # 0 /\ made < MaxTokens
    /\ Step(b, "rotate", NoLink, 0)
    /\ crossed' = crossed \ {b}
    /\ UNCHANGED <<access, made, links, session, day, crashes, newest>>

\* rotate saves the token; a row deleted meanwhile is an error.
Rotate(b) ==
    /\ hand[b].pc = "rotate"
    /\ IF access = 0 \/ made = MaxTokens
       THEN Done(b) /\ UNCHANGED <<access, made, crossed>>
       ELSE /\ access' = made + 1 /\ made' = made + 1
            /\ Step(b, "mail", NoLink, made + 1)
            /\ crossed' = UnderWay \ {b}
    /\ UNCHANGED <<links, session, day, crashes, newest>>

\* _mail_access_link, of the token the request holds.
MailLink(b) ==
    /\ hand[b].pc = "mail"
    /\ links' = links \cup {Link("panel", hand[b].token)}
    /\ newest' = [token |-> hand[b].token, overtaken |-> b \in crossed]
    /\ Done(b)
    /\ UNCHANGED <<access, made, session, day, crashes, crossed>>

-----------------------------------------------------------------------------
(* Around them *)

\* confirm_change or confirm_reset: sessions of the old password end.
SetPassword ==
    /\ access # 0
    /\ access' = 0
    /\ session' = [b \in Browsers |-> IF session[b] = "account" THEN "nobody" ELSE session[b]]
    /\ crossed' = UnderWay
    /\ UNCHANGED <<made, links, hand, day, crashes, newest>>

NextDay ==
    /\ day < MaxDay
    /\ day' = day + 1
    /\ crossed' = crossed \cup {b \in Browsers : hand[b].pc = "login"}
    /\ UNCHANGED <<access, made, links, session, hand, crashes, newest>>

Crash(b) ==
    /\ hand[b].pc # "idle" /\ crashes < MaxCrashes
    /\ crashes' = crashes + 1
    /\ Done(b)
    /\ UNCHANGED <<access, made, links, session, day, newest, crossed>>

Next ==
    \/ Everyday \/ SetPassword \/ NextDay
    \/ \E b \in Browsers :
        \/ \E link \in links : Open(b, link) \/ Resend(b, link)
        \/ \E yes \in BOOLEAN : Answer(b, yes)
        \/ Login(b) \/ SignOut(b) \/ AskAgain(b)
        \/ RotateBegin(b) \/ Rotate(b) \/ MailLink(b) \/ Crash(b)

Spec == Init /\ [][Next]_vars

-----------------------------------------------------------------------------
(* The variables keep their types.                                          *)
TypeOK ==
    /\ access \in 0..MaxTokens /\ made \in 1..MaxTokens /\ newest.token \in 1..MaxTokens
    /\ day \in 0..MaxDay
    /\ \A l \in links : l.kind \in {"panel", "email"} /\ l.token \in 1..made
    /\ \A b \in Browsers :
        /\ session[b] \in {"nobody", "account", "other"}
        /\ hand[b].pc \in {"idle", "ask", "login", "mail", "rotate"}

(* "Every older link (permanent or from emails) stops working", and so do   *)
(* all of them once a password is set (services.py:749, 821): whoever gets  *)
(* in held the newest link, unless it was replaced under his hands.         *)
OldLinksStop ==
    [][\A b \in Browsers : session'[b] = "account" /\ session[b] # "account" =>
          b \in crossed \/ (hand[b].link.token = access /\ ~Expired(hand[b].link))]_vars

(* The permanent link mailed last is the one that works, so its owner can   *)
(* always return - unless the worker was killed between the new token and   *)
(* its email, or the token was replaced between a request and its email.    *)
NewestLinkWorks ==
    Quiet /\ crashes = 0 /\ access # 0 => newest.token = access \/ newest.overtaken

PanelLinksHold == []NewestLinkWorks /\ OldLinksStop

=============================================================================
