------------------------------- MODULE SignIn -------------------------------
(***************************************************************************)
(* Signing in to one account, and its two-step verification                *)
(* (apps/accounts/two_factor.py, AuthenticationService.login, and their    *)
(* pages).  Each browser has one request at a time; a code is checked,     *)
(* used up and its failure counted in three transactions.  The model's     *)
(* time fits in one window of the limits.                                  *)
(***************************************************************************)
EXTENDS Integers, FiniteSets

CONSTANTS
    Browsers,
    Failures,     \* FAILURES_PER_ACCOUNT and LOGIN_FAILURES_PER_EMAIL
    EmailTtl,     \* EMAIL_CODE_TTL, in 30-second steps
    ResendAfter,  \* EMAIL_RESEND_AFTER
    PendingAge,   \* PENDING_MAX_AGE and SETUP_MAX_AGE
    BackupCodes,  \* BACKUP_CODE_COUNT
    MaxTime,      \* bound: the last step
    MaxMails,     \* bound: codes by email, EMAIL_SENDS at most
    MaxTries,     \* bound: codes and passwords typed in
    MaxSetups     \* bound: setups, new backup codes and new passwords

SignInAssumption ==
    IsFiniteSet(Browsers) /\ Failures \in Nat \ {0} /\ BackupCodes \in Nat

VARIABLES
    now,
    password,  \* which password it is: _password_marker
    row,       \* the TwoFactor row
    browser,   \* the session and the cookie of each browser
    fails,     \* the failures counted of each key
    mails,     \* the codes sent by email so far
    setups,    \* secrets, sets of backup codes and passwords made so far
    tries,
    used,      \* history: the codes that let somebody through
    reused     \* history: a code did so twice

vars == <<now, password, row, browser, fails, mails, setups, tries, used, reused>>

Methods == {"app", "email"}
Nothing == [kind |-> "none", of |-> 0, n |-> 0]
Wrong == [kind |-> "wrong", of |-> 0, n |-> 0]
App(secret, step) == [kind |-> "app", of |-> secret, n |-> step]
Mailed(n) == [kind |-> "email", of |-> 0, n |-> n]
Backup(set, n) == [kind |-> "backup", of |-> set, n |-> n]

NoRow == [on |-> FALSE, method |-> "app", nonce |-> 0, last |-> 0,
          backup |-> {}, code |-> Nothing, sent |-> 0]

\* A browser: pc, what a code is for, the password and the time of the held
\* sign-in, the code typed in, the remembered device, the setup.
NoSetup == [method |-> "none", code |-> Nothing, since |-> 0, sent |-> 0]
Fresh == [pc |-> "out", for |-> "login", pw |-> 0, since |-> 0, code |-> Nothing,
          nonce |-> 0, npw |-> 0, setup |-> NoSetup]

Init ==
    /\ now = 1
    /\ password = 0
    /\ row = NoRow
    /\ browser = [b \in Browsers |-> Fresh]
    /\ fails = [k \in {"password", "code"} |-> 0]
    /\ mails = 0
    /\ setups = 0
    /\ tries = 0
    /\ used = {}
    /\ reused = FALSE

\* Codes a person may type: shown by the app now or just before, read in any
\* email, kept from any list of backup codes.
Typed ==
    {Wrong} \cup {Mailed(n) : n \in 1..mails}
    \cup {App(row.nonce, s) : s \in {now - 1, now}}
    \cup {Backup(s, n) : s \in 1..setups, n \in 1..BackupCodes}

At(b, pc) == browser[b].pc = pc
Set(b, r) == browser' = [browser EXCEPT ![b] = r]

\* is_limited.
Limited(key) == fails[key] >= Failures

-----------------------------------------------------------------------------
(* The first step *)

\* _remembered.
Remembered(b) ==
    /\ browser[b].nonce = row.nonce
    /\ browser[b].npw = password

\* send_email_code: a new code, and the one before stops working.
MailCode(r) == [r EXCEPT !.code = Mailed(mails + 1), !.sent = now]

MaySend(r) == r.sent = 0 \/ now - r.sent >= ResendAfter

\* hold: a held sign-in, with a code by email where one may be sent.
Hold(b) ==
    /\ Set(b, [browser[b] EXCEPT !.pc = "held", !.for = "login",
                                 !.pw = password, !.since = now])
    /\ IF row.method = "email" /\ MaySend(row) /\ mails < MaxMails
       THEN row' = MailCode(row) /\ mails' = mails + 1
       ELSE UNCHANGED <<row, mails>>

\* login: the limit is read before the slow hash of the password.
PasswordTyped(b) ==
    /\ At(b, "out")
    /\ ~Limited("password")
    /\ tries < MaxTries
    /\ tries' = tries + 1
    /\ Set(b, [browser[b] EXCEPT !.pc = "typed"])
    /\ UNCHANGED <<now, password, row, fails, mails, setups, used, reused>>

PasswordRefused(b) ==
    /\ At(b, "typed")
    /\ fails' = [fails EXCEPT !["password"] = @ + 1]
    /\ Set(b, [browser[b] EXCEPT !.pc = "out"])
    /\ UNCHANGED <<now, password, row, mails, setups, tries, used, reused>>

\* ... and clear; challenge; GoogleAuthService.finish_login comes to challenge
\* as well.
PasswordAccepted(b) ==
    /\ At(b, "typed")
    /\ fails' = [fails EXCEPT !["password"] = 0]
    /\ IF row.on /\ ~Remembered(b) THEN Hold(b)
       ELSE /\ Set(b, [browser[b] EXCEPT !.pc = "in", !.pw = password])
            /\ UNCHANGED <<row, mails>>
    /\ UNCHANGED <<now, password, setups, tries, used, reused>>

-----------------------------------------------------------------------------
(* The second step *)

\* pending_user, and can_use of somebody signed in.
Pending(b) ==
    /\ row.on
    /\ browser[b].pw = password
    /\ At(b, "held") => now - browser[b].since <= PendingAge

Resend(b) ==
    /\ Pending(b)
    /\ browser[b].pc \in {"held", "in"}
    /\ row.method = "email"
    /\ MaySend(row)
    /\ mails < MaxMails
    /\ row' = MailCode(row)
    /\ mails' = mails + 1
    /\ UNCHANGED <<now, password, browser, fails, setups, tries, used, reused>>

\* complete, disable and regenerate_codes: verify's _check_limits.
CodeTyped(b, c, for) ==
    /\ Pending(b)
    /\ IF for = "login" THEN At(b, "held") ELSE At(b, "in")
    /\ for = "codes" => row.method = "app"
    /\ ~Limited("code")
    /\ tries < MaxTries
    /\ tries' = tries + 1
    /\ Set(b, [browser[b] EXCEPT !.pc = "checked", !.for = for, !.code = c])
    /\ UNCHANGED <<now, password, row, fails, mails, setups, used, reused>>

\* _email_code_matches and _matching_step, one step either side.
EmailMatches(c) == row.code = c /\ c # Nothing /\ now - row.sent < EmailTtl
StepMatches(c) ==
    /\ c.kind = "app" /\ c.of = row.nonce
    /\ c.n \in (now - 1)..(now + 1)

\* Mutant of Matches: an app code works as long as it is shown.
MatchesShown(c) ==
    /\ row.on
    /\ IF row.method = "email" /\ EmailMatches(c) THEN TRUE
       ELSE IF row.method = "app" /\ StepMatches(c) THEN TRUE
       ELSE c \in row.backup

\* _use_code, under the row's lock.
Matches(c) ==
    /\ row.on
    /\ IF row.method = "email" /\ EmailMatches(c) THEN TRUE
       ELSE IF row.method = "app" /\ StepMatches(c) THEN c.n > row.last
       ELSE c \in row.backup

UsedUp(c) ==
    CASE c.kind = "email" -> [row EXCEPT !.code = Nothing]
      [] c.kind = "app" -> [row EXCEPT !.last = c.n]
      [] OTHER -> [row EXCEPT !.backup = @ \ {c}]

\* What the code was for: complete with its cookie, _turn_off, new codes.
CodeAccepted(b) ==
    /\ At(b, "checked")
    /\ Matches(browser[b].code)
    /\ LET c == browser[b].code
           for == browser[b].for
       IN  /\ reused' = (reused \/ c \in used)
           /\ used' = used \cup {c}
           /\ row' = CASE for = "login" -> UsedUp(c)
                       [] for = "disable" -> NoRow
                       [] for = "codes" ->
                            [UsedUp(c) EXCEPT !.backup = {Backup(setups + 1, n) : n \in 1..BackupCodes}]
           /\ setups' = IF for = "codes" THEN setups + 1 ELSE setups
           /\ for = "codes" => setups < MaxSetups
           /\ \E remember \in BOOLEAN :
                Set(b, [browser[b] EXCEPT
                          !.pc = "in", !.code = Nothing,
                          !.nonce = IF for = "disable" THEN 0 ELSE IF remember THEN row.nonce ELSE @,
                          !.npw = IF remember THEN browser[b].pw ELSE @])
    /\ fails' = [fails EXCEPT !["code"] = 0]
    /\ UNCHANGED <<now, password, mails, tries>>

\* _record_failure.
CodeRefused(b) ==
    /\ At(b, "checked")
    /\ ~Matches(browser[b].code)
    /\ Set(b, [browser[b] EXCEPT !.pc = "refused", !.code = Nothing])
    /\ UNCHANGED <<now, password, row, fails, mails, setups, tries, used, reused>>

FailureCounted(b) ==
    /\ At(b, "refused")
    /\ fails' = [fails EXCEPT !["code"] = @ + 1]
    /\ Set(b, [browser[b] EXCEPT !.pc = IF browser[b].for = "login" THEN "held" ELSE "in"])
    /\ UNCHANGED <<now, password, row, mails, setups, tries, used, reused>>

-----------------------------------------------------------------------------
(* Turning it on, and what happens meanwhile *)

\* Sessions of an earlier password have ended.
SignedIn(b) == At(b, "in") /\ browser[b].pw = password

StartSetup(b, m) ==
    /\ SignedIn(b)
    /\ ~row.on
    /\ setups < MaxSetups
    /\ setups' = setups + 1
    /\ m = "email" => mails < MaxMails
    /\ mails' = IF m = "email" THEN mails + 1 ELSE mails
    /\ Set(b, [browser[b] EXCEPT !.setup =
                 [method |-> m, since |-> now, sent |-> now,
                  code |-> IF m = "email" THEN Mailed(mails + 1) ELSE App(setups + 1, 0)]])
    /\ UNCHANGED <<now, password, row, fails, tries, used, reused>>

\* resend_setup_code: the code before stops working, the setup's time runs on.
ResendSetup(b) ==
    /\ SignedIn(b)
    /\ ~row.on
    /\ browser[b].setup.method = "email"
    /\ now - browser[b].setup.since <= PendingAge
    /\ now - browser[b].setup.sent >= ResendAfter
    /\ mails < MaxMails
    /\ mails' = mails + 1
    /\ Set(b, [browser[b] EXCEPT !.setup = [@ EXCEPT !.code = Mailed(mails + 1), !.sent = now]])
    /\ UNCHANGED <<now, password, row, fails, setups, tries, used, reused>>

CancelSetup(b) ==
    /\ browser[b].setup # NoSetup
    /\ SignedIn(b)
    /\ Set(b, [browser[b] EXCEPT !.setup = NoSetup])
    /\ UNCHANGED <<now, password, row, fails, mails, setups, tries, used, reused>>

\* confirm_setup: the first code of the app, or the code mailed; the row of an
\* earlier setup, of another browser, is replaced.
ConfirmSetup(b) ==
    LET s == browser[b].setup IN
    /\ SignedIn(b)
    /\ s # NoSetup
    /\ ~row.on
    /\ now - s.since <= PendingAge
    /\ s.method = "email" => now - s.sent <= EmailTtl
    /\ ~Limited("code")
    /\ setups < MaxSetups
    /\ setups' = setups + 1
    /\ row' = [NoRow EXCEPT !.on = TRUE, !.method = s.method,
                 !.nonce = IF s.method = "app" THEN s.code.of ELSE setups + 1,
                 !.last = IF s.method = "app" THEN now ELSE 0,
                 !.backup = IF s.method = "app"
                            THEN {Backup(setups + 1, n) : n \in 1..BackupCodes} ELSE {}]
    /\ LET c == IF s.method = "app" THEN App(s.code.of, now) ELSE s.code IN
       used' = used \cup {c}
    /\ fails' = [fails EXCEPT !["code"] = 0]
    /\ Set(b, [browser[b] EXCEPT !.setup = NoSetup])
    /\ UNCHANGED <<now, password, mails, tries, reused>>

AdminDisable ==
    /\ row.on
    /\ row' = NoRow
    /\ UNCHANGED <<now, password, browser, fails, mails, setups, tries, used, reused>>

\* confirm_reset or confirm_change.
NewPassword ==
    /\ setups < MaxSetups
    /\ setups' = setups + 1
    /\ password' = setups + 1
    /\ UNCHANGED <<now, row, browser, fails, mails, tries, used, reused>>

Logout(b) ==
    /\ browser[b].pc \in {"in", "held"}
    /\ Set(b, [browser[b] EXCEPT !.pc = "out", !.setup = NoSetup])
    /\ UNCHANGED <<now, password, row, fails, mails, setups, tries, used, reused>>

Tick ==
    /\ now < MaxTime
    /\ now' = now + 1
    /\ UNCHANGED <<password, row, browser, fails, mails, setups, tries, used, reused>>

\* login_view.
LoginPage(b) == PasswordTyped(b) \/ PasswordRefused(b) \/ PasswordAccepted(b)

\* A code that was typed in is looked at.
CodeChecked(b) == CodeAccepted(b) \/ CodeRefused(b) \/ FailureCounted(b)

\* two_factor_login: only for somebody the password let through.
CodePage(b) ==
    \/ At(b, "held") /\ Resend(b)
    \/ \E c \in Typed : CodeTyped(b, c, "login")

\* two_factor_settings.
SettingsPage(b) ==
    \/ \E m \in Methods : StartSetup(b, m)
    \/ ResendSetup(b) \/ ConfirmSetup(b) \/ CancelSetup(b)
    \/ At(b, "in") /\ Resend(b)
    \/ \E c \in Typed, for \in {"disable", "codes"} : CodeTyped(b, c, for)

Next ==
    \/ Tick \/ AdminDisable \/ NewPassword
    \/ \E b \in Browsers :
        LoginPage(b) \/ CodePage(b) \/ SettingsPage(b) \/ CodeChecked(b) \/ Logout(b)

Spec == Init /\ [][Next]_vars

-----------------------------------------------------------------------------
(* The variables keep their types.                                          *)
TypeOK ==
    /\ now \in 1..MaxTime
    /\ row.method \in Methods
    /\ \A c \in row.backup : c.kind = "backup"
    /\ \A b \in Browsers :
        browser[b].pc \in {"out", "typed", "held", "checked", "refused", "in"}
    /\ mails \in 0..MaxMails /\ setups \in 0..MaxSetups /\ tries \in 0..MaxTries

(* "A code from the app works once", an email code and a backup code too    *)
(* (two_factor.py:9-18): whatever requests come at once, no code lets       *)
(* anybody through twice, the setup's first code included.                  *)
CodesWorkOnce == ~reused

(* "Wrong codes are limited per account" (two_factor.py:18): the limit is   *)
(* read and counted in two statements, so requests under way at once may    *)
(* pass it, one each and no more.  The same of passwords.                   *)
WrongCodesLimited ==
    \A k \in DOMAIN fails : fails[k] <= Failures + Cardinality(Browsers) - 1

CodesHold == CodesWorkOnce /\ WrongCodesLimited

=============================================================================
