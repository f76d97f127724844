# Monituj in TLA+

Monituj collects documents: a sender (an accountant, an office) asks a client
for a list of items, the client uploads files from a public link, the sender
accepts or rejects them, and the system reminds, notifies, bills and finally
forgets. It is a Django application on PostgreSQL (READ COMMITTED) with Celery
workers. This directory holds TLA+ models of it, TLC configurations that check
them on small instances and TLAPS proofs for every instance.

Three facts about the code shape every model:

* There is no `ATOMIC_REQUESTS`. A service without `@transaction.atomic`
  commits each statement on its own, so two web workers interleave between any
  two statements, and a service works on the objects its view fetched before.
* Where the code does lock, it is `select_for_update` on one row, held to the
  end of the surrounding transaction.
* `EmailService.send` is synchronous and never raises: it logs SENT, FAILED or,
  for a demo account, SKIPPED. Stripe, inFakt and the mail server share no
  transaction with the database.

So an action of a model is what others can see happen at once: a fetch with the
tests made on the fetched copy, one statement, one transaction's commit, or one
call outside.

## Inventory

| Component | State it keeps | Operations | Talks to | What is hard | What makes it correct |
|---|---|---|---|---|---|
| Items and files (`documents/services.py`, `api.py`) | item status, `not_applicable_accepted`, file status | upload, extra document, accept, accept all, reject, confirm, "Nie dotyczy", delete own upload | closes with the request, writes notices, sends the "komplet" email | no locks: stale tests, statements of two workers interleave, a worker dies half-way | files and items agree; the email is sent, and not over and over |
| Intake and storage of files (`validation.py`, `antivirus.py`, `storage.py`, `encryption.py`, `retention.py`) | bytes on disk, the key each file is wrapped with | store, convert, delete, anonymise, encrypt, rewrap | upload, request and account deletion, an operator's commands | two stores without a common transaction; keys changed under running workers | no row without its file, no file for ever, every kept file opens |
| Request life cycle (`requests/services.py`) | `awaiting_confirmation`, `closed_at`, `invitation_queued`, the row itself | create (one, many), deliver, queue, release held, close, reopen, update, delete | takes the plan's places, reads the account's address, is read by everything | `update` saves a stale object whole; queue workers die; lists taken once | every request is sent once, and only when its sender is proved |
| Plan limits (`billing/services.py`) | billing row, counted requests | `check_request_allowed`, `check_question_allowed`, seats | locked by everyone who sends; the plan changes by Stripe and by the clock | check-then-act, operations that bypass it | never oversold, never refused while a place is free |
| Guest requests (`requests/guest.py`) | token, `awaiting_confirmation` | submit, confirm, delete unconfirmed | life cycle, accounts, panel links | confirm races with the hourly deletion | a confirmed request is sent |
| Public pages (`requests/public_views.py`, `recipient_files.py`) | browser sessions, mailed links, passwords | open, unlock, claim, download | files, accounts | a forwarded link; the address corrected meanwhile | a file is shown to its sender's session or mailbox only |
| Questions (`requests/questions.py`) | item of kind question, conversation | ask, answer, follow up, resolve, reopen, delete | plan (own limit), notices | limit without a lock, two people at one question | the item's state is where the conversation stands |
| Upload notices (`notifications/inbox.py`) | notices with `emailed_at`, `read_at` | notify, forget, read, send pending | items, email log | claims of an older list, a worker dies after the claim | everything told, and once |
| Reminders (`reminders/`) | reminder rows | manual, combined, automatic, deadline | items, life cycle | tasks and a button, a clock | as planned, at most one a day |
| Recurring requests (`requests/recurring.py`) | next due day, next run day | create, edit, run, run due, reschedule, delete | `create_many`, plan | month ends, holidays, stale pages | once per period, every date of the calendar |
| Morning email, reviews, alarms, daily report (`agenda/`, `notifications/reviews.py`, `common/security_*.py`) | last day mailed, invites, throttle events | tasks, clicks, commands | email | several workers and schedulers, marks before or after the email | told, and told once |
| Stripe (`billing/gateway.py`) | subscription fields, customer | checkout, webhook, refresh, adopt, close customer | plan, notices, external service | duplicated, late and reordered events, calls that fail | ends as Stripe says, nobody pays for nothing, money goes back once |
| VAT invoices (`billing/invoicing.py`) | invoice rows, jobs at inFakt | queue, reconcile, process, webhook | external service | lost answers and retries | one invoice per payment |
| Team (`accounts/team.py`) | memberships, invitations | invite, resend, cancel, join, access, remove, leave | plan's seats | unlocked seat counts | no more people than seats |
| Accounts (`accounts/services.py`, `google_*.py`, `two_factor.py`) | users, tokens, links, secrets, sessions | register, verify, reset, sign in, connect, delete, panel links | releases held requests | mailed links used in any order, two browsers, reuse of codes | an address is proved, a way in is kept, a code works once |
| Clients and imports (`clients/`) | client rows, import drafts | type, find, import, merge, delete | request forms | find-then-create without a unique constraint | one client per address |
| Terms (`consents/`) | versions, acceptances | deploy, announce, accept, buy | billing | a wording ahead of its day | nobody buys on what was not accepted |
| Panel's lists (`requests/overview.py`, `services.py`, `clients/card.py`) | none | states, filters, counts | everything | the same state computed in five places | they agree |

`PROJECT.json` lists every component with what is left out of it, and every
hazard found, with its line.

## Modules

Process modules, one per component. Each names its state after the rows it
stands for and its actions after the functions; a comment on every variable says
which are history (read by properties and bounds only).

| Module | Models | Checked in run |
|---|---|---|
| `ItemLifecycle` | one request's items and files, statement by statement | `items`, `promises` |
| `EncryptionKeys` | the master key, `encrypt_documents`, `rewrap_document_keys`, beside uploads and retention | `items` |
| `Invitations` | when a request's invitation leaves: queue, held requests, guest confirmation | `requests`, `promises` |
| `Questions` | questions and their conversation, the places a plan has for them | `requests` |
| `RecipientPages` | the public pages, two browsers, forwarded and mailed links | `requests` |
| `PlanSlots` | the places of one account's plan | `office` |
| `Clients` | clients found, typed, imported and deleted by pages at once | `office` |
| `LegalVersions` | versions of the terms, their day, the announcement, acceptance, buying | `office` |
| `PanelLinks` | the links to the panel of an account without a password | `office` |
| `Recurring` (with `RecurringCalendar`) | one recurring request, day by day | `mailings` |
| `Reminders` | automatic, deadline and manual reminders, and the plan the sender is shown | `mailings` |
| `UploadNotices` | news for the sender and their email | `mailings`, `promises` |
| `Agenda` | "Przypomnij mi" and the 7:30 email; with operators for the calendar and its feed | `mailings` |
| `Reviews` | asking for a review | `mailings` |
| `Alarms` | security alarms and the daily report | `mailings` |
| `StripeSync` | the stored copy of a subscription against reordered events | `billing` |
| `VatInvoices`, `InvoicePromise` | the invoice queue, and the abstract promise it implements | `billing`, `promises` |
| `Deletion` | money and subscriptions of an account that is deleted | `billing` |
| `TeamSeats` | seats, invitations, joining | `accounts` |
| `Accounts` | one account and the links mailed about it | `accounts` |
| `SignIn` | passwords and two-step codes from two browsers | `accounts` |
| `GoogleSignIn` | Google's way in, sign-up and connecting | `accounts` |
| `Storage` | Document rows against files on disk | `accounts`, `promises` |

Modules of functions, for code that keeps no state between calls. What they
compute is compared with what the docstrings promise, or with the other places
that compute the same, for all inputs of a small bound, as `ASSUME`s that TLC
evaluates when the run starts.

| Module | Models | Run |
|---|---|---|
| `Intake` | upload validation, antivirus, photos to PDF, names in a ZIP | `items` |
| `RequestForms` | what the request forms make of deadlines, reminders, recipients, templates | `mailings` |
| `RecurringCalendar` | holidays, working days, the dates of a schedule | `mailings` |
| `PanelLists`, `DemoData` | states, filters and counts of requests; the demo account | `office` |
| `ImportTable` | columns and rows of an imported file, NIP | `office` |
| `BillingRules` | plan in force and its page, trial, invoice details, prices at Stripe | `billing` |

`MCItems`, `MCRequests`, `MCOffice`, `MCPromises`, `MCMailings`, `MCBilling` and
`MCAccounts` are the instances. Components that share no variable are checked
side by side in one run: the module declares the variables of all, and `part`,
chosen in the first state and never changed, says which of them moves while the
others stay in one fixed first state. The state space is the sum of theirs, not
the product. What a component takes as constants the instance takes too, so that
the theorems about it are for all values. Components that do meet are in one module: requests with the
account's address (`Invitations`), places with the changing plan (`PlanSlots`),
files with the retention and every deletion (`Storage`), news with "komplet"
emails (`UploadNotices`), the account with every link mailed (`Accounts`).

### How the larger ones correspond to the code

`ItemLifecycle`. `present`, `item` and `doc` are the rows of `RequestItem` and
`Document`, `closed` is `closed_at is not None`, `completeSent` counts the
`EmailLog` rows COMPLETE/SENT. `th[t]` is a web worker: its next statement (`pc`),
the item and file it holds, what `accept_all` still has to do. Every service is a
`...Begin` - the view's fetch and the service's tests on that copy - and then one
action per statement, in the code's order: `upload_for_item` is `UploadBegin`,
`UploadCount` (the files counted), `UploadCheckDuplicate` (after the scan),
`UploadStore` (row), `UploadSave` (item), `CompleteCheck` and `CompleteSend`
(`_maybe_send_complete_email`); `ExtraDocumentService.add`, one transaction, is
`ExtraBegin`, `ExtraCheck` (the "komplet" test, made before others see the new
row) and `ExtraCommit`; accept is `AcceptSave` and `AcceptDocs` for each
item, reject `RejectSave` and `RejectDocs`; confirmations and "Nie dotyczy" end
in `AnswerSave` or `FinalSave`, which keep the columns outside `update_fields` as
the row has them by then; `delete_own_upload` is `DeleteBegin`, `DeleteRow`,
`DeleteCheckEmpty`. `Crash` kills a worker between two statements. A file's bytes
are its `Checksum`; byte limits, session keys and throttles only refuse.

`PlanSlots`. `req[r]` keeps what `in_progress` reads of a request; `limit` is the
plan in force, `lock` the billing row's lock, held from a passed
`check_request_allowed` to `Commit` or `Rollback`. What changes a request without
the lock is an action of its own (`Release`, `CloseRequest`, `Complete`,
`Return`, `Delete`, `EditSave`). `over` is history: requests that became in
progress without being counted against the plan in force. `create_many` asks for
each request whether the address is confirmed; the model asks once.

`Invitations`. `req[r]` is the row, `wk[w]` a web or Celery process with its list,
the request in hand and its copy, `mails[r]` the invitations handed to the mail
server. Emails leave inside the transaction that records them: `QueueTake`,
`ReleaseTake` and `ConfirmLock` lock and look again, `Mail` sends, `Commit` shows
the change, `Refuse` rolls back, `Crash` leaves the mail sent. Lists are read
before and outside (`QueueBegin`, `ReleaseList`, `CleanupBegin`); `EditSave` saves
the whole object its view fetched. `SendLinkBegin` and `LinkMail` are the panel's
"send the link again", without a lock; `byHand` remembers it.

`Questions`. `item`, `closed` and `thread` are the rows, `hand` what each process
read. `unsent` are the questions held until the address is `proved`: they are
asked with a look at the plan that does not see them, and opened by `Release`
with none (`unasked`).

`VatInvoices`. `row` is the `VatInvoice`, `jobs` the asynchronous jobs at inFakt.
`ProcessBegin` reads the list, `Take` locks a row and looks again, `Create`,
`Check` and `Email` are `process`'s three steps, `Commit` (inside each) or
`Killed` ends the transaction; a request to inFakt may fail or lose its answer;
`Webhook` is inFakt's. A row is made by `Queue`, Stripe's webhook, which may never
come, or by `Reconcile`, the daily list of Stripe's invoices of the last three
days (`recent`); `Missed` is a payment that neither saw. `Fate` maps a payment to
the abstract promise.

`StripeSync`. Events are sent once and delivered in any order, any number of
times, until handled; `refresh` locks, reads Stripe, stores, and queues an email
of the difference; `Adopt` is `_adopt_customer`. `Deletion` is
`close_customer` call by call - each may fail, and Stripe may have made a
cancellation whose answer was lost (`CancelLost`) - the retry by the same link, the
webhook of the last subscription, and the erasure; `short` is what a try failed
to send back, `listed` what the team was last told to return by hand, `slipped`
what was due for the cancellations that nobody had an answer to.

`Accounts`, `SignIn`, `GoogleSignIn`, `PanelLinks`, `RecipientPages`. A mailbox
belongs to one person, and only that person opens what is mailed there; anybody
types any address, and may forward a link where the code says links are
forwarded. In `GoogleSignIn` anybody may `Register` an address and be signed in to
it unconfirmed, as in the code; `Link` of such an account takes its password away
and ends its sessions (`SignedOut`). Expiry and limits are steps that may refuse at any time, except where
a property is about them (`SignIn`: failures; `PanelLinks`: days).

`Agenda`, `Reminders`, `Alarms`, `UploadNotices` have a clock of slots, as long as
the shortest interval the code compares; each module's head says how long. The
mail server may refuse what `UploadNotices`, `Agenda` and `Alarms` send: the code
goes on as if it had left, and so do the models (`lost`, `failed`). `shared` counts,
in `UploadNotices` and `Reviews`, what two workers had on their lists at once.

## Runs

| Run | Instance | Shows |
|---|---|---|
| `items` | two workers, one item and four files, room for two; two workers, a file item and one to confirm; two workers, one adding an extra document while the other completes the request; one worker that may be killed, with everything; the keys of two files over three master keys | `AcceptedIsReviewed`, `CompleteEmailNotForgotten`, `FilesWithinLimit`, `AloneFilesMatch`, `KeysHold`, `CompleteEmailsBounded` |
| `requests` | two requests, two workers, one stale edit, one crash; three questions, one place, two people; one request's pages, two browsers | `InvitedOnce`, `NoInvitationLost`, `ProvedBeforeInvited`, `WithdrawnNotInvited`, `AskedWithinPlaces`, `StateFollowsThread`, `FilesForTheirReader` |
| `office` | three requests, limits one and two, two workers; two spellings of one mailbox, two pages, an import; one buyer, two documents, three wordings, three days; the panel's links, two browsers, two tokens, a crash | `PlanNotOversold`, `OnePerAddress`, `AcceptedBeforeBought`, `PanelLinksHold` |
| `mailings` | four rhythms over 46 days of spring 2027 with two edits; six settings of reminders over twelve slots; one file and one answer; a Sunday, a holiday Monday and a Tuesday, two workers, a change of zone and of team; two accounts asked for a review by two workers over three months; two alarms over fifteen slots | `CalendarIsKept`, `OncePerPeriod`, `PlanComesTrue`, `OneReminderADay`, `NothingUntold`, `NothingToldTwice` |
| `billing` | two customers and three changes at Stripe, two workers; one payment, two attempts, two faults; two subscriptions, two faults | `AccountFollowsStripe`, `NobodyPaysForNothing`, `OneInvoicePerPayment`, `KeepsPromise`, `DeletedNotCharged`, `MoneyIsReturned` |
| `accounts` | a team of two, three invitations, one to three seats; two addresses, three links, a crash; two browsers at two-step codes; two people who sign up, also at each other's address, two accounts, three Google identities; three files | `SeatsNotOversold`, `VerifiedIsProved`, `WayIn`, `CodesHold`, `OpensForItsOwner`, `FilesKeepStep` |
| `promises` | the smallest instance of five components, with killed workers, fair; uploads that never stop | `QueueIsWorkedOff`, `CompleteEmailTried`, `NewsIsWorkedOff`, `PaidIsSettled`, `ExpiredIsErased` |

A property named in several parts (`NothingUntold`, `NothingToldTwice`,
`PanelLinksHold`, `CodesHold`, `WayIn`, `KeysHold`) is the conjunction of what its
modules state one by one, each with the docstring it comes from.

What the runs rule out, read together: an interleaving of two web workers, a
worker and a task, or two tasks that breaks what one of them checked; a process
killed between two statements, or between an email and its commit; a Stripe event
late, twice or out of order; an inFakt or Stripe answer lost; a stale object saved
whole; two browsers with the same link.

Bounds. Two workers are enough for the interleavings at stake: every hazard is
between the statements of two requests, and the bounds with "one more for each
other process" are proved for any number (below). Two files of one item replace a
rejected one, a second item lets two workers complete the request at once. Three
requests under a plan of two let `create_many`, a held request and an overshoot
meet; three questions and three invitations do the same for questions and seats.
One stale save and one killed worker break what they can break. The spring of
2027 has the May holidays on a Saturday and a Monday, Pentecost, Corpus Christi
and months of 30 and 31 days; a schedule for the 31st meets the weekends between. Fifteen slots
are almost four days of the daily report. Two customers and three changes are the
fewest with which an old event can arrive after a new one and a customer can be
taken over. The two kinds of fault - a request that failed, an answer that was
lost - need two attempts each to reach the limit.

No run but `items_delivered` and `plan_confirm` checks for deadlock: an account
whose requests are all deleted, a clock at its bound, or a payment that is
settled, may stop.

### Fairness

Only `promises` assumes any; nothing is assumed of people.

| Component | Assumed | Why |
|---|---|---|
| items, invitations, notices, files | weak fairness of each worker's statements | a worker that is not killed runs its handler to the end |
| invitations, files | strong fairness of starting the task | Celery beat starts it every minute or day, but a free worker is needed each time |
| notices | weak fairness of the clock and of the task | time passes, the task is started every minute. Uploads never have to stop: `MCPromises` gives a notice that is done with a new life (`NextUpload`) and counts time from a later minute (`NextMinute`), so that only `MAX_DELAY` ends the wait for a quiet recipient |
| invoices | weak fairness of `process`, of `Reconcile` for each payment, of inFakt's jobs | started every minute; the daily list shows each payment of a Stripe invoice made in the last three days, and no other: those depend on the webhook, nothing is assumed of it, and `PaidIsSettled` excepts them (`Missed`); inFakt finishes what it accepted |

### Where the code does not do what it says

These runs end in a counterexample; `PROJECT.json` quotes the lines.

| Run | What happens |
|---|---|
| `items_delivered` | reject file 1, upload file 2, delete file 2: `documents.exists()` sees the rejected file and the item stays "Dostarczony" |
| `plan_confirm` | `confirm` counts the request it is confirming as used already, and the last free place is refused |
| `invitations_open` | closed before the queue's minute, taken off the queue unsent, reopened: open, and the recipient never got the link |
| `notices_told` | a file sent after the "komplet" email, with an older notice still waiting, is claimed and never mailed |
| `deletion_refund` | a refund and then a cancellation fail; the retry erases the account, and the list of what the team is to return is lost; the team is mailed only the logged traceback (`gateway.py:548`) |

The models contain more of what a reader may want to know; the properties
except it by a history variable, or do not speak of it, because the code promises
nothing there:

* Requests. Saving an edit writes back every column it read: a request mailed
  meanwhile is mailed again, one deleted meanwhile is inserted again
  (`services.py:633`). `release_held` works through a list taken once, so a
  request created while the address is being confirmed stays held
  (`services.py:236`); `delete_unconfirmed` does not look again (`guest.py:208`).
  Held requests and questions are released without a look at the plan, and
  `open_questions` does not count those held: an account may hold any number and
  open them all at once by confirming its address. Closing does not ask whether a
  request is held, and releasing does not ask whether it is closed, so a request
  closed while it is held is mailed all the same when the address is confirmed.
  `send_link` mails the link of a closed request, and of one deleted since it
  was read.
* Items. Reject decides the files in a second statement, after the item
  (`documents/services.py:296`): a file uploaded in between is rejected unseen. A
  deletion that read the item before an accept deletes an accepted file
  (`documents/services.py:576`); the deletion of an old rejected file takes an
  accepted "Nie dotyczy" back to "Brak". `send_combined` has no COMPLETE check.
* Files. Retention saves a copy it read whole (`retention.py:69`): it can insert a
  deleted row again, or write an old key's number back after a rewrap, and when
  that key is dropped the next rewrap stops at the row. The status of that copy
  is in no module: a file accepted or rejected meanwhile waits for a decision
  again, in a request long closed. `encrypt_documents` racing
  a deletion leaves the new file on disk; so does a worker killed between file and
  row. `safe_name` cuts to 120 characters, extension included (`archive.py:29`).
  The storage limit of a request is checked before a photo is converted.
* Notices and mailings. A FAILED "komplet" log silences notices as a SENT one
  does. A worker killed after the mark or the claim loses that email, and so does
  a mail server that refuses it: `EmailService.send` logs FAILED, the claim or the
  day's mark stays, and nothing tries again. Of two workers with lists that
  overlap, each mails its whole list if it claimed anything of it, so a notice may
  be told twice (`inbox.py:183-197`). Two review tasks at once ask twice. A change of
  time zone over midnight may mail a morning again; a reminder added for today
  after the email waits for the next working morning; the email also goes on
  public holidays. Calendar deadlines count held questions, the email's list does
  not. Only forty sends of a schedule are looked at (`SENDS_LOOKED_AT`). A review
  invitation counted by nobody because the worker died is never repeated after the
  first email, and sent once more after the second. An alarm is recorded before
  its delivery. A report sent by hand after 13:30 silences the next fallback, and
  the entries between 7:00 and 9:30 of the day before one are in no report.
* Limits. Everything behind `throttle.consume`, the questions, the seats and the
  files of an item count without a lock; the overshoot is one for each other
  process. The limit of templates, too. `throttle.count` deletes rows older than
  its own caller's window.
* Money. A switch from yearly to monthly is announced as credited only, near the
  year's end Stripe charges the card (`views.py:64-68`). The usage bar can show
  100 % before the limit. A refund's idempotency key holds only the amount; a
  crash between refund and clearing of the credit refunds twice; a checkout paid
  after the deletion's list was read is charged. A cancellation Stripe made
  whose answer was lost - the library's retry gets `resource_missing`, a later try
  finds it not live (`gateway.py:393-404`) - has its unused time neither returned
  nor listed. `reconcile` says it covers webhooks that never arrived
  (`invoicing.py:249-250`) but lists three days of Stripe invoices: one paid later,
  after a failed card, with its webhook lost, is never invoiced. A lost answer of
  the VAT service makes a second invoice. Billing emails render the account when they are sent.
* Accounts. Connecting Google to an unverified account proves its address, removes
  its password and signs the others out; somebody inside a verified account who
  connects their own Google stays;
  joining a team with a new password keeps the panel's link (against
  `accounts/models.py:89-90`); links mailed to an old address keep working after a
  change; the rotated token is saved before its email; the emailed code is sent
  before its row is saved. Rotating the panel's link leaves sessions signed in.
  `login()` changes the session key, so a recipient who signs in no longer owns,
  by session, what was sent before.
* Clients. There is no unique constraint: two pages that look at once add a
  client twice, and by hand anybody may. The single request page saves the new
  client even when the request is refused.
* Forms and lists. A template's deadline of 91-365 days is refused when used; a
  request's form accepts a past deadline, a question's does not. The month's bar
  shows closed clients as "czekamy" (`services.py:728-745`), and rounding past
  `MONTH_SEGMENTS` may cut late ones. The two endpoints of "Nie dotyczy" take a
  question's item too (`documents/services.py:394-462`), which no page offers; it
  would be on no tab of Pytania.

## Proofs

Eight modules hold theorems, for any value of the constants that their named
assumption allows. A run's instance gives the constants small values; the theorem
is about the same definition (`PROJECT.json` names it) with any number of
workers, browsers, rows, files or links. The components that are checked side by
side are proved side by side: a theorem about `PartSpec` is about all its parts,
the others stuttering. Every invariant below was model-checked on the run's
instance before it was proved, and each found to be inductive or strengthened
until it was.

### Items and keys: `MCItems_proofs`

* `TypeCorrect`.
* `AcceptedAreReviewed` (`AcceptedIsReviewed`) needs `HoldsFile`: a worker that
  uploads or deletes works on the item its file is for.
* `ClosingStops` (`ClosedStopsRecipient`) needs `ReadOpen`: all but the sender's
  decisions were begun on an open request.
* `EmailNotForgotten` (`CompleteEmailNotForgotten`) needs `OwedIsDue`: an owed
  email belongs to a complete request that got none, so the worker that looks
  finds it due.
* `EmailsBounded` (`CompleteEmailsBounded`) from `MailingBounded`: the emails
  sent and the workers about to send one, from inside an extra document's
  transaction or not, are together at most the workers.
* `FilesFit` (`FilesWithinLimit`) needs `FilesRoom`: the files of an item and the
  workers past the count, together, stay within the limit and one for each other
  worker. The worker that counts finds at most one file less than the limit and
  leaves at most all the others uploading. `PlainStep` reduces the transition
  relation to the five steps that can disturb it; `FilesPlaced` and `ExtraNew` say
  that an extra item's first file is its only one.
* `AloneAlwaysMatch` (`AloneFilesMatch`), for the part with one worker at a time.
  Between requests files and items agree; within one they need not, so `AgreeBut`
  excepts the item the worker is at, and only at the statements after which they
  may differ. `AsRead` is what makes it inductive: what the worker tested when it
  fetched the item is still so when it saves - exactly what two workers at once do
  to each other, and a killed one leaves behind.
* `KeysAlwaysOpen` (`KeysHold`), from `KeysInv`. `CopyOk`: the row a worker has
  copied is the row, unless a command gave that row the key of now since. `Coming`:
  the rows `encrypt_documents` has still to visit have their first file name, so
  the new name it picks is free. `NewOk`: what `rewrap_document_keys` has passed is
  of the new key, and what it has not is on its list as it was read - which is why
  the old key may be dropped once it says it is done. `DiskOk` accounts for every
  file of a document by the row (`Own`) and the command at it (`Spare`), unless
  a worker holds a row a command has changed since (`Stale`): then `crossed` is set
  as soon as the worker saves it.

### Invitations: `MCRequests_proofs`

`TypeCorrect`, `NobodyInvitedTwice` (`InvitedOnce`), `NobodyForgotten`
(`NoInvitationLost`), `NothingFromUnproved` (`ProvedBeforeInvited`) and
`WithdrawnStays` (`WithdrawnNotInvited`), from one invariant, `IInv`:

* `RowsOk`: a request that waits for a confirmation is not queued, and a queued
  one belongs to a confirmed address. Without it a commit
  that clears the queue flag could leave a row that is mailed again.
* `WorkersOk`: what a worker knows of the request in its hand stays true while
  it holds the lock (`HandOk`) - this is the second look under the lock - and
  the copy an edit saves was a row once, so it keeps `RowsOk`.
* `Apart`: no two transactions have the same request, and an id is given once.
* `MailsOk`: an invitation that is still to leave has not left, unless a worker
  just mailed it and has not committed. `InvitedOnce` is not inductive without it.

`OnlyMail` reduces the two action properties to the one step that mails;
`OnlyLinkMail` does it for the links sent by hand.

### Questions and public pages: `MCRequests_proofs`

* `PlacesForQuestions` (`AskedWithinPlaces`) counts the open questions with the
  processes that passed the check and did not commit (`AskedOk`), like the seats
  below. It speaks of questions opened by asking: a question that is held takes no
  place when it is committed, and is in `unasked` when it is released.
* `QuestionState` (`StateFollowsThread`) needs `ThreadOk`: unless two people wrote
  at once, the last message is of a process that is still to save the state, or
  there is no such process and the state says whose it is.
* `FilesOfTheReader` (`FilesForTheirReader`) needs `SessionOk` - what a session was
  granted is owed to a mailbox its person reads, or to the password - and
  `PageOk`: a page works with an address the request had, also after the request
  was sent to another.

### The office: `MCOffice_proofs`

* `TypeCorrect`, `NotOversold` (`PlanNotOversold`) and `CheckedCountHolds`
  (`CheckStaysGood`). `PlanNotOversold` is not inductive: the step that breaks it
  would be the commit of a worker whose count went stale. `CheckStaysGood` is what
  is missing - the lock's holder counted under the plan in force, and the requests
  counted against it only shrank since - and `OpKnown` says what a worker that has
  passed the check may be doing.
* `ClientsOnce` (`OnePerAddress`), with `AddressOk`: of each mailbox the rows
  found or imported and the pages about to add one are together at most the pages.
  A page is about to add only after it found no row, and then pages alone count.
* `BoughtOnAccepted` (`AcceptedBeforeBought`) needs `Orderly`: of a document whose
  day was kept, only the wording on the site may be in the archive before its day,
  and while that one is not in force an older one is there. So there is always a
  wording to accept, and "the newest in force" - a maximum over the archive, which
  exists because a nonempty finite set of numbers has a greatest (`Greatest`, from
  the well-foundedness of finite sets under inclusion) - never goes back.
* `PanelLinksOpen` (`PanelLinksHold`, an invariant and an action property) needs
  `VisitOk` - a browser that no new token overtook looked at a link that still
  works - and `TokenMailed`: the token in force is the one mailed last, or somebody
  is about to mail it. The proof found the history variable `crossed` wrong: a
  browser counted as overtaken by its own new token, which excused every rotation
  from the promise. Now only a token of somebody else excuses.

### Money: `MCBilling_proofs`

* `TypeCorrect`, `QueueKeepsPromise` (`KeepsPromise`), the refinement of
  `InvoicePromise`, and `InvoicedOnce` (`OneInvoicePerPayment`). `HandsOk`: a
  worker's copy of the row it locked is the row; `Apart`: no two workers hold the
  same payment. With these `Moves` and `Turns` show that each step is a turn of one
  payment's fate or none: nothing leads back from issued, and nothing forward from
  what was left to the team. `JobsCounted`: the jobs at inFakt that the row does
  not point at, and that were not refused, are at most the lost answers and killed
  workers - the difference between "one invoice" and "one, and one more for each
  fault". `MailsCounted` is the same for the email; `MailedIssued` puts it after
  the invoice.
* `SyncedInTheEnd` (`AccountFollowsStripe`) and `PaidIsSeen`
  (`NobodyPaysForNothing`), from `SyncInv`. One worker has the lock from the read
  to the commit (`HandOk`). What it read is still so at Stripe, or an event not yet
  handled says otherwise (`ReadOk`), and the same is true of the stored copy
  (`Synced`); this is the argument by which old, repeated and reordered events do
  no harm, and it needs that every subscription was reported (`Sent`) and that the
  event in hand is not counted as one that will still repair. A customer is dropped
  only while it does not pay (`DropOk`), so whoever pays is the account's customer,
  still has an event, or was told of (`Watched`).
* `NobodyChargedAfterDeletion` (`DeletedNotCharged`): `ListsOk` - no try that may
  still erase the account passes over a subscription that was live when its list
  was read; one paid after that, through a checkout still open, is `late` and
  excepted. `MoneyGoesBack` (`MoneyIsReturned`): `MoneyOk` - while one worker moves
  at a time, what is due but for what `slipped` (`Owed`) is what went back, the
  credit, and what the worker has still to send (`Balanced`, by the worker's step),
  and nothing is sent twice.

### Accounts: `MCAccounts_proofs`

* `TypeCorrect` and `SeatsHold` (`SeatsNotOversold`), with `Room`: while the plan
  did not shrink, the seats held and the processes that have counted a free one and
  not written yet are together fewer than the seats and the processes. A process
  that counts sees the seats held but not the others that are about to take one,
  and those are at most all the others; who writes only moves from the one side to
  the other.
* `FilesOnDisk` (`FilesKeepStep`): `RowsOk` and `FilesOk` name, for each row
  without a file and each file without a row, the worker in the middle of it;
  `JobOk` is what that worker may rely on - nobody else touches a file that is
  being stored, and the list of a deletion still names every row, unless the list
  was overtaken (`lost`).
* `CodesLetInOnce` (`CodesHold`): `UsedOk` - a code that let somebody in is not the
  one mailed now, not among the backup codes, of an older secret, or not after the
  last used - rests on `RowOk` and `SetupOk`: codes are mailed and made once.
  `LimitOk` bounds the failures with the browsers past the check.
* `ConfirmedByItsOwner` (`VerifiedIsProved`): `AcctOk`, `LinkOk` and `WorkOk` - a
  link, or a handler under way, that proves an address has the account's, or that
  address is proved already. `AlwaysAWayIn` (`WayIn`): `Undisturbed` - while no
  handlers meet, what one read of the account is still so.
* `GoogleOpensForItsOwner` (`OpensForItsOwner`, an action property): what a
  session, a page, an answer and a letter hold was earned by the person at that
  browser (`EarnedBy`, `PageOk`, `LetterOk`): they know a usable password or hold
  the Google connected, and Google is connected by the mailbox's owner or from
  inside only. Then `Opens` is shown action by action; `GoogleRegister` is the
  stranger who signs up first, `GoogleEnded` that connecting Google to an
  unconfirmed address leaves nobody else in it nor with a password to it.

### Emails, reminders and the calendar: `MCMailings_proofs`, `Recurring_proofs`

* `NothingUntoldAlways` and `NothingToldTwiceAlways` (`NothingUntold`,
  `NothingToldTwice`) from `TellingInv`, four invariants side by side:
  * `ReviewsInv`: the emails an account got are at most those its row counts, one
    for the first of a day's workers that is at it, one for each killed worker
    and one for each list shared (`CountOk`); two workers hold an account only if
    a list was read meanwhile (`SharedOk`); with none of these, the last email is
    the one the row tells of (`SpacedOk`).
  * `NewsInv`: what a worker claimed nobody else claimed, and what it read is a list
    of all that was unread (`HoldOk`, `ReadOk`); nobody mails a notice before it
    is claimed (`FreshOk`), and the emails of a claimed one, with the workers that
    may still mail it, are one and one more for each that had read it too and had
    another left to claim (`MailedOk`); an answer takes the place of a process that
    looked (`AnswersOk`).
  * `AgendaInv`: what was due when the day was marked is in the email, was refused
    with it, or the worker that marked the day still builds it (`BuilderOk`); in one time zone only
    one worker builds, and a day with an email is marked (`MorningOk`).
  * `AlarmsInv`: what was recorded went out, was lost, or is on its way
    (`AlarmOk`); the entries of a report are in the trail, and `DaysOk` says what
    7:00 and 9:30 leave behind: a report, a scheduler that was down, or a day
    without entries.
* `OneReminderADayAlways` (`OneReminderADay`) from `RemindersInv`. `LockOk`: the
  worker that holds the row found no reminder of that day, and no other has it, so
  its own is the day's first. `OnTheDayOk` counts emails against rows and killed
  workers, `ManualOk` manual reminders against clicks.
* `PlanComesTrueAlways` (`PlanComesTrue`) from `PlanOk`: the plan kept is the one
  `planned` would make now. `NothingDue`: when the tasks find nothing, the next
  moment plans the same. `DueIsPlanned`: when they find something the plan has it
  first, and after it what is planned once it was sent. The loop of `planned` is a
  recursive function; that there is one (`RoundsExist`) is shown from the last
  round back, every round leaving less to plan.
* `NextWorking` and `FallsFirst`, about the calendar itself. Of the thirteen or
  fourteen days off of a year, Easter anywhere it can be between 22 March and
  25 April, no two are three or four days apart (`DaysOffApart`): hence of six days
  in a row one works (`WorkingWeek`), and `next_working_day`'s search of ten days
  is enough. `due_on_or_after` is the first date of a schedule, and between a date
  and the start of the next period there is no other (`NoneInPeriod`).
* `CalendarKept` (`CalendarIsKept`) and `OnceEachPeriod` (`OncePerPeriod`), from
  `Inv`. `RowsInv`: what the row and a page's copy of it say of the days.
  `PeriodInv`: the next date is of a later period than the last one sent, unless
  a page saved over a row changed since. `KeptInv`: while nobody disturbed the
  schedule, what went out is every date from the day counted from to the next one,
  and none of them before its sending day. `Ahead` is about `_advance`'s loop: it stops, at the
  first date whose sending day is still to come. The assumption is that `Years`
  has every day up to a hundred after the last one: months are looked up ahead.

### The panel's lists: `PanelLists_proofs`

The `ASSUME`s of `MCOffice` evaluate these functions on sets of two or three
requests; the theorems are about any finite set of them, with any items, any
deadline and any length of a list.

* `StatesAgreeAlways` (`StatesAgree`): the state counted in the database, the
  overview's and `in_progress` are one. `ItemsCounted` takes the counts apart:
  all, none or some of the items are in a set of states.
* `ListsAgreeAlways` (`ListsAgree`): every sum of the panel cuts a set of requests,
  or of clients, into parts that do not meet - the tabs by state (`TabsAddUp`), the
  questions by theirs (`QuestionsAddUp`), the tiles by the most urgent state of a
  client (`MostUrgentIs`, `OverviewAddsUp`).
* `NothingToDoIsLostAlways` and `MorningAgreesAlways` (`NothingToDoIsLost`,
  `MorningAgrees`): what is left out of the list of things to do is left out only
  because the list is full (`EntriesAre`, `ToDoShows`), and an empty morning email
  means that the list has no answer and nothing late (`NearOnes`).

`IsRequest` is what they assume of a request: a question has one item, and it is
never "Nie dotyczy", which the pages offer for documents only. The last theorem
also takes a held question, which has reached nobody, as not answered: the
calendar counts it, the email does not.

### Two notes on the prover

The installed `tlapm` misreads two updates of one function in one `EXCEPT`
(`[f EXCEPT ![p].a = x, ![p].b = y]`) and an `@` of its own inside `[@ EXCEPT ...]`,
and could then prove what is false. No module with theorems uses either form: such
updates are written out, `![p] = [f[p] EXCEPT !.a = x, !.b = y]`.

It has no arithmetic in a module with RECURSIVE operators, and cannot use an
induction rule that takes an operator. The loops of the code that a theorem is
about are therefore recursive functions, and what holds of all their rounds is
proved by the least round for which it would not (`Least`, from the
well-foundedness of the natural numbers).

### Only model-checked

The liveness properties of `promises` (`QueueIsWorkedOff`, `CompleteEmailTried`,
`NewsIsWorkedOff`, `PaidIsSettled`, `ExpiredIsErased`): fairness and ENABLED are
beyond the prover. Every other property of a passing run is proved. The
`ASSUME`s about functions - `Easter` against the church's tables, the forms, the
imports, the plans, the marks of the month's bar (`SegmentsFit`: rounding is beyond
the provers) - are evaluated on bounded inputs only; but for the lists and the
calendar, their modules have no theorems.

## Not modelled

* Parsing and rendering of formats: Pillow, olefile, PDF, XLSX and CSV readers,
  the clamd protocol, the ciphers. `Intake`, `ImportTable` and `EncryptionKeys`
  take their verdicts as inputs.
* Wording, templates, pages, help articles, SEO, branding, the content rules'
  word lists, the library of request templates: data and presentation, and most of
  what the map leaves uncovered. No later step reads what they do.
* Contact and abuse forms: one email each, no state.
* The checkout page's parameters and the customer portal: Stripe's.
* Rate limits have no module: the window and the unlocked count are inside the
  modules whose limits matter (`SignIn`, `PanelLinks`, `Alarms`, `DemoData`).
* The queue of billing emails beyond the queueing in `StripeSync`; cookie
  consents; the feed's token; the sample of a review invitation that the team
  sends itself.
* Clocks of different hosts, the database's own failures and migrations.
