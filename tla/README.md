# InEx Ledger: a TLA+ model of the API

InEx Ledger is a bookkeeping service: an Express API (`In-Ex-Ledger-API/`) over one PostgreSQL
database, a Stripe and a Plaid integration, a mail provider (Resend), a stateless PDF worker and two
web clients. All state that matters is in PostgreSQL. Several server processes may run, and a request
is a sequence of SQL statements: most of them are sent one by one on the pool (each its own
transaction), some on a client between `BEGIN` and `COMMIT`, a few under an advisory lock. What can go
wrong is therefore in the gaps: a value read in one statement and relied on in a later one, a crash or
an error between two statements, a call to another service whose answer is lost. This project models
those gaps, checks the models with TLC and proves the central facts with TLAPS.

Paths below are relative to `In-Ex-Ledger-API/` unless they begin with `Docs/`.

## 1. Inventory

| Component | State it keeps | Operations | Hard part | Correct when |
|---|---|---|---|---|
| Mail dedupe (`services/emailDeliveryDedupeService.js`, its callers) | `email_delivery_dedupe`: status, `updated_at`, attempts per key | reserve, send, mark sent, mark failed | the mark names the key and not the reservation; crashes; takeover of stale rows | one sender per key; a second mail only after a lost outcome; no key blocked for ever |
| Stripe webhook (`routes/billing.routes.js` 134-174, 2130-2200) | `stripe_webhook_events` | reserve, sweep, handle, release, answer | retries, overlap, each statement may fail | an event is handled once, and Stripe stops retrying only when it was |
| Ledger (`routes/transactions.routes.js`, `services/transactionAuditService.js`, `services/transactionImportService.js`) | `transactions`, `transaction_import_batches` | create, edit, patches, archive, undo, Delete All, import, revert | check and write are separate statements | rows of a locked period stay; a reset is final |
| Accounting lock (`services/accountingLockService.js`, `routes/business.routes.js` 289-308) | `businesses.locked_through_date` | set, move, clear, read | read by all, tied to nothing | see Ledger, Receipts, Recurring |
| Receipts (`routes/receipts.routes.js`, `services/receiptStatusService.js`, `routes/transactions.routes.js` 1325-1433) | `receipts`, `transactions.receipt_status`, a mirror file | upload, attach, move, detach, delete, attest | a derived status kept by whoever changes a receipt; three kinds of locks | status and receipts agree; the cap holds; evidence of a locked period stays; nobody waits for ever |
| Recurring (`services/recurringTransactionsService.js`, `routes/recurring.routes.js`) | `recurring_transactions`, `recurring_transaction_runs` | create, edit, status, delete, undo, catch up, run now | a cursor that edits recompute, a capped loop, values read from other connections, months of different lengths | no occurrence twice or out of order, none left out; one for each day or month of the cadence |
| Plaid sync and bank connections (`routes/plaid.routes.js` 277-647, `services/bankConnectionService.js`) | `bank_connections` with token and cursor, linked accounts, mirrored transactions | exchange, sync, disconnect, and what users do to the rows | pages, failures row by row, concurrent syncs of one connection, accounts read once | the cursor never passes what was not applied; the mirror is exact at rest; what users delete stays deleted; the feed catches up |
| Plan usage (`services/basicPlanUsageService.js`) | `business_usage_periods`, counts of rows | check and spend, under one of two advisory locks | overlapping writers, a month that turns, callers that take another lock | what is spent after a check stays within the cap |
| Subscriptions (`services/subscriptionService.js`, `services/billingWebhookService.js`, `routes/billing.routes.js`) | `business_subscriptions`, the subscription at Stripe | checkout, cancel, resume, sync from events and from reads, effective state | events out of order or lost, an answer of Stripe written later than a newer event | Pro is paid for; who pays gets Pro; one live subscription; the row follows Stripe |
| Businesses and tenancy (`routes/businesses.routes.js`, `routes/billing.routes.js`, `api/utils/resolveBusinessIdForUser.js`) | `businesses`, `users.active_business_id`, the slots that were bought | resolve, create, buy, switch, delete, buy or give up slots | a transaction that also calls Stripe and compensates; a delete takes no lock | the user keeps a business and the row that holds the subscription; Stripe charges what succeeded |
| Exports (`routes/exports.routes.js`, `services/exportGrantService.js`, `exportSnapshotService.js`, `exportStorage.js`, `exportEmailService.js`) | grants, exports, files, snapshots, the stale reminder | grant, generate, record, delete, invalidate, mail | data read at one moment and recorded much later; an edit invalidates after its COMMIT, best effort | a package shown as current contains the edits; a listed PDF has its file; a grant pays once |
| Pool and migrations (`db.js`, `server.js`) | clients of the pool, `schema_migrations` | connect, query, migrate | a handler that holds a client awaits another, with a lock or without | requests never all wait for each other; each migration runs once |
| Invoices (`routes/invoices-v1.routes.js`) | `invoices_v1` and its lines | create, number, edit, send, pay | the number is MAX + 1 with retries; the status is read and written in separate statements | no number twice; a paid invoice stays paid |
| Authentication and sessions, rate limiter, messages, reminders, privacy, bills | see PROJECT.json | | | |
| Taxes, mileage, assets, categorisation, PDF, web clients | none, or rows written by one statement | pure computations and views | arithmetic, text | out of scope |

How they interact: the ledger's tables are written by the ledger's routes, by recurring runs and by
Plaid syncs; the accounting lock is read by all of these but the sync; receipts write
`transactions.receipt_status`; plan usage counts rows of the ledger and of receipts; the webhook drives
the subscription, which decides the plan and the number of businesses; edits of nearly every table
invalidate the snapshots of exports; exports, invoices and billing send mail through the dedupe table. PROJECT.json lists every component with its status, and under `hazards` every line at which one
of the hard parts bites, with the properties that cover it.

## 2. Modules

| Module | Models | Proofs |
|---|---|---|
| `EmailDedupe` | the reservation table and its senders | `AtMostProofs` |
| `StripeWebhook` | the webhook route, its table, Stripe's retries | `AtMostProofs` |
| `Ledger` | rows, archive, imports, the accounting lock, the bank feed | `LedgerProofs` |
| `Receipts` | receipts, the derived status, the attestation | `ReceiptsProofs` |
| `RecurringSchedule` | abstract: occurrences in order, each once, behind a cursor | |
| `Recurring` | one template and its requests | `RecurringProofs` |
| `PlaidSync` | one bank connection, its accounts and mirrored rows, concurrent syncs | `PlaidSyncProofs` |
| `PlanUsage` | the caps of the free plan, both advisory locks, everybody who spends, the clients of the pool they hold and ask for | `AtMostProofs` |
| `Subscription` | one customer's row and subscriptions at Stripe, events, requests | `SubscriptionProofs` |
| `Businesses` | one user's businesses, the row that anchors billing, the bought slots | `BusinessesProofs` |
| `Exports` | grants, packages, their rows, files and snapshots, invalidation | `ExportsProofs` |

`AtMostProofs` extends three components, so two of them have names of their own: `MailSpec`,
`MailTypeOK` of `EmailDedupe`, `UsageSpec`, `UsageTypeOK` of `PlanUsage`.

The modules share no variables; what one component sees of another is an action of the module that
sees it. `Ledger` has the bank feed's three writes, whose inside is `PlaidSync`; `PlanUsage` has the
spenders whose inside is `Ledger`, `Receipts` and `Recurring`; `Businesses` and `Subscription` share
Stripe's side of the subscription, the one with its slots and the other with its payments;
`StripeWebhook` delivers what `Subscription` and `Businesses` call events.

Refinement: `Recurring` instantiates `RecurringSchedule` with `cursor <- row.next, done <- runs`, and
`ScheduleKept` is checked as a property and proved.

`MC*` modules name the small sets and the symmetry; each `.cfg` is one run. An operator whose comment
begins with *Mutant of* is a plausible bug, defined before the definition it would replace; nothing in
a specification uses it. It is there to show that the property named in PROJECT.json can fail.

### State and actions against the code

*EmailDedupe.* `row[k]` is the row of a dedupe key; `updated_at` is its age in ticks, which stops
counting past the stale margin. `sender[s]` is one request between `reserveEmailDelivery` and the
mark. The answers of the mail provider are three actions: accepted, refused, and accepted with the
answer lost. `mails` and `unknown` are history. `ASSUME TimelySends` is the service's own premise: a
send takes less than the stale margin.

*StripeWebhook.* `rows` and `rowAge` are `stripe_webhook_events`; `step[h]` is where a request of the
route is. What may fail is chosen by `Faults`: the reservation, the sweep, the handling, the release,
the answer on its way to Stripe, the process, and overlapping deliveries. `ASSUME IdsOutliveRetries` is
the comment on the seven days. `handleStripeWebhookEvent` is one step that succeeds or throws. `risked`
is history: the events of which a sweep or a release failed, whose handler's process died, or that were
delivered again while a handler was at work.

*Ledger.* Each request is read, check, write, with any other step in between. `seen` is the date, or
the lock, as the request read it. `cleared` stands for every field of a row but its date: what the
properties ask is whether a row was touched. Void rows are those posted and not live, and `before` is
the order of their `deleted_at`, by which an undo picks its candidate. Delete All is two UPDATEs
(`BulkDelete`, `MarkArchived`), and `GiveUp` may end the request between them, as a crash does. The bank
feed's three writes are actions of their own without any check. `batch` is the one import batch there is: a
CSV import closes it in the statement that fills it, a sync makes it (`createImportBatch`), adds rows to it
one by one and closes it at its end (`finalizeImportBatch`, which writes the status over 'reverted'), and it
can be reverted meanwhile. `disturbed` and `raced` are history. `disturbed`
says that, since no request was in flight, the lock was moved up under one or the feed added a locked row
between the scan and the write of a reset, or of a revert of the batch that the row joined; `raced` names the undos in flight that a reset wrote under.
They let one run and one theorem say exactly when a check is worth something: `LockHonoured` holds until
`disturbed`, `ResetHonoured` for every undo but those in `raced`. What the documentation says
(`Docs/ACCOUNTING_TRUST_RULES.md`: locked rows are not touched, a reset is final) leaves these
exceptions out.

*Receipts.* A request is followed statement by statement: the receipt's row lock, the advisory lock,
the change, and for each of the two transactions the count and the UPDATE of
`syncReceiptStatusForTransaction`. `MyFiles` and `MyLink` are what a transaction sees under READ
COMMITTED: the committed rows with its own change. `held` and `pending` are row locks and uncommitted
values. An UPDATE whose WHERE does not match the committed row passes over it; one that matches waits.
`crossed` and `raced` are history: requests that met another one at work on the same transaction (the
advisory lock keeps uploads and attaches apart, so one of the two is a delete or a user's own word), and
the transactions whose last change was by such a request. `PUT /business/accounting-lock` takes no lock, so
`MoveLock` happens at any time; `late` names the requests whose transaction (`Checked`) was locked after they
had checked its date.

*Recurring.* The requests on one template hold its row from their first statement to `COMMIT`, so one
is in flight at a time; `draft` is the row as it wrote it. A date is the number of its day. The calendar
is the constant `FirstDay`, the day each month begins on (`ASSUME RecurringCalendar`: months follow one
another and have days), and `addMonths` is the code's: the same day of a later month, or that month's
last. `TryNext` and `PutCursor` are the loop of `computeNextRunDateForUpdate`, one occurrence a step. The
lock and the slots are read from other connections and are therefore read once, by `Load`. `skipped` and the field `put` of a row are history:
occurrences passed over because they were locked, and the date a user's last word put the cursor on. `DatesAsText` says how the
driver returns a `DATE` column. The code's `parseIsoDate` reads text; `pg` with no type parser set (and
none is set) returns a JS `Date`, whose `String()` is not ISO, so `FALSE` is what is deployed. `TRUE` is
what the code, and the tests' fake rows, intend. The passing runs are about the intended algorithm, the
proofs, `NoneTwice` among them, hold for both values (`NothingLeftOut` says something else of each), and `MCRecurringDates` shows the deployed one.

*PlaidSync.* The bank is `log`, a sequence of changes; `cursor` is a position in it, and the amount a
row has is the position of the change that set it. A sync reads the token and the cursor, fetches at
most `Window` changes (the code's 20 pages; Plaid gives each changed transaction once, as it is at the
end), reads the accounts, and applies additions, modifications and removals row by row, each an
autocommitted statement; a row that fails is counted, and the cursor is written only when none did.
`INSERT ... ON CONFLICT DO NOTHING` is keyed by (account, transaction), so `row` is, too. `row` is the amount a
sync wrote last; `own` are the rows over which a user has written an amount since (`EditRow`, a `PUT`), until
a sync writes its own again. `MirrorExactWhenCalm` is about the former: what the feed has given each row is the
bank's last word, and no older one is under what the user says. `moved`
names the transactions whose row left its account (a PUT, or an account that was deleted): a second
sync may then insert the transaction again. `disturbed` says that syncs overlapped, one failed, or a
row was restored: then a row may be older than the cursor, or live although the bank removed it.

*PlanUsage.* A request reads its plan, takes a client of the pool, begins (which dates its rows), takes
its advisory lock or locks, counts, and inserts before `COMMIT`. Some ask the pool for a second client for a
statement (`Asks`): to resolve the business or look up the transaction before `BEGIN` (`looking`), to read
the subscription, or, after the count, the accounting lock; they need a free one (`ClientFree`), and
`db.js` sets no limit to the wait. The requests are those of one process; `others` are the clients its
other handlers hold. The row lock of a recurring template is left out: two requests on one template are
in sequence (`Recurring`), and here they may overlap. `checked` is what requests spend after a check, `unchecked` what
the bank feed, Pro users and the like add; the code only sees the sum. `excused` are the caps and months
in which the month turned between `BEGIN` and the check, or a catching up, which reads its slots
without the lock, met another request.

*Subscription.* `stripe[s]` is the subscription at Stripe, `row` the one in `business_subscriptions`.
Events carry a snapshot and arrive in any order. Every request is followed statement by statement and call by
call: it reads the row (`ReadCancel`, `ReadResume`, `ReadCheckout` are what it makes of it, and from there on
it knows no more), `cancel` and `resume` change Stripe, read the subscription back and write the row, or set
the trial or the free plan (`SelectTrial`, `SetFree`) whatever the row has become; `checkout` looks for a live
subscription (`Checkout`) and makes the session in a later call (`OpenSession`). `view` is `GET
/subscription`, which asks Stripe again when the row is not plausible. `paid`, `learnt`, `dunned`, `doubled`
and `stale` are history; `stale` is the exception of `RowFollowsStripe`: a snapshot that was not the last was
written, or the trial or the free plan over a live subscription, or an event was lost
(`handleCheckoutCompleted` swallows errors of Stripe's API).

*Businesses.* Ids are in the order of `created_at`, which the anchor (the business whose row holds the
subscription) is chosen by. A request reads what it needs, takes the user's advisory lock or none
(deletes), writes in a transaction in which it also calls Stripe, and compensates at Stripe when it rolls
back. A delete reads its anchor, the count and the successor in three statements (`ReadDelete`,
`CountBusinesses`, `FindSuccessor`), so the successor may be gone, or be nobody. `quantity` is the add-on item
at Stripe, `meta` the number in the subscription's metadata, `slots` the number in the row. Every change at
Stripe (`Changes`) puts a snapshot into `events`, as does a handler that fetches the subscription
(`FetchSubscription`); `SyncFromStripe` writes one of them to the row, in any order. A checkout finds its anchor
(`StartCheckout`), makes a customer and a session that names it (`OpenSession`), and is paid later
(`PayCheckout`), all before a snapshot gives the row the subscription's id. `overlapped`, `midway`, `bereft` and
`strained` name the exceptions.

*Exports.* What a package contains is `seen`, the last edit that is in it for certain. `file`, `listed`
and `snap` are the redacted PDF, the rows, and the snapshot, each written by a statement of its own. An
edit commits and then marks (`void invalidateSnapshotsForBusiness`), then mails. `missed` are the
packages that an edit went by without marking them.

### Bounds

All bounds are in guards: `MaxAttempts` (mail), `MaxTries` (webhook), one import batch
(ledger), `MaxDay` (recurring), `MaxLog`, `MaxFaults`, `MaxEdits` (bank feed, businesses, exports),
`MaxIds`, `MaxSlots`, one `POST /checkout-session` at a time (businesses), `MaxSubs`, `MaxTime`, `MaxEvents`, `MaxSpent` (subscription),
`MaxMonth`, `MaxRows`, `MaxSpent`, `MaxOthers` (plan usage; `Clients` is the pool's size), `MaxPackages` (exports). Dates, ages and times are
small naturals; ages past the limit the code compares with are one value. Where users choose a date, a
constant (`LockDates`, `Ends`) says from which.

## 3. Runs

| Run | Instance | Distinct states | Shows |
|---|---|---|---|
| `email_dedupe` | 2 keys, 2 senders, margin 2, 2 attempts | 96 thousand | one sender per key, duplicates only after lost outcomes, sent rows stay, reservations end |
| `stripe_webhook` | 2 events, 2 requests, 3 deliveries, all faults | 437 thousand | one owner, handled at most once, lost only through the causes named by `risked` |
| `ledger` | 2 rows, 2 dates, no lock or one on the first date, 2 requests of every kind, lock, bank feed and its batch at any time | 3.5 million | the lock and the reset are honoured up to `disturbed` and `raced`; what requests rely on holds |
| `receipts` | 3 receipts, 2 transactions, cap 2, 2 requests of every kind, the lock at any time | 1.3 million | status and receipts agree unless requests met there, the cap holds, no circle of waits, evidence of a locked period leaves by a move, or by a request that was at work when the period was locked |
| `recurring` | 4 days in months of 2, 1, 2 and 2 days, every second day or every month, catch-up 2, slots 0, 1, unlimited, edits, end date or none, lock or none | 1.2 million | refinement of `RecurringSchedule`; every day or month of the cadence that the cursor has passed has its occurrence, after short months, too |
| `plaid_sync` | 2 transactions on 2 accounts, 2 syncs, pages of 1 change, a log of 2, 1 fault, 1 edit | 814 thousand | the cursor skips nothing, the mirror is exact when calm, syncs revive nothing, the feed catches up |
| `businesses` | 2 requests, 4 businesses, 2 slots, 2 faults, 3 wishes of the user, any checkouts and snapshots | 276 thousand | the user keeps one business and the anchor's row, nobody exceeds the cap, Stripe charges what succeeded |
| `subscription` | 2 subscriptions, 2 events on their way, 1 request at a time, 3 requests and faults, periods, trial and grace of 1 | 723 thousand | Pro is paid for, one live subscription, the row follows Stripe, who pays gets Pro |
| `plan_usage` | 2 requests of every kind and both plans, limits 2 and 1, 2 months, 3 clients of which another handler may have 1 | 2.1 million | what is spent after a check stays within the cap; requests all wait only because of a manual run that keeps the key, or a pool used up by those who want a second client (both happen in this instance) |
| `exports` | 3 requests, 1 grant, 2 packages, 2 edits | 1.3 million | current packages are current, one mail per newly stale package, listed PDFs have their files, a grant pays once |

Why these bounds are enough: every hazard above is a matter of two actors, or of one actor and a lock
or a clock that moves, about one row; two rows are there so that a request that works on several
(Delete All, an import, a move of a receipt) can treat them differently. Three receipts fill a cap of two
and leave one to slip past it. Catching up needs a cap below the days there are to stop in the middle
and go on; a cadence of two skips days, and a month of one day after one of two is the short month in which
the day of the template does not exist. With three clients the pool can be empty while two requests hold one
each, and one of them or both ask for another.

Larger instances have been checked once and are not among the runs, for their time: `plaid_sync` with
pages of 2 and a log of 3 (its safety properties, 12.4 million states), `businesses` with 4 wishes and
1 fault (3.4 million), `subscription` with 2 requests at a time and 2 requests and faults (its safety
properties, 2.2 million), and with a grace of 3 on 4 days and 2 requests and faults, in which the row may
not hear that one missed payment was made good before it hears of the next (571 thousand). A sync that fetches less than there
is (pages of 1, a log of 2) is what makes a second one necessary; two businesses, one of them the
anchor, and a third to be created are what a delete and a creation can cross with; two packages are
needed for an edit to mark the one and miss the other.

Two runs show a disagreement between what the code does and what its own comments say (PROJECT.json
`findings` quotes both):

| Run | Property | What TLC shows |
|---|---|---|
| `businesses_anchor` | `DeleteOnlyRefusesTheLast` | the business that holds the subscription cannot be deleted: its row is copied to the successor first, and the customer and the subscription are UNIQUE |
| `recurring_dates` | `BacklogKept` | with JS dates nothing is posted and the cursor jumps over the backlog |

### What the exceptions stand for

Several properties of the passing runs hold up to an exception that the specification records as
history. Each exception is something the code lets happen:

| Property | Exception | How it comes about |
|---|---|---|
| `LockHonoured` | `disturbed` | a lock set between a request's check and its write; a Plaid sync, which never reads the lock, adds a locked row behind the scan of a Delete All, or of a revert of the batch that the sync is still filling. (The feed's own writes are not a request's, and are left out of the property.) |
| `ResetHonoured` | `raced` | an undo that picked its candidate before Delete All writes restores it afterwards |
| `OnlyRiskedAreLost` | `risked` | the sweep throws after the INSERT, or the release after the handler threw: a 500 with the row left behind, and Stripe's retry is a duplicate |
| `StatusReflectsReality` | `raced` | two deletes of one transaction's receipts each count the other's receipt: `attached` with none, though the comment at `services/receiptStatusService.js:30-31` says the status always reflects reality; an upload that commits between the count and the UPDATE of a manual attestation |
| `LockedEvidenceKept` | a move; `late` | `PATCH /receipts/:id/attach` checks the date of the transaction joined only, so a receipt may leave a locked one; and the period may be locked between a request's check of the date and its write |
| `MirrorExactWhenCalm` | `disturbed` | after a sync that failed in part, the retry meets its own rows and a modification is lost by `DO NOTHING`; an older sync inserts after a newer one removed |
| `SyncRevivesNothing` | `moved` | a PUT moves the row to another account, or `DELETE /accounts` sets it to NULL: the pair (account, transaction) is free again |
| `KeepsOne` | `overlapped` | two deletes in flight together each counted two businesses |
| `HolderSurvives` | `midway`, `bereft` | a checkout that began while the anchor was being deleted, or before the delete, names the old one; a delete that had counted two businesses finds no successor, so the row of the subscription is not migrated and goes with its business |
| `ChargesWhatSucceeded` | `strained` | requests that cross each other or an event; a snapshot that is written after the newest one was, which stays in the row; an answer or a compensation that is lost; `PATCH` to 0 slots deletes the item and leaves the metadata, from which the next sync takes the number |
| `ProIsPaidFor` | `dunned` | an unpaid period whose subscription is canceled runs to its end as Pro |
| `OneLiveSubscription` | `doubled` | two open checkout sessions, each created when nothing was live; a session made after its request had looked for a subscription and before it made the session another one was paid |
| `RowFollowsStripe` | `stale`, trials | a snapshot read earlier is written over a newer one; `POST /cancel` or `/resume` has read a row without a subscription, and sets the free plan or the trial over the one a webhook has written since; resuming a trial changes the row only |
| `CapsHold` | `excused` | the month turns between `BEGIN` and the check; catching up reads its slots outside the lock |
| `StandstillsHaveCauses` | manual runs; a pool used up | `POST /recurring/:id/run` of a free user holds the key of the month when it asks the pool for a second client to read the accounting lock (`services/recurringTransactionsService.js` 365-377): creations that wait for the key hold the clients it waits for, and nobody goes on. (The route is for Pro, so the plan has to lapse between the middleware and the check.) The handlers that hold no lock when they ask for a second client (recurring POST and PUT, receipts POST) can use up the pool by themselves: as many of them as there are clients each wait for the others |
| `ShownCurrentIsCurrent` | `missed` | imports, their reverts, recurring runs and bank feeds never invalidate; the invalidation is lost with its process; a package whose data were read before an edit that marked the snapshots of the moment; a snapshot that could not be stored; history recorded by the client. Both clients show all of these as "current" |

No job or route calls `processDueRecurringTransactions`: what comes due after the last request on a
template stays unposted. No property says otherwise.

### Fairness

*EmailDedupe*: time passes, and a send that began ends (each of its steps is a statement or a call
with an outcome; a crash is one). Nobody has to try again. *PlaidSync*: statements return, and somebody
asks for a sync again: the comment at `routes/plaid.routes.js:681-685` leaves that to the client or a
job. *Subscription*: events arrive (each is handled or counted as handled), statements return, and the user
comes to look now and then, which is when a doubtful row is verified. Nothing is assumed about time, payments
or what users ask for. The other specifications have no liveness property and no fairness.

## 4. Proofs

For every value of the constants that satisfies the named assumptions of the module:

| Theorem | Statement | Argument |
|---|---|---|
| `AtMostProofs!MailInductive`, `MailTypeCorrect`, `NeverTwoSenders` | `[]MailIInv`, `[]MailTypeOK`, `[]OneSenderPerKey` | `BusyRowsAreYoung`: a busy sender's row is reserved and exactly as old as its send, which is at most `MaxSend`, so it is not reclaimable; needs `TimelySends` |
| `DuplicatesAreAccounted`, `SentRowsWereAccepted`, `SentRowsStay` | `[]DuplicatesNeedLostOutcomes`, `[]SentMeansAccepted`, `SentIsForever` | `MailsAccounted`: the one mail no lost outcome accounts for is remembered by the row or by the sender; a busy sender's row is not sent, so no mark can move a sent row |
| `AtMostProofs!Inductive`, `TypeCorrect`, `OwnersAreAlone`, `AtMostOnce` | `[]IInv`, `[]TypeOK`, `[]OneOwnerPerEvent`, `[]HandledAtMostOnce` | an owner's event has a row no older than the event; rows are swept only when the event is too old to be delivered; needs `IdsOutliveRetries` |
| `LossesHaveCauses` | `[]OnlyRiskedAreLost` | `RowsAreAccounted`: every row that is not at risk has an owner or a completed handling, so a duplicate is answered 200 for its sake |
| `LedgerProofs!TypeCorrect` | `[]TypeOK` | |
| `LedgerProofs!Inductive` | `[]Undisturbed` | `Relies`: a request that checked relies on its row being after the lock, and every write of another request leaves rows after the lock after it; `Candidate`: an undo's row is no part of a reset. The first until `disturbed`, which is only forgotten when no request is in flight, the second for undos not in `raced` |
| `LockHolds`, `ResetHolds` | `LockHonoured`, `ResetHonoured` | a write's rows are what its request relies on |
| `RecurringProofs!Inductive`, `TypeCorrect`, `ImplementsSchedule` | `[]IInv`, `[]TypeOK`, `Spec => RecurringSchedule!Spec` | what is posted is behind the last run, the last run behind the cursor, for the row and for the loops in flight (`MonthsLater`: `addMonths` stays within the calendar and goes forward); each step maps to `Advance` or a stutter |
| `NothingLeftOut` | `[](IF DatesAsText THEN BacklogKept ELSE runs = {} /\ row.last = 0)` | `Kept`: the day or month of the cursor is a whole number of cadences after that of the date the user put it on, and each one in between has an occurrence that was run, skipped, written or passed by the loop in flight (`Caught`); `NextOccurs`: the next occurrence is exactly n days or n months later, whatever the lengths of the months. Text is the format that the algorithm is written for. With the dates that are deployed nothing is ever posted, and `BacklogKept` fails (`recurring_dates`) |
| `NoneTwice` | `[]OncePerPeriod` | `Spaced`: two runs since the user's last word, and the last run and the cursor, are in different days or months; it needs no hypothesis on the format |
| `ReceiptsProofs!Inductive`, `TypeCorrect` | `[]IInv`, `[]TypeOK` | for each request: which file is its own (`Owns`, `FilesApart`), what it has locked (`Shape`), what of its checks is still true (`Room`, `Dated`, `Alone`, `Synced`) |
| `Capped`, `StatusRight`, `LockedEvidenceStays` | `[]CapHolds`, `[]StatusReflectsReality`, `LockedEvidenceKept` | who adds evidence holds the advisory lock, so its count stands until its commit; a request that has met nobody has counted what will be committed; a request that is not `late` has checked a date that is still open |
| `NoCircle` | `[]NobodyWaitsForEver` | some request in flight waits for no lock: who holds a row commits next, or has the advisory lock (`HoldersOfRows`); who waits for a receipt's row waits for one of these |
| `PlaidSyncProofs!Inductive`, `TypeCorrect` | `[]IInv`, `[]TypeOK` | `NothingSkipped`: what the bank had at the stored cursor, and at the base of every sync, is in the ledger, and what a sync without a failed row has passed since is there or among what it has to insert; `Calm`: undisturbed, one sync is at work, from the cursor, and the rest of its updates and removals is all that the mirror lacks |
| `NeverSkips`, `ExactWhenCalm`, `RevivesNothing` | `[]CursorNeverSkips`, `[]MirrorExactWhenCalm`, `SyncRevivesNothing` | a cursor is written by a sync that owes nothing; a row is inserted only where there is none (`AtHome`: at the account the bank names) |
| `BusinessesProofs!Inductive`, `TypeCorrect` | `[]IInv`, `[]TypeOK` | one lemma per action; what a request has read is described as long as it can rely on it (`Asks`), the flags `overlapped`, `midway`, `bereft` and `strained` end the rest |
| `OneStays`, `AddsWhereThereIsRoom` | `[]KeepsOne`, `NoExtraBusiness` | a delete that is alone spares another business (`Spares`); the lock of the user is held from the count to the commit (`Room`) |
| `HolderStays`, `ChargedRight` | `[]HolderSurvives`, `[]ChargesWhatSucceeded` | the anchor of every read is the business that Stripe bills, the one of the highest rank (`Single`, `Standing`; `HolderIsAnchor`), so a delete that would take it is refused by the UNIQUE columns (`KeepsHolder`); a request at work has set Stripe to what it will write, or has to set it back (`Trusts`); undisturbed, the newest snapshot is on its way or in the row (`Level`) |
| `AtMostProofs!UsageInductive`, `UsageTypeCorrect`, `CapsAreKept` | `[]UsageIInv`, `[]UsageTypeOK`, `[]CapsHold` | `Promise`: the room a request has counted is kept for it, because who could take it holds the same key (`KeysExclusive`), or ends its exception (`excused`) |
| `AtMostProofs!StandstillsExplained` | `[]StandstillsHaveCauses` | `PoolInOrder`: the clients held are accounted for; who has the business lock waits for a key at most (`BusinessGoesOn`), of those who have a key only a manual run asks the pool (`KeyHoldersGoOn`), so when nobody waits for a lock all wait for a client and have all there are |
| `SubscriptionProofs!Inductive`, `TypeCorrect` | `[]IInv`, `[]TypeOK` | `Genuine`: what a snapshot says of the time that was paid stays true however old it is, because ends and payments only grow and a debt is forgotten only when it is paid; so it holds of the events on their way, of what requests hold and of the row |
| `ProIsEarned` | `[]ProIsPaidFor` | the row is a genuine snapshot, but for a lost cancellation; `GraceKept`: it counts its grace from no later than it first heard of the missed payment, unless it was written late |
| `OneSubscription`, `RowIsStripes` | `[]OneLiveSubscription`, `[]RowFollowsStripe` | `OneAtATime`: an open session, or one live subscription (a session made beside either sets `doubled`); `Told`: of a live subscription the row says what Stripe says, or an event that says it is on its way |
| `ExportsProofs!Inductive`, `TypeCorrect` | `[]IInv`, `[]TypeOK` | a package in the making belongs to one request and is listed by none (`BuildsAlone`, `FileInOrder`, `Numbered`) |
| `Fresh`, `NoMailForNothing`, `Genuine` | `[]ShownCurrentIsCurrent`, `[]MailsNeedNewPackages`, `[]ListedIsGenuine` | `LaggardsAreMarked`: what lags behind the data is marked, missed, or an edit is about to mark it; `MailsPaidFor`: each mail, sent or about to be, has a snapshot of its own that has become stale (an inequality of cardinalities); `GrantsSpentOnce` |

The safety properties are not inductive by themselves: `OneSenderPerKey` says nothing of the age of a
row, `HandledAtMostOnce` nothing of the age of the event, `LockHonoured` nothing of what a request has
read, `ScheduleKept` nothing of the uncommitted runs, `CapHolds` and `CapsHold` nothing of what has been
counted and not yet committed, `CursorNeverSkips` nothing of the syncs that will write the cursor,
`ListedIsGenuine` nothing of the packages in the making,
`ProIsPaidFor` nothing of the snapshots that are still to be written,
`KeepsOne` and `HolderSurvives` nothing of the deletes in flight, `ChargesWhatSucceeded` nothing of what is to
be set back. The invariants `IInv` add that (in `Ledger` it is
`TypeOK` and `Undisturbed`; `Backlog` in `RecurringProofs` and `PoolInOrder` in `AtMostProofs` come on
top of the `IInv`); each was model-checked on an instance before it was proved. `SentMeansAccepted` and `OneOwnerPerEvent` are proved
and have no run.

`PlaidSyncProofs` needs the last change of a transaction, which is the largest element of a non-empty set
of positions: its lemma `HasMax` takes it from the well-founded order on the naturals (a minimal element
of the reverse order) instead of an induction, which the provers cannot instantiate.

Only model-checked: liveness (`ReservationsEnd`, `CatchesUp`, `PayersGetPro`) and the counterexamples.
`NobodyWaitsForEver` of `Receipts` says that of the requests in flight one waits for no lock. Its `Waits(q)`
spells out, statement by statement, when `Proceed(q)` is not enabled for a request in flight, because the
provers cannot reason about ENABLED; TLC has compared the two in every state of the `receipts` run's
instance, and they agree. `OncePerPeriod`, like `SentMeansAccepted` and
`OneOwnerPerEvent`, is proved and has no run.

## 5. What is not modelled, and the plan

Modules that may follow, in this order:

1. `Invoices`: numbering with retries, the edit that reads the status and writes it later, and `/send`,
   whose UPDATE to 'sent' has no condition although its comment speaks of drafts.
2. `ConnectionPool`: the handlers outside `PlanUsage` that hold a client and await another (`DELETE
   /receipts/:id`, which holds a receipt's row when it does), several processes over one database, and the
   row locks of templates; no circular wait as long as such handlers are fewer than clients.
3. `RefreshTokens`, `RateLimiter`, `Migrations`: each a small module.
4. Pure algorithms with reference definitions: fiscal years, depreciation schedules.

Out of reach or out of interest: text parsing and matching, PDF layout, tax arithmetic that unit tests
reach, the web clients, cookie and password formats. They are most of the repository's lines. Of the
code that is modelled, these effects are left out:

- the mirror files of receipts (the bytes are in the row as well) and the counts in the responses of an
  import;
- recurring: the amounts and texts of a template, its accounts and categories, the projection of the next
  occurrences for display;
- bank feed: the link token, the counts of the import batch, the encryption of the token, the webhook's
  signature (the webhook changes nothing);
- plan usage: the mails about thresholds; the cap of an import is the cap on rows; the row locks of
  templates, which a manual run and a catching up hold as well;
- subscriptions: prices, currencies, the states unpaid and incomplete, the metadata's selections, the
  development-only mock, the mails;
- businesses: profiles, default accounts and categories, the files of a deleted business; the active
  business, the anchor and its snapshot, which a request reads first, are one step;
- exports: the contents of a package (its queries run on several connections, so one package may mix
  states; only what is certainly in it is followed), the plan checks, the tax id, and the local disk:
  `storage/exports` does not survive a redeploy and is not shared by processes.
