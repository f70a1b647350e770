# grot-backend in TLA+

grot-backend sells checks of vehicles and people. A user has a balance of money, pays for a
check, a worker takes it to an external provider, and the user downloads an Excel report. This
directory holds TLA+ models of the parts where money, queues and reports can go wrong, the TLC
runs that check them on small instances, and theorems about them that TLAPS checks for every
value of the constants. `PROJECT.json` says which definition models which lines.

    tlc -workers 2 -config MCBalance.cfg Balance.tla
    tlc -workers 2 -config MCApi.cfg MCApi.tla
    tlapm Balance_proofs.tla

## 1. The system

One Node.js process (NestJS) with PostgreSQL (Prisma), Redis (BullMQ), two providers reached
over HTTP, and files on a disk. Within the process everything runs on one event loop: code
between two `await`s is atomic, everything else interleaves.

| Component | Code | State | Operations | Modelled in |
|---|---|---|---|---|
| Balance and ledger | `balance.service.ts` | `users.balance`, `balance_transactions` | `debit`, `credit`, `debitByAdmin`, `creditByAdmin`, event `balance.updated` | `Ledger`, `Balance` |
| Check lifecycle | `check.service.ts` | rows of `checks` | `createCheck`, `processSubmit`, `processSync`, `failCheck`, `persistProviderResult` | `Settlement`, `CheckLifecycle` |
| Queue and worker | `queue/check/*` | BullMQ's queue `checks-single` | `enqueueSubmit`, `enqueueSync`, `ensureSubmit`, `ensureSync`, `process` | `CheckLifecycle` |
| Recovery | `queue-recovery.service.ts` | its two loops | `recoverPendingSubmits`, `recoverActiveSyncs` | `CheckLifecycle` |
| Batches | `batch.service.ts` | rows of `batch_checks` | `create`, `onCheckCompleted`, event `batch.updated` | `Batch`, `BatchData`, `Purchases` |
| Spreadsheet import | `batch.service.ts` 229-434, `check/utils` | none (one request's memory) | `readSpreadsheetItems`, `parseSpreadsheetRow`, `normalizeSpreadsheetDate`, `formatDate` | `Spreadsheet`, `BatchData` |
| Providers | `check/providers`, `stormfinder`, `duckdns` | outside | `submit`, `poll`, request builder, status and result mappers | `CheckLifecycle`, `Spreadsheet`, `ReportTables` |
| Reports | `report.service.ts`, `report/templates` | Excel files | `generateBatch`, `generate`, the four downloads | `ReportFiles`, `Batch`, `ReportTables`, `BatchData` |
| Prices | `check-price.service.ts` | `user_check_prices` | `getForUser`, `setPersonal`, `deletePersonal` | `Purchases` |
| Connection pool | `prisma.service.ts`, `$transaction` | connections in use, open transactions | statements, interactive transactions, `maxWait`, `timeout` | `Backend`, `Purchases` |
| Users, sessions, guards | `main.ts`, `user`, `auth` | `users`, sessions in Redis | `register`, `login`, `logout`, `getMe`, `changePassword`, `deleteById`, `AuthGuard`, `RolesGuard` | `Accounts` |
| Controllers, DTOs | `*.controller.ts`, `dto` | none | routing, validation | as far as a modelled operation needs it |
| Gateways | `*.gateway.ts` | sockets | pass an event on to a room | not modelled; when events are published is in `Balance` and `Batch` |
| Feedback | `feedback.service.ts` | `feedback_requests` | a form becomes a row | not modelled |

How they call each other: `createCheck` debits the price and inserts the row in one transaction,
then adds a submit job. The worker runs `processSubmit`, which calls the provider, writes its
answer and adds the first sync job; every `processSync` polls and adds the next one until the
answer is final. A rejected submit goes to `failCheck`, which refunds the price. When the check
belongs to a batch, the handler that wrote the final status calls `onCheckCompleted`; the one
that finds all siblings final completes the batch and writes its report. At startup the recovery
looks for active checks that have no job. Before any of it the session middleware and the guards
decide who asks; a purchase reads its price from `user_check_prices`; deleting a user takes his
checks, batches and prices along (`onDelete: Cascade`), but not his sessions and files.

What is hard about it, and the property that makes each part correct:

* Balance. The guard against a negative balance reads without a lock; the increment is atomic.
  Money is correct when the balance is the sum of the ledger whatever interleaves or rolls back.
* Lifecycle. A check has up to four drivers: the request, the worker's attempts, the polls, the
  recovery. Each reads the row, waits for a network, and writes it. A check is correct when it is
  paid once, then served or paid back once, and does not stay open for ever.
* Batch. Children settle at the same time and count each other with two queries that see
  different moments. A batch is correct when exactly one handler completes it, with the true
  numbers, and its report shows every child's final status.
* Requests. Each has several awaits, and a user may be deleted, repriced or logged out between any
  two of them; `createCheck` holds one connection of the pool and asks for others; Prisma rolls a
  transaction back while its callback goes on; two requests and a worker may write one file. The
  requests are correct when each is answered, the answer is true, money and what was bought for it
  agree, nothing of a deleted user is left, and no connection or lock is kept.
* Import and report. Nothing runs concurrently, but the data have edges: dates, rows with several
  subjects, reports with different columns merged into one sheet. They are correct when every
  filled cell becomes one check and every answer is found in the report under its own label.

The hazards, at the lines where they bite, are in `PROJECT.json`.

## 2. The modules

`Ledger` is the abstract specification of money: a balance and its row change together.
`Balance` is the code: a request begins (joining a transaction or opening one), reads the
balance, is refused or increments the row (and from then on holds its row lock), publishes,
commits or rolls back. `debit` and `credit` publish inside the transaction they are given, the
administrator's operations after the commit. PostgreSQL at READ COMMITTED: a read takes no lock
and sees what is committed, an UPDATE waits for the lock and applies to the newest row. The rows
of the ledger are kept as sums per user and status, which is what the balance depends on.

`Settlement` is the abstract specification of a purchase: bought, then served or paid back, once.
`CheckLifecycle` is the code of the services, the queue, the worker, the recovery and the
provider around one table of checks.

* A frame is one execution on the event loop: the request that creates a check, or the handler a
  worker runs. Every `await` ends an action. `failCheck`'s transaction is a read and a
  write-and-commit, since the read takes no lock.
* BullMQ: a job id exists once (adding it again does nothing); submit jobs have three attempts;
  a job whose lock expired is found stalled and run again once, then failed; delayed jobs become
  waiting; a finished job is removed.
* `hasPendingSyncJob` asks for waiting, active and delayed jobs one after the other, and jobs
  move meanwhile. The other three states it asks for (paused, prioritized, waiting-children) do not
  occur: nothing pauses the queue or uses priorities or flows.
* The provider is Stormfinder: submitting again with the same idempotency key finds the order
  made before. It advances on its own and reports any state of `Reports`.
* Faults: a call to the provider throws (`provider`), a statement or commit throws, applied or not
  (`db`), `queue.add` throws without (`redis`) or with (`redisLost`) the job added, the event loop
  is blocked for longer than a job's lock (`stall`), the process dies (`crash`).
* Left out: `check.updated` events, `completedAt` (set with a final status), the refusal for lack
  of money (in `Balance`), and deleting users and checks.

`Batch` is one batch. A child's path to its final status is abstracted to a job that either leaves
it active, with another job to come, or settles it; every `await` of `create`, of
`onCheckCompleted` and of `generateBatch` is an action, and the two counting queries of
`onCheckCompleted` run in either order. When `onCheckCompleted` throws in a submit handler the
catch of `processSubmit` calls `failCheck` and turns a DONE child into a FAILED one, as in the
code. Duplicate handlers of one check are the subject of `CheckLifecycle` and do not occur here.
Events are kept as the status they carry: a handler publishes the row its own update returned or,
after the report, the row it read again; `create` publishes the row as it was when it was QUEUED,
unless one of its statements or enqueues threw. A failing statement of `create` after its transaction
(`MarkQueuedThrows`) leaves a batch that is paid for and whose children have no jobs until a restart; an
enqueue that throws may have added its job.

`Shop` is the abstract specification of the accounts: join, buy, depart. The code beneath it is in
four modules over one state. `Backend` has the tables, the session store, the files, the pool, and
one frame per HTTP request; `Accounts` has the session middleware, the guards and the handlers of
`auth` and `user`; `Purchases` has prices, `createCheck` and `BatchService.create` up to their
commit; `ReportFiles` has the completion of a batch as far as its file goes, and the downloads.
`Api` composes them, adds failing statements, failing writes and crashes, and states the properties.

* A request arrives with a cookie, and `Arrive` loads its session. `resave: true` makes
  express-session store the request's copy when the response ends (`Leave`), whatever became of the
  stored one; a session that the handler saved itself is not stored a second time.
* A statement outside a transaction needs a free connection and ends at once, unless it waits for a
  row lock, as the UPDATE of a password and the DELETE of a user do. An interactive transaction
  keeps its connection. `Timeout` is Prisma's: no connection within `maxWait`, or a transaction
  rolled back after `timeout` while its callback goes on to a statement that throws. A ROLLBACK
  queues behind an UPDATE that waits for a lock. Waiting queries are served in any order.
* What a transaction writes is visible at its commit, so `Commit` changes balance and purchase
  together and the row lock is taken by `Debit`. The two DELETEs of `deleteById` are one
  transaction, of which the first locks nothing that others wait for. Cascades are two: `spent`
  (the costs of the user's checks and batches) and `personal`; `DocumentRow` says whether the row
  of a report is still there.
* Hashing a password and storing a session are steps of their own (`rehash`, `create`, `session`), so a
  request may fail or die between the INSERT of a registration and its session. Passwords, emails and
  prices come from small sets, and a registration makes the id named after its request.
* A file is a set of pieces, each with its writer, because no two workbooks have the same bytes (they
  differ in time stamps and in length). `writeFile` empties the file when it opens it (`OpenFile`) and
  writes from its beginning (`WriteFile`): of what another writer has written since, anything may be
  left, be it between its own bytes or as a tail (`Overwritten`). So `{<<r, "final">>}` is a whole final
  report, `{}` a file that was opened only, and two pieces are two writers mixed. A failing write or a
  crash leaves a part, or nothing. `got` is what a download was given; `disturbed` (history) are the
  documents whose last opener met another writer, or whose writing failed or was cut off since.
* Left out: failures of the session store, the base price's change (nothing but the seed writes it), session expiry, `isBlocked`
  (no guard reads it), a commit whose answer is lost, failures of the queue (a check that cannot be queued
  is paid back in `CheckLifecycle`), and a read of a file in several pieces.

`Spreadsheet` holds the pure functions of the import: headers, cells, dates as JavaScript computes
them, rows to items, items to the stored body, the subject's text and the provider's request.
`ReportTables` holds those of the report: the result mapper and the template of every module and
the merge of single reports into the batch's sheets. `BatchData` is the machine that runs them
over a file: rows are parsed one by one, the file is refused or its checks are created, providers
answer, the checks are merged one by one and the workbook is written. A cell has its kind, the text that
ExcelJS shows of it, and, where there is one, its day: a text in the form d.m.y or in ISO order has the
numbers in it, a date, a number or a text in any other form that `new Date` reads (`loose`: `2000`,
`5.6.99`, `Dec 25 1999`) the UTC day that comes out, which for local time is an input of the model. So an INN
may be a numeric cell, as `CellText` goes by the text alone. A text is kept as its
meaning ("a VIN", "an INN of ten digits"); the Russian headers are written VIN, FIO, DOB, PASSPORT, INN, IP
(НОМЕР ИП) and DOC_ID (НОМЕР ИЛ); two provider fields besides the VIN stand for all; styles and
unused code (`generateBatchLegacy`, `appendSingleReport`, `appendFailedCheck`) are left out.
Where the code filters a list in its order the models say which positions stay (`KeepAt`), and a loop
whose turns touch different sheets is a function of the sheet, so that nothing is recursive.

`MC...` modules give TLC its symmetry sets and, for `BatchData`, its files and answers.
Definitions marked "Mutant" change one mapped definition into a plausible bug. They are used by no
specification; `PROJECT.json` says which property finds which of them.

## 3. The runs

| Run | Configuration | What it shows |
|---|---|---|
| `balance` | 1 user, 3 requests, amounts 1-2 | `LedgerExplainsBalance`, `SettledEventsAgree`, `OverdraftNeedsStaleRead`, `EveryRequestAnswered` (a request is never stuck on a lock), refinement of `Ledger` (`KeepsPromise`) |
| `overdraft` | same | violated: `NeverOverdrawn` |
| `lifecycle_calm` | 2 checks, 2 workers, 2 faults of provider, db, redis | `RefundAtMostOnce`, `OneDriver`, refinement of `Settlement` (`KeepsSettlement`) |
| `lifecycle_faults` | 1 check, 2 workers, any 2 faults of all six kinds | `TypeOK`, `RefundFlagMatchesLedger`, `FailureIsPaidBack` |
| `lifecycle_crash` | 1 check, 1 worker, 4 sync ids, 1 fault of provider, redis, lost reply, stall or crash, fairness | `BoughtCheckSettles` |
| `double_refund` | 1 check, 2 workers, 1 crash | violated: `RefundAtMostOnce` |
| `batch` | 3 children, no faults, fairness | `TypeOK`, `ReportCoversBatch`, `CompletionCountsAll`, `BatchCompletes` |
| `batch_faults` | 3 children, any 2 faults of four kinds | `CompletedOnce`, `FailedMeansAllFailed`, `ToldOutcomeHolds` |
| `batch_running` | 2 children, no faults | violated: `CompletedHasOutcome` |
| `batch_stuck` | 2 children, 1 crash, fairness | violated: `BatchCompletes` |
| `batch_data` | files of up to 3 rows for all modules, every kind of cell and date | `TypeOK`, `EveryCellBecomesACheck`, `BirthDaysAreTheCells`, `RequestsCarryTheItems`, `EveryCheckIsShown`, `AnswersReachTheReport`, `NothingIsMixedUp` |
| `api` | 3 requests, 3 users, a pool of 2, 1 fault, fairness | `TypeOK`, `PaidIsStored`, `AnswersTellPurchases`, `PriceWasInForce`, `EverythingIsGivenBack`, `InsideIsKnown`, `OneAccountPerEmail`, `NothingIsLeftBehind`, `DownloadsInPeaceAreWhole`, `SessionsFollowLogins`, `EveryRequestAnswered`, refinement of `Shop` (`KeepsPromise`) |

The four violations are disagreements between the code and what it says of itself:

* `overdraft`: two debits read the same balance, both pass the guard of `applyChange`, and the
  second increment takes the balance below zero. `OverdraftNeedsStaleRead` shows this is the
  only way: a negative balance always comes from a debit whose read was out of date.
* `double_refund`: after a crash two chains of polls drive one check; both `failCheck`s read an
  active status before either writes, and the price is credited twice.
* `batch_running`: a handler counts, another completes the batch, the first writes its progress:
  the batch is RUNNING for ever although `completedAt` is set. The numbers at the moment of the
  completion were right (`CompletionCountsAll`); they are overwritten.
* `batch_stuck`: the process dies between a child's final status and `onCheckCompleted`. The
  job that is run again finds the child final and returns, the recovery looks at active checks only.

### Bounds

* `Requests` of three: two that race and a third that moves while they hold or wait for the lock.
  One user, since nothing relates two users' rows. Amounts 1 and 2, so that one of two debits may
  fit and the other not.
* `SyncIds` is the number of sync jobs that exist at a time. A check with one driver has at most
  two, the one that runs and the one it scheduled: `lifecycle_calm` has two per check, and `OneDriver`
  holds there. With one check and three ids `lifecycle_faults` and `double_refund` see two chains of which
  one is between two polls; beyond the bound they do not look. `lifecycle_crash` has four. Its property makes
  no exception for the bound: a handler that wanted to add a poll and found no free id would stop and
  violate it, so with one worker and one fault four ids are always enough, although a crash and the
  recovery's scan may leave two chains. With two workers they would not be.
* `MaxFaults` counts all faults together. Two are enough for a failure in the handling of a
  failure, and for a failure and a crash. `lifecycle_crash`, without symmetry and with fairness, has one.
* Three children: two that race to complete and one that is still counted by neither. Three rows
  and a spreadsheet's distinct columns are enough for a repeated subject between other rows, and
  for a report that adds columns to a sheet that two others have written.
* `Scenarios` of `api`: every three calls, with repetition, of one group (money, cookies, people,
  reports), and every two of all calls. Calls of a group share rows, sessions or files; three are
  two that race and one that changes what both have read. With a pool of two, two `createCheck`s
  hold all connections and both ask for another: the deadlock that only the timeout resolves.
  Prices 0 and 1, and an opening balance of 2, which a batch of two rows uses up. One fault, since
  nothing here handles a failure by a step that could fail.
* Dates: days 0-32 and months 0-13 in eight years, chosen for leap days, the year 1900 that is no
  leap year, the year 2000 that is one, and years below 100, which `Date.UTC` reads as others.

### Fairness

`Balance` has weak fairness on every step of a request, which may also be its roll back. `Api` has
weak fairness on every step of a request and on Prisma's timers; requests come when they like. A
connection or row lock is contended only as long as requests are open, of which there are finitely
many, so weak fairness is enough. `CheckLifecycle` and `Batch` have weak fairness on every step of
a request, a handler and the recovery: the event loop runs every
callback whose promise has settled, and the database, Redis and HTTP client answer or fail within
their timeouts. Weak fairness on timers, on BullMQ's search for stalled jobs, on the restart
(`restart: always` in `docker-compose.yml`) and on the provider, which settles an order
eventually. Strong fairness on taking a job: a worker slot is free again and again, not always,
and BullMQ hands out waiting jobs in order. Faults are never fair. Properties under fairness are
checked without symmetry.

## 4. The proofs

`Balance_proofs` proves, for any finite or infinite set of users and requests and any amounts: types;
`Conservation` (the balance is the sum of the ledger); `Refinement` (of `Ledger`); `EventsSettle`;
`OverdraftIsARace`. The invariants are not inductive alone. `LockInv` says that a request between
its UPDATE and its commit holds its user's lock and that nobody else does, so what the UPDATE
returned is still what the commit writes. `GuardInv` says that a request about to update
saw enough money, so a balance below zero after a commit means the read and the row differ.

`CheckLifecycle_proofs` proves, for any checks, workers, faults and bounds: types;
`FlagMatchesLedger`; `FailuresArePaidBack`. The typing invariant `IInv` adds which answers a frame
may hold in which place (`AnswerInv`) and what the queue holds (`QueueInv`). The money argument
(`MoneyInv`) rests on four facts of the code: only `failCheck` writes FAILED; it writes nothing
when it read FAILED; when it read DONE the check had been delivered before; and otherwise the
refund and its flag are written in one commit. It holds with any faults, although refunds can come twice.

`Batch_proofs` proves, for any number of children and any faults: types; `BatchIsCompletedOnce`;
`FailedBatchHasFailed`; `OutcomesAreTold`. The second needs that a count of FAILED children that found all of them
stays right, because FAILED is never left. The third adds
that a handler that holds a final status to tell has been through `WriteReport` (`ToldInv`). Under
the assumption `Calm` (no statement and no file
fails; crashes and Redis failures may) it also proves `CompletionIsRight` and `ReportIsComplete`:
the two counts are taken at different times, but each is never too high, and a child counted
final stays as it is, so counts that add up to all children mean that all are final
(`NumbersAddUp`). Without `Calm` the claim is false: a DONE child can become FAILED after it was counted.

`CalmLifecycle_proofs` assumes that no process dies, no job's lock is lost and an enqueue that throws
added nothing; the provider, the database and enqueues may fail as often as they like. Then
`NobodyInterferes` (`OneDriver`), `RefundsAreSingle` (`RefundAtMostOnce`) and `LifecycleSettles` (the
refinement of `Settlement`) hold for any checks and workers. The recovery never runs (`NoRecovery`); an active job
belongs to exactly the handler that runs it (`LockInv`); so of a check there is one frame or one
pending job (`AloneInv`), because each step that adds a job is the last of its frame. What one frame
read is then still so when it writes, and `SettledInv` says that a check that may still be served or
paid back was neither. `double_refund` shows that the assumption is needed.

`Api_proofs` proves every safety property of `api` for any requests, users, prices, documents, pool
size and number of faults. Each step either decides (moves a request on) or has an effect on one
table, and `Decision` and `Effect` separate the two, so that an invariant about a table
looks at the few actions that write it. `IInv` is the types with what a request in each place may
hold (`PlaceInv`). `PoolInv` says that a connection is held exactly in an open transaction or a
waiting statement, and a row lock only before a commit; from it, a user whose row is locked exists
until the commit, which gives `MoneyInv` (`PaidIsStored`, `NothingIsLeftBehind`) and the refinement of
`Shop`. `FreshInv` says that the ids of registrations to come are unused. `Told` follows what an
answer may say in each place, `Loaded` what the stored session was, `Fair` and `Priced` which prices
were in force, `Drafted` what the drafts contain. `DownloadsAreRight` (`DownloadsInPeaceAreWhole`) rests on
`Filed`: in a file that is not `disturbed` there is at most one writer; while he writes, the file is
empty, and afterwards it holds his piece and no other, because opening it took everything else away;
and no piece in any file is of a batch that was not completed.

`Spreadsheet_proofs`, `ReportTables_proofs` and `BatchData_proofs` prove every property of `batch_data`
for uploads of any size, with any cells, and any answers. The first two hold lemmas about the operators, each
for all its arguments:

* `KeepAt` keeps the chosen elements in their order (`KeepAtProperties`); a row's items are one for
  each filled column (`RowItemsProperties`); `NormalizeDateProperties`: a date that `normalizeSpreadsheetDate`
  returns is a day of the calendar, that of a text d.m.y is the text's, and that of any other cell the UTC
  day JavaScript reads in it; `DaysAreAccepted`: it refuses no day of the calendar, but for the
  years 0 to 99, which `Date.UTC` takes for others. Both need JavaScript's arithmetic: the year found for
  a day (`YearOf`) and the length of its months agree with the Gregorian rule for leap years, and the years
  and months follow each other without a gap or an overlap.
* `RenderProperties`: a template's sheets have headers without repetition, no row wider than its header, and say
  what the mapper kept of the answer. `EnsureHeadersProperties`: a merge adds the new labels on the right,
  keeps the old columns in their places and repeats none. `AppendSheetProperties` and
  `AppendFailedRowsProperties`: a merge that did so keeps every row that was there under the same labels.

`BatchData_proofs` has the inductive invariant of the machine, in four parts. `ImportInv`: the items
are those of the rows above the one that is parsed (`Imported`: as many as filled cells, in their order, each
showing its cell), and nothing is stored before the file was read to its end. `ChecksInv`: check k is the one
of item k, and a DONE check's result is what the mapper made of its own answer. `StatusInv`: the checks
before `next` are final. `WorkbookInv`: on every sheet (`Holds`) the checks merged so far have
rows of their own, by an injection from checks to rows; every row belongs to a check and shows nothing or
what that check's report says; and every report merged is shown whole. The injection is what
the invariants themselves do not say: two checks with the same text and status would not tell whether each has a
row. Lemmas that would be inductions over positions of a sequence are proved with the least
counterexample (`SetInduction`).

Two things came out of these proofs. In `ItemOf` the guards of the two kinds of FIO items overlapped for
the bankruptcy module, so that the value was left to TLC's order of evaluation; the model now has disjoint
guards, as the code has two branches. And that a merge loses nothing rests on a template's header having no label
twice: all templates keep to that, `ensureBatchHeaders` does not ask for it.

Assumptions are the named ones of the modules: constants are disjoint, fault kinds are known,
children are a finite non-empty set, amounts are natural numbers, bounds too, every row of an upload is as wide
as its sheet (`UploadsAssumption`, what ExcelJS returns), and an answer's lists are lists of objects with
text fields (`AnswersAssumption`; a nested or missing value is one of those texts). TLC evaluates each in the runs.

Only model-checked: liveness (`EveryRequestAnswered` of both models, `BoughtCheckSettles`,
`BatchCompletes`), which is out of the prover's reach. All other properties of the passing runs are theorems,
five of them under an assumption on the faults that a violated run shows to be needed or that is named
above (`Calm`, and no crash in `CalmLifecycle_proofs`). `BoughtCheckSettles` under more than one crash is not
checked at all.

## 5. Limits

* Crashes: `lifecycle_crash` allows one. BullMQ fails a job that stalled twice, so with two crashes
  during the same job a check may stay open until a later restart; that is not checked.
* Failing statements: `BoughtCheckSettles` is checked without them and would be violated. When the
  `findUnique` at the start of `processSync` throws, which no `try` surrounds, the job has no second
  attempt and nothing schedules a poll: the check stays open until a restart. With two workers it is
  not checked either (Bounds).
* Files: `completedAt` is set before the report is written, `writeFile` empties the file when it opens it,
  and nobody locks it. So a download may pass the guard, find the file and be answered 200 with nothing,
  with a part, or with two reports mixed, where `src/API_REQUESTS.md:316-317` promises the XLSX. The
  model does all of this; `DownloadsInPeaceAreWhole` promises a whole report only when no writer is at
  work and the last one was alone and not cut off, and nothing premature in any case. `readFile` is one action. `Overwritten` is coarser than a disk: it keeps or loses a writer's
  piece as a whole, and does not tell a part at the front from one at the end.
* The 101-job window of `getJobs`, DuckDNS's missing idempotency key and statuses outside the documented
  ones are hazards in `PROJECT.json` without a property. `check.updated` events are not modelled; the
  order of `batch.updated` events is not restricted by the code, so a belated QUEUED or RUNNING may be
  the last one a client sees.
* An answer the limitation schema refuses finishes no check: `BatchData` guards for it, `CheckLifecycle`
  has no provider that always fails.
* Dates: the documentation and the message of the refusal ask for a date of Excel or `ДД.ММ.ГГГГ`
  (`src/API_REQUESTS.md:262-263`). The code hands any other text to `new Date` and stores the day that
  comes out, 03.03.2023 for 2023-02-31. The runs have such cells, and `BirthDaysAreTheCells` says what is
  stored for them; that they are not refused is a disagreement of the code with its documentation.
* Owners and other fields that a mapper keeps but the Excel template does not print are not followed.

### Not modelled

* Feedback: one row per form, whose reads and writes depend on no other row. The gateways: one `emit` per call.
* Validation of request bodies, Swagger DTOs, the wording of labels, styles of the workbooks.
* `generateBatchLegacy`, `appendSingleReport` and `appendFailedCheck` of the report service, which
  nothing calls.
* `src/prisma/__generated__`: three quarters of the repository's TypeScript is Prisma's generated
  client, types without behaviour of their own. What it does (statements, transactions, timeouts) is
  modelled from how the services use it, so the share of all lines that `PROJECT.json` maps stays low
  although nearly all services are covered.

## 6. Plan

Done, in this order: `Ledger`, `Balance`, `Settlement`, `CheckLifecycle`, `Batch`, `Spreadsheet`,
`ReportTables`, `BatchData`, the proofs of the first three machines; then `Backend`, `Accounts`,
`Purchases`, `ReportFiles`, `Shop`, `Api` with proofs of all their safety properties, the proofs of the calm
lifecycle, and the events of `Batch`; then the import and the report without recursion, and the
proofs of all their properties.

Left:

1. `check.updated` events, in the way `Batch` has `told`.
2. A provider without idempotency keys and one that always fails, in `CheckLifecycle`.
3. Two crashes during one job, and a queue larger than the window of `getJobs`.
4. The theorems of `CalmLifecycle_proofs` under a weaker assumption, such as crashes only while no handler runs.
