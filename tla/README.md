# Mwalimu Cosmetics: formal verification project

TLA+ modules, TLC runs and TLAPS proofs about the software in `src/`: a web
back end, an agent in the shop that keeps it in step with the shop's MySQL, and
the screens and tills around them. `PROJECT.json` lists the components, the
runs, the source lines behind every definition, and the hazards the properties
are for.

## 1. The system

The shop's tills (FumasV5, a vendor's program, not in this repository) share a
MySQL 5.1 database on the shop LAN. The web back end (`apps/back`, Express and
Prisma over Postgres) cannot reach it. Everything that crosses over goes
through one process in the shop, the sync agent `bridge/pusher.js`, started
every few seconds by `bridge/loop.js`, which refuses to overlap two runs. The
agent pushes copies up and pulls work down; the back end never calls it.

| Component | State it keeps | Operations | Hard behaviour | What makes it correct |
|---|---|---|---|---|
| Collection tickets (`routes/tickets.ts`, `pushTickets` and the ticket branches of `applyPendingChanges` in `pusher.js`) | MySQL `tickets`, the Postgres copy `Ticket`, `PendingChange` rows | `/ready`, `/collect`, `/sync`; push, fetch, apply, mark | handlers interleave at every await, a press races a push, answers are lost, the agent dies mid-cycle, an outdated agent polls the same queue | the copy is never ahead without a press behind it, applied means landed, a settled card does not bounce, the shop's ticket goes ready once and closes once, every press is settled, copy and shop agree in the end |
| Ticket links and announcer (`routes/tickets.ts`, `bridge/tickets/announcer.js`) | `TicketLink`, `tg_chat_id`, `announced_at`, `notified_at` | webhook, links, claim; announce, notify, link | two timers over one table, rows selected and acted on later, killed between speaking and stamping, codes reused each day | a scan is never lost, a customer follows only their own slip, a ready customer is called and messaged |
| Display screen (`routes/display.ts`, `front/app/display`) | the `seen` set in the browser | poll, call out | reload, ready before first poll | each ready code called once per screen |
| Pending-change queue (`routes/sync.ts`, `applyPendingChanges`) | `PendingChange` | queue, hand out oldest 50, apply by type, mark | non-idempotent types retried, half-written documents, one change blocking the window | every change settles; its effect happens once |
| Web sale write-back (`writeBackSales`, `routes/pos.ts`) | `SalesOrder.mysqlSynced`, `pos_header`, `stran` | fetch, write rows, mark | numbers taken by tills meanwhile, no transaction, mark lost | one receipt per sale, stock moved once |
| Mirror and backup (`routes/mirror.ts`, `daily-mirror.js`, `daily-backup.js`) | `mirror_*`, watermark, pause flag | upload a date table by table in chunks, advance | failures mid-date, chunks replacing each other | below the watermark the mirror equals the source |
| Attendance clock (`routes/clockings.ts`, `lib/clockPin.ts`, `pullClockings`) | tries, lock, `Clocking`, the shop's copy | press, claim a try, toggle, pull | bursts of presses, lock races, find-then-create | five tries per lock, one open shift per person, copy equals original in the window |
| Orders and stock (`routes/orders.ts`, `pos.ts`, `inventory.ts`, `purchases.ts`) | `SalesOrder`, `Product.stockQty` | place, cancel, fulfil, receive | read-then-write under read committed, webhook twice | stock never below zero, restocked once |
| Payments (`postGrnPayment`, `ar-payment.js`) | AP/AR ledgers | check, number, post in a transaction | check outside the transaction, lost mark | never overpaid, ledgers balanced |
| Product and metrics sync (`buildProducts`, checkpoint file) | cached stock totals | build, push, save | delta added twice, two writers of one file | totals equal the ledger |
| Agent loop and self-update (`loop.js`, `checkForUpdate`) | pid file, running flag | start, replace itself | two loops starting together, dying half-updated | one agent at a time, never a half-installed one |
| Sale posting and money (`packages/fumas-core`) | the till's transaction, `nauto` | price, number, post | rounding, numbers taken beside other tills, a COMMIT whose answer is lost | debits equal credits to the cent, no number used twice |
| Desktop till (`apps/desktop`) | the screens, `currentUser`, the settings, the line of statements at the connection | sign in, tap, complete, look up, save settings | every answer is late: the user, the screen or the database may be another by then | booked for whoever pressed, with what was tapped |
| Accounts (`routes/auth.ts`, `dashboard/admin`) | `User`, `PasswordReset`, a token per browser, the Staff page | roles, switches, links, PINs, slips | tokens outlive roles, handlers of several statements overlap | an admin is left, slips are live, links die |
| Web dashboard (`front/app/dashboard`, `routes/sync.ts`) | per page: its rows or its form, what is on its way, loops that poll | ask, show, fill, send, poll, refresh | answers overtake each other, connections break after the work was done, loops outlive what they were started for | shown is what was asked for; recorded once; the number and the "complete" are its own |
| The rest: catalogue, tags, homepage, mail, uploads, reports, stubs, one-off scripts, the vendor's schema | single rows | CRUD, formatting, I/O | little beyond a database row | not modelled, see section 8 |

The components meet in four places: the agent's cycle (push, then attendance,
then the queue, then web sales, in that order on one connection), the
`PendingChange` queue that the board, the stock page and the payment pages all
write, the `tickets` table that tills, agent and announcer all write, and the
dashboard's pages, which see all of it through answers that come late.

## 2. Plan and modules

Ordered by how much of the shop's daily work depends on it and how little of it
a test reaches. All are in this directory; the last column is what is still
worth proving, section 7 says what is proved.

| # | Modules | What they model | To be proved next |
|---|---|---|---|
| 1 | `CollectionTickets`, `TicketLifecycle` | board, presses, push and write-back of collection tickets; the abstract life of a ticket | done but for liveness |
| 2 | `TicketAnnouncer` | scans, links, the two timers | done but for liveness |
| 3 | `ChangeQueue` | every other kind of change, by the way it is applied and fails | done but for liveness |
| 4 | `Mirror` | watermark, chunks, pause, two programs at it | done but for liveness |
| 5 | `WebSales` | orders, counter sales, one shelf, the way into the shop's books | done |
| 6 | `TillSale` | pricing, numbering and posting of a sale on several tills | done |
| 7 | `TillDesk` | one till's screens, session, settings and line of statements | done |
| 8 | `Clockings` | tries, lock, shifts, the pull into the shop | done but for liveness |
| 9 | `ShopScreen` | the board's ready numbers, and the page that calls them | none: its property is one of liveness |
| 10 | `AgentLoop` | pid file, loops, agents, self-update | done but for liveness |
| 11 | `SyncCycle`, `WebPages`, `WebJobs`, composed in `MCDashboard` | the refresh and what it sets off; lists and forms; pages that poll | done |
| 12 | `Accounts` | roles, switches, reset links, PINs, slips, customer records | done |

Every module that needs functions on model values, symmetry or several scenes
has an `MC` module that says so; the others take their constants from the
`.cfg`. Eight `...Proofs` modules hold the theorems: `AgentProofs` those about
`ChangeQueue` and `AgentLoop`, `StaffProofs` about `Clockings` and `Accounts`,
`TillProofs` about `TillSale` and `TillDesk`, `DashboardProofs` about row 11, the others about the
module they are named after. Two modules that one proof module extends share no
name; hence `LoopSpec`, `AccountsSpec`, `DeskSpec` and the like. No module has a recursive
operator.

`AgentLoop` discharges what `CollectionTickets` and `ChangeQueue` assume, that
one agent runs, and says when it does not hold; `WebSales`, `Clockings` and
`Mirror` run two at once for that reason.

## 3. Modules and the code

`PROJECT.json` maps each definition to its lines. Common to all: a request
handler is cut at its awaits; `faults` (or `broken`, `slips`) counts lost
messages, failed statements, crashes, each costing one; variables and constants
commented "history" and "bound" are not the program's.

### TicketLifecycle

The abstract specification: a ticket is issued, goes ready at most once, closes
at most once, and the name of whoever closed it is never overwritten. It is
what `create-ticket-tables.js`, the comments of `tickets.ts` and the tills all
take for granted, and it says nothing of boards, queues or agents.

### CollectionTickets

| In the model | In the code |
|---|---|
| `shop`, `closedBy` | MySQL `tickets.state`, `collected_by` |
| `board` | Postgres `Ticket.state` |
| `queue` | `PendingChange` rows of the types `ticket_ready` and `ticket_collected`; `status` as in the table |
| `desk[s]`: `FindTicket`, `QueueChange`, `MoveCard` | one request to `POST /tickets/ready` or `/collect`, cut at its awaits |
| `call[c]`: `ReadHeld`, `UpsertRow`, `AnswerPush` | one request to `POST /tickets/sync`: the held set is read once, then rows are upserted one by one |
| `pc`, `snap`, `rest`, `on`, `todo` | an agent's cycle in `pusher.js`: `SelectTickets`, `SendSlice` (`pushTickets`); `FetchChanges`, `ApplyChange`, `Report...` (`applyPendingChanges`) |
| `Stale` | agents from before the ticket types, which the server still hears from (`sync.ts`, `AGENT_TYPES`) |
| `...Dies`, `...Fails` | a failed statement, a lost or late answer, a killed process |
| `TillIssue`, `TillReady`, `TillCollect`, `TillCancel`, `NextDay` | outside `src/`: the tills and the calendar |

Of a ticket only its state and who closed it are kept. Slices are taken in any
order where the code follows the select's. Whether a push covers today or the
catch-up days is chosen freely each cycle, where the code goes by a timer: the
model's agent does everything the code's does, and more. A push whose request
never arrives is not told apart from one refused.

### TicketAnnouncer

| In the model | In the code |
|---|---|
| `shop` | `tickets.state`, with collected and cancelled as `CLOSED`; moved by `ShopStep` as `TicketLifecycle` allows |
| `follower`, `called`, `told` | `tg_chat_id`, `announced_at`, `notified_at` |
| `links` | `TicketLink` rows, oldest first; `slip` is the ticket really scanned, of which the row keeps the code only (`CodeIn`) |
| `beat`: `SelectReady`, `Say`, `StampCalled`, `SelectFollowed`, `Send`, `StampTold` | the `beat` timer: `announce`, then `notify`, cut at every await |
| `poll`: `FetchLinks`, `FindTicket`, `Attach`, `Answer`, `StampAnswered`, `Claim` | the `poll` timer: `link` and `linkChat` |
| `Scan` | the webhook's `handleTicketStart` |
| `ConnectionLost`, `Killed`, `SayFails`, `SendFails`, `AnswerFails`, `ClaimFails` | connection errors and query timeouts, the process ending, errors swallowed by `say`, `notify`, `reply` and `link` |
| `calls`, `heard`, `applied` | history |

`Today(code)` is evaluated by each statement anew, as `curdate()` is. Rows fit
a pass in any order (`ORDER BY ready_at` is left open). A code is an opaque
value that several days share. A connection lost ends the beat pass under way
and leaves the scans that find none unclaimed; the statement in flight may have
landed.

### ChangeQueue

| In the model | In the code |
|---|---|
| `queue` | `PendingChange` rows of all types but the tickets'; `QueueChange` is `POST /sync/pending-changes` |
| `pc`, `todo`, `step` | `applyPendingChanges`: fetched changes in order, the statements of the one at hand |
| kinds | `adjustment`, `document` (returns, goods received: row by row), `payment` (checked, then in a transaction), `print`, `backup`, `command` (errors caught inside), `update` (`fumas_update` with its `break`s), `mirror` (queues its next batch), `unknown` |
| `whole`, `part` | complete and abandoned postings of a change in MySQL, receipts printed |
| `paid`, `read` | what the ledger says was paid, and the balance read before the transaction |
| `Bill`, `Slack` | an invoice's total, and the half shilling a payment may exceed it by (`pusher.js:1836`, `ar-payment.js:147`), in units of half a shilling |
| `late`, `ReportLost`, `ReportIgnored`, `LateMark` | reports that are not answered, and those that arrive after the agent gave up |

### Mirror

| In the model | In the code |
|---|---|
| `copy["keyed"]`, `copy["dated"]` | the `mirror_*` tables with and without a key; a table of a day is its chunks of up to 500 rows |
| `run[r]`: `StartRun`, `ChooseDay`, `SendChunk`, `CloseRun` | `runDailyMirrorBatch` of the agent and `main` of `daily-mirror.js`: read the watermark, go through the days, write it |
| `call[c]`: `UpsertKeyed`, `DeleteDate`, `InsertChunk` | `POST /sync/mirror/rows` |
| `paused`, `mark` | the pause flag, `last_mirrored_date` |
| `exposed` | history: days uploaded by two runs at once, or begun again behind the watermark; only of a day that is neither is a keyless table promised |

### WebSales

| In the model | In the code |
|---|---|
| `order`, `stock` | `SalesOrder`, `Product.stockQty` |
| `req[r]`: `CheckOrder`/`CommitOrder`, `SellAtCounter`/`TakeLine`, `ReadForCancel`/`CommitCancel`, `ReadForProcess`/`CommitProcess` | `POST /orders`, `POST /pos/sale`, `POST /orders/:id/cancel`, the Telegram button; each read and the write that rests on it are two steps |
| `agent[a]`: `Fetch`, `WriteHeader`, `WriteLine`, `MarkSynced` | `writeBackSales`, with `nextNo` read once per batch |
| `owner`, `lines` | `pos_header` rows, by the receipt numbers in use, and how many lines were written under each |
| `spoilt` | history: a cancellation and another press of the same order overlapped, Telegram's button was pressed for a cancelled order, or a counter sale broke off between its lines |

### TillSale

Money is in cents, as `money.ts` has it. `AddLine` and `Vat`, `LineRevenue`,
`Ceiling`, `Credits`, `RoundingDr`, `RoundingCr` and `Balanced` are the sums of
`sale.ts` and `buildGlLegs`; `Check`, `BumpCounter`, `ReadCounter`,
`InsertHeader`, `Commit` are `postSale`, with the row of `nauto` locked by
`holder` and a second receipt of one number refused by the unique key.
`LegacyRead` and `LegacyPrint` are a FumasV5 till, outside `src/`, which takes a
number without locking.

### TillDesk

| In the model | In the code |
|---|---|
| `session`, `conf`, `file`, `desk[g].line` | `currentUser`, the settings, the `Database` objects and the queue of statements each keeps (`connection.ts`) |
| `screen`, `allowed`, `cart`, `busy`, `panel`, `receipt` | React state of `App.tsx`, `pos.tsx`, `screens.tsx`; `panel` is `useLoader` |
| `Tap`/`CostAnswered`, `Complete`/`SaleChecked`/`NumberTaken`/`Posted` | a tap waits for its cost; a sale is three turns in the line |
| `SaveSettings`, `SaveFails`, `CloseWindow`, `PoolClosed` | `config:save`, a pool that has ended, the window closed |
| `unsaved` of a sale | history: the settings in force at the press had not been written |

`MCTill` runs the two as scenes, as `MCDashboard` below does its three.

### Clockings

| In the model | In the code |
|---|---|
| `fails`, `lock` | `clockPinFails`, `clockPinLockedUntil` |
| `press[p]`: `Claim`, `Refuse`, `Clear`, `FindOpen`, `TurnOver` | `POST /clockings`, cut at its awaits |
| `Tap`, `GiveUp`, `Leave` | the tablet: one press at a time, fifteen seconds |
| `pull[a]`: `Export`, `Upsert`, `DeleteGone` | `pullClockings` over `GET /clockings/export`, the short window or the long |

### ShopScreen

`Board` is `GET /display/state`; `Ask`, `Arrive` and `PollFails` a poll of
`display/page.tsx`, which does not wait for the one before; `seen`, `queue`,
`Announce` and `FallSilent` the page's. The server's tickets move as in
`CollectionTickets`, set back by a push under way included.

### AgentLoop

| In the model | In the code |
|---|---|
| `lock`, `Start`, `WriteLock` | `loop.pid`, the check and the write in `loop.js` |
| `running[l]`, `agent[l]` | the loop's flag, and the child it started, which may outlive it |
| `CheckForUpdate`, `FetchSidecar`, `WriteSidecar`, `FetchPusher`, `WritePusher` | `checkForUpdate` in `pusher.js`: modules first, then itself; a file is emptied before it is filled (`Torn`) |
| `files`, `version`, `Deploy`, `Restart` | the server's files and the constant it was started with |
| `unguarded`, `behind` | history: loops that started across each other, or could not write their pid, have been there since the last time none was up; a download of the modules failed, was cut off in the middle, or was overtaken by a deploy, and none has succeeded since |

### SyncCycle, WebPages, WebJobs

`SyncCycle` is a press of Refresh and a run of the agent: `TakeRefresh`,
`ReadProducts` (`buildProducts`, with the stock of the checkpoint plus the day's
movements), `BuildMetrics`, `PushMetrics` and `POST /sync/metrics`
(`DeleteDay`, `CreateSnapshot`), `SyncProducts`, `SaveCheckpoint`; `Press` and
`PollLatest` are `requestRefresh` of the dashboard. A total carries, as history,
the ledger it was read from (`of`), how many movements of each day have entered it
(`counted`), and how many entered it once more (`again`), so that its truth is a
statement about one reading, however old.

`WebPages` is one tab of the dashboard. The pages share two shapes, which the
model states once: a list asks and takes whatever answer comes, a form is
filled and sent by a button. What differs from page to page is a record: what
makes it ask, whether it says it is loading, what an error leaves behind; what
the button needs, what filling in a field empties, what a success clears. There
is one record for each of seventeen lists and six forms, the receipt link
`r/[token]` among them.

`WebJobs` is the two pages that poll: `CompleteSale` to `PrintOnOfficePrinter`
for the receipt and its number (`dashboard/pos`), `StartMirrorBatch`,
`ResumeIfActive`, `PollProgress` for the upload of the history.

The three share no state. `MCDashboard` has a variable `scene` that picks one
of them at the start and keeps it, so that a run explores their sum and not
their product. The pages that poll are two scenes, and so is the refresh: a day
less with pushes of an old agent, or all the days without.

### Accounts

| In the model | In the code |
|---|---|
| `account`, `pin`, `link`, `visitor` | `User` rows of staff, `clockPinHash`, `PasswordReset`, a customer's `User` and `Customer` rows |
| `session` | the role in the token each browser keeps |
| `call[c]` | a handler of `routes/auth.ts` between two statements: `Patch`/`PatchWrite`/`PatchTidy`, `Forgot`/`ForgotDelete`/`ForgotCreate`, `Reset`/`ResetSpend`, `Issue`/`IssueWrite`, `IssueMissing`/`SheetWrite` |
| `page[p]`: `IssueShown`, `SheetShown`, `HidePin` | the Staff page: the digits it shows once, the sheet, the buttons it keeps down |
| `overlap`, `halfway`, `unheard` | history, each of persons: two requests over one were in hand at once; a switching-off broke off between its two statements and was not done again; a PIN was written and the answer lost |

## 4. Runs

Each `.cfg` gives the constants; the counts are of distinct states.

| Run | Instance | Properties, and what they show |
|---|---|---|
| `Tickets` | 1 ticket, 1 staff, 1 agent that starts outdated, 2 overlapping pushes, 2 presses, 1 fault, 2 days, fair; 150 000 | `BoardAheadIsBacked`: no card runs ahead of the shop without a press behind it. `ShopKeepsLifecycle`: the refinement of `TicketLifecycle`. `ProtectedUntilSettled`, `AppliedNeverBounces`: a card is not set back while its press is known to be pending, nor after it landed. `PressSettles`, `BoardConverges`: every press is settled and copy and shop agree in the end |
| `Announcer` | 2 tickets, 2 phones that both scan one slip, passes of one, 1 fault, fair; 440 000 | `CalledOncePerFault`, `FollowerKept`, `ReadyIsCalled` although more are ready than a pass takes, `ScannerHears` |
| `ChangeQueue` | 3 changes of any kind, 2 handed out per poll, 2 faults, fair; 1.0 million | `AppliedIsWhole`: applied means the whole document is in the books. `RepeatsCostFaults`: every further copy is owed to a fault of its own. `NeverOverpaid`: not by more than the half shilling the checks grant, however often a payment is applied again. `SettlesUnlessStuck`: every change settles but behind an update with nothing to stage |
| `Mirror` | agent and nightly task, 3 days, the first of two chunks, pause, 1 fault, fair; 860 000 | `KeyedComplete` and `DatedExactUnlessExposed` below the watermark; `CatchesUp`, although the watermark may be set back |
| `WebSales` | 2 requests at once, 2 orders over 1 unit, 2 presses, 2 runs of the agent, 1 fault; 2.2 million | `SyncedMeansWritten`: what the web shows as synced is whole under that number. `SecondReceiptsCostFaults`: every receipt beside the first is owed to a fault. `ShelfMatchesOrders`: what is missing is what the standing orders took, unless `spoilt` |
| `Till` | the two scenes of `MCTill`: 2 new tills and a FumasV5 one, 2 baskets of up to 2 lines, VAT 16 %, 1 fault; 2 users, 2 databases, 2 taps, 2 sales, 5 other presses, 1 fault; 1.9 million | `JournalBalances` to the cent, rounding below a shilling; `NumbersDiffer`; `BookedAsPressed`; `PicksReachTheReceipt` |
| `Clockings` | 2 requests at once, 2 tries per lock, 3 wrong PINs, 2 agents pulling at once, 1 fault, fair; 390 000 | `ComparesPerLock`, `OpenShiftsCostFaults`, `ClocksInTheEnd`; `CopyCatchesUp`: the copy comes to equal the record, although an older export may delete what a newer one brought |
| `ShopScreen` | 3 tickets on 2 days, 2 overlapping polls, answers of one number, 1 fault, fair; 410 000 | `ReadyIsCalled` |
| `AgentLoop` | 2 loops, 2 deploys, 2 faults, fair; 82 000 | `TwoAgentsNeedRaceOrKill`, `RunsWithItsModules`, `UpdatesArrive` |
| `Dashboard` | the five scenes of `MCDashboard`: 1 sale, 2 presses of Refresh and 1 fault, over 2 days with an old agent's push or 3 without; 3 questions of each list, forms sent twice, 1 broken connection; 3 sales; 2 uploads; 2.4 million | `StockOffByRereads`, `RefreshedAfterPress`, `ShownIsLastAsked`, `RecordedTwiceNeedsBreak`; `LoopsTellTheirOwn`: a receipt's number and "Batch complete" are of the sale and of the run that was started |
| `Accounts` | an admin and one who may become one, a customer, 3 PINs, 2 of 3 requests at once, 1 fault; 1.3 million | `LockoutNeedsStaleAdmin`, `DeadSlipNeedsOverlap`, `LinksDie` |
| `StockCache` | 1 sale, 2 refreshes of one day, no fault | `CacheIsTheLedger` is violated: a comment says that losing the cached totals loses nothing but the cache; the day's second sync counts the first one's movements again, which the full query would not |

Several properties name the very circumstance under which the code lets them
down; the property's comment says which. It is kept in one of three ways:

- a count of faults, where each loss is owed to a fault of its own
  (`CalledOncePerFault`, `RepeatsCostFaults`, `SecondReceiptsCostFaults`,
  `OpenShiftsCostFaults`, `RecordedTwiceNeedsBreak`); `AppliedNeverBounces` alone
  speaks of the time before the first fault;
- a mark on the person, day, receipt, question or wait it happened to (`overlap`,
  `halfway`, `unheard`, `exposed`, `hasty`, `unsaved`, `overlapped`, `mixed`, `amid`),
  which excuses nothing of any other;
- one mark for what all share: `spoilt` for the shelf, `stale` for the admins,
  `unguarded` and `behind` for the agent's machine. The last two are taken
  back: when no racing loop is left, when the modules have been downloaded again.

Where the repository says that the circumstance cannot arise, section 6 tells what
happens.

Why the bounds are enough. Every guard here compares one actor's read with
another's write, so two of each actor make every race; limits (passes, windows,
chunks, tries) are set to one or two so that they bite. Two of something that
can be confused (numbers, days, databases, PINs, sales) give every confusion,
and a third where the second is still in the way (three questions of a list,
three changes behind a window of two). One fault reaches every single failure,
two the failure of a recovery, where the state space allows. Tickets do not
interact in `CollectionTickets` but through slices and the window, so one
carries the races. Larger instances were checked beside the runs: two tickets a day
apart in slices of one, two staff and an outdated agent beside a current one;
`TillSale` with two faults (3.8 million); `TillDesk` with six presses (11 million)
and with three taps (9.4 million); `Mirror` over four days (6.6 million); the pull of
`Clockings` over two shifts with two faults; the refresh with two sales and three
presses over three days (8.3 million). A stock needs three days: a movement of a day
without a reading is only missed on the next.

Symmetry is used only in runs without temporal properties. Bounds such as
`MaxChange`, `LastDay`, `MaxFault` and `MaxMishap` only stop new work and new faults.
`CHECK_DEADLOCK FALSE` is set where a behaviour ends when its bounds are spent,
or the system may be idle: nobody presses anything. `Tickets` and `Announcer`
check for deadlock: their agents and timers never stop.

The type invariants of `CollectionTickets`, `TicketAnnouncer`, `AgentLoop`
(`LoopTypeOK`), `ChangeQueue`, `Clockings`, `Mirror`, `WebPages` (`PagesTypeOK`),
`WebSales`, `TillSale`, `TillDesk` (`DeskTypeOK`) and `Accounts`
(`AccountsTypeOK`) are theorems; those of the other modules were checked with the runs'
instances. So were the strengthenings the proofs rest on, before they were proved.
Every property of a run has a
mutant, the `mut_` definition beside the one it replaces, a plausible slip of
the code under which TLC finds it violated.

## 5. Fairness

Safety needs none. Where there is liveness:

- `CollectionTickets`: a handler that can go on does (Node runs every callback
  it has), the agent that can take a step does (`loop.js` starts it every few
  seconds), days go by; strongly, a slice that can be sent is, and the catch-up
  push is selected again and again (it falls due every fifteen minutes by the
  clock; an agent with the refresh flag set may fetch without a push, and such
  cycles alone would starve it).
- `TicketAnnouncer`: each timer goes on: `beat` and `poll` set themselves again
  after every pass, in a `try` whose `catch` does not return.
- `ChangeQueue`: the agent takes its steps. Nothing is assumed of the dashboard.
- `Mirror`: each runner starts again (the nightly task comes round, the button is
  pressed) and handlers run to their end.
- `Clockings`: requests are served, locks pass, an admin issues a missing PIN,
  whoever sees the board turned over leaves, the agent pulls and,
  strongly, with the long window once in a while; whoever came to clock in taps
  again, strongly, since wrong PINs and locks come between.
- `ShopScreen`: the interval, the call and the nine seconds go on; the server
  answers.
- `AgentLoop`: the scheduled task starts a loop, the loop's timer its agent, a
  deploy ends with a restart of the server, an update goes on; strongly, an agent
  looks for its next version (once a minute by the clock, whatever runs end
  in between).

Nothing is assumed of tills, staff, customers or faults; faults are bounded.

## 6. What the code does otherwise than expected

Found while modelling. The first list is of what a comment, message or screen
of the repository says; the second of behaviour worth a maintainer's attention.
The stock cache is shown by a run of its own. Marked (TLC) is what TLC finds on the
smallest instance, without a fault unless one is named, when the property without its
exception is put in the place of the one listed; the rest was read in the code.

Against a comment or a message:

- `display/page.tsx:19-20`: every number that goes ready is called. From the
  second day on (line 125 and `seen`) a number the page has used before is
  not (TLC); the order is "they became ready" by line 151, newest first by
  `display.ts:70`.
- `tickets.ts:215`: a ticket whose change is still queued is not dragged backwards.
  One queued after the push has read the held set is, while still pending
  (TLC); the card returns with the next push after the press lands.
- `tickets.ts:349-351`: a failed press reverts with the next push. On a ticket
  older than the catch-up window none ever comes.
- `tickets.ts:419`: "a second press is answered rather than queued". Two requests
  that both read OPEN both queue; the UPDATE's guard makes the second harmless.
- `announcer.js:348`: yesterday's slip, scanned today, attaches to today's ticket
  of that number; `:47` a message Telegram refuses is stamped as sent, and the
  second route `POST /tickets/notify` is called by nothing; `:377-379` a customer
  who scans when the goods are ready can be told by both timers (no run checks
  this); `:382` a scan answered just before midnight stamps the next day's
  ticket, whose customer is then never messaged.
- `clockings.ts:155-156`: one open shift per person "by construction". A press the
  tablet gave up on and the next one can both find none (TLC, one lost answer).
- `mirror.ts:529`: "full-replace" only upserts. `mirror.ts:214`,
  `daily-mirror.js:301`: of a table without a key that comes in several chunks
  only the last stays.
- `auth.ts:344-345`: two people following one link cannot both succeed. Nothing
  enforces it: both have read the link as unused (TLC). A placeholder e-mail is to be
  corrected "later", by no route there is. `dashboard/admin/page.tsx:411`: the
  shop cannot lock itself out; two admins can, since a token says for seven days that
  its bearer is one (TLC).
- `pusher.js:2019-2022`: the queue moves by itself, on every cycle. The `break` at
  `:994` holds it up, for as long as the update request has nothing to stage.
- `history/page.tsx`: "Batch complete" may be said of an error (its body has no
  date), of another queued run or of the nightly task; the batch started after it is
  complete at its first poll; a poll without an answer judges the old snapshot
  ("Paused"); a mirror that has caught up lets the button wait twenty minutes.
- `dashboard/page.tsx`: a refresh can show figures read before the press, when a
  run that had read them was still to write them.
- `pusher.js:456-457`: losing the cached stock totals "only loses the cache". They are
  not what the full query says: from a day's first sync on they contain that day's
  movements, which its second counts again (`StockCache`), and movements after a day's
  last sync are never counted.
- `orders.ts:213`: "Order already cancelled". Two cancellations at once both pass and
  both restock (TLC).

Worth attention:

- Stock: a ledger that could not be read is pushed as stock 0; a product
  build that failed is not tried again for four hours; the checkpoint is written
  from what was read at the start of the run; old agents' figures replace accurate
  ones when two pushes overlap (`pusher.js:451-472`).
- Orders: Telegram makes FULFILLED of CANCELLED (`orders.ts:283-291`); two orders checked at once
  oversell; a sale written and not marked is written again under a second number
  (`pusher.js:1664`); a web sale whose payment row failed is reported synced
  (`pusher.js:1642-1646`).
- Payments: half a shilling over the invoice is accepted (`pusher.js:1836`,
  `ar-payment.js:147`).
- Agent: the check and the write of `loop.pid` race, a pid given to another
  process blocks the loop for good, an exit handler removes another's file; a
  `pusher.js` cut short while it is written cannot start or mend itself; a deploy
  amid an update mixes versions, and a module that failed to download stays old
  until the next version.
- Till: a login whose query of the rights fails leaves the main process signed in;
  the rights of the user before linger until the answer; settings that cannot be
  written stay in force over the old connection; a session of one database is used
  on another after a save; items tapped while a sale is recorded are wiped, or slip
  into the next basket; a screen left in the middle of a sale may ring it up twice;
  the payment mix sums what was tendered, change included; unbalanced entries are
  looked for by `jtdate`, the day's summary by `trandate`.
- Dashboard: the number of an earlier sale can land on a later receipt; edits made
  while a submit is pending are wiped with it; a goods payment keeps its invoice
  picked with the old balance; nothing queued from a form carries a key by which a
  repetition could be told; error bodies are shown as figures (zeros on the History
  summary) or end in "Backup failed"; "Backup complete" is said as soon as today's
  directory exists, and a backup asked just before midnight lands under the next
  date and times out on the page.
- Accounts: two first sign-ins at once can make two `Customer` rows for one address;
  a switching-off that fails between its two statements (`auth.ts:392` and `:405`) leaves
  that person's reset links open, though the login cannot use them while it is off.
- `mirror_run` reports its planned days as done after an error, and a paused batch
  as complete; `runPaymentSelfTest` is called by nothing.

## 7. Proofs

Every theorem is proved from the assumptions on its module's constants alone
(`ConstantsOK`, `QueueConstantsOK` and so on: kinds of values, numbers that are
naturals); the one further hypothesis, `OneAgent`, is said below. Each has the
same shape: an inductive invariant, kept with the properties in the component's
module and checked there by TLC first; one lemma per action or group of them;
and a last step that concludes by temporal logic.

`CollectionTicketsProofs` (1451 obligations) holds for every set of tickets,
staff, agents (outdated ones among them), concurrent pushes, batch and window
size and number of days, presses and faults:

- `TypeCorrect`: `Spec => []TypeOK`.
- `BoardAheadOnlyIfBacked`: `Spec => []BoardAheadIsBacked`.
- `AppliedChangesLanded`: `Spec => []AppliedHasLanded`.
- `ShopImplementsLifecycle`: `Spec => ShopKeepsLifecycle`, the refinement of
  `TicketLifecycle`. Each step of an agent or a till maps to a step of the
  abstract ticket, all others to stuttering.
- `ProtectedCardStays`: `Spec => ProtectedUntilSettled`.
- `AppliedStays`: `Spec => AppliedNeverBounces`, if no two agents differ
  (`OneAgent`). `AgentLoop` proves when that is so.

Neither invariant is inductive: a push in flight carries states read long ago,
and a handler moves the card long after it read it. `TicketsInv` adds what
crosses the gap: what an agent selected and what a request carries is never
ahead of the shop (`SnapInv`, `CallInv`; the shop only moves forward), a handler
about to move a card has its change in the queue (`DeskInv`), a ticket on the
board or in the queue exists in the shop (`BoardInv`, `QueueInv`), and an agent
about to report a change applied has seen the current one land (`AgentInv`).
The queue only grows and its rows keep ticket and kind, so a backing press is
never lost; that a backing press cannot be an applied one follows from
`QueueInv`, because an applied press has brought the shop up to it. One lemma
per group of actions shows that `TypeOK /\ TicketsInv` is preserved, with the
shop's forward-only steps and the queue's growth stated once. `AppliedStays`
needs more: until a fault, an agent waits for each of its slices and none is
under way that nobody waits for (`SliceInv`), and what an agent has selected but
not yet sent is not behind the board, unless a press on it is pending, nor behind
any applied press (`CarriedInv`); together `PushInv`.

`TicketAnnouncerProofs` (820 obligations), for every
set of tickets, codes, phones and days, every pass size, and every number of
scans and faults:

- `TypeCorrect`: `Spec => []TypeOK`.
- `CalledOnceAndWhenReady`: `Spec => []CalledOncePerFault`.
- `ClaimedScansWereApplied`: `Spec => []ClaimedWasApplied`.
- `FollowerNeverReplaced`: `Spec => FollowerKept`.

The inductive invariant is `AnnouncerInv`. `FoundInv` is the part that needed
finding: the UPDATE of `tg_chat_id` has no condition on the follower and asks
for the date anew, so what `linkChat` checked may concern another ticket than
the one it writes. While a scan stands between the two, every ticket of its code
*from today on* is followed by nobody or by that chat; a later day's ticket is
not issued yet (`ShopInv`), so nobody follows it, and the calendar only narrows
the set. `BeatInv` and `CallsInv` say that a row on its way to be called is not
stamped, and that the one call a fault could repeat stands between `Say` and its
stamp. `ClaimInv` follows a scan through the list of those done.

`AgentProofs` (1407 obligations) is about the queue's `Spec`, for every set of kinds,
amounts and bill, and any number of changes, faults and builds:

- `TypeCorrect`: `Spec => []TypeOK`.
- `AppliedWhole`: `Spec => []AppliedIsWhole`.
- `NotOverpaid`: `Spec => []NeverOverpaid`, with the slack the checks grant.
- `CopiesCostFaults`: `Spec => []RepeatsCostFaults`.

`HandInv` says how far the change in hand has come, `LateInv` that a report under
way tells the truth. A count of copies against faults is not inductive until the
copy to come is charged too: `FaultsCover` counts, with the copies too many, one
for each change that has landed and is to be applied again. It counts pairs of a
change and a copy and not a sum, which the provers can follow: a step that adds a
pair takes a fault.

and `LoopSpec`, for every set of loops and every number of deploys and faults:

- `LoopTypeCorrect`: `LoopSpec => []LoopTypeOK`.
- `OneAgentUnlessRaceOrKill`: `LoopSpec => []TwoAgentsNeedRaceOrKill`.
- `ModulesComeFirst`: `LoopSpec => []RunsWithItsModules`.

The inductive invariant is `AgentLoopInv`. `LoopInv` holds whatever is killed, as long as
the machine is not `unguarded`: one loop at most is not down, the pid in the file is
its own once it is up, and an agent has its loop, whose flag knows of it, or has
outlived it. `DiskInv` needs no such condition: unless modules are being written or were
left `behind`, those on the disk are as new as any `pusher.js` that is run, held, or
being written, and no newer than the server's; a kill or power cut inside the
writing of the modules is what puts them behind, one outside it is not.

`MirrorProofs` (1731 obligations), for every set of runners and requests and every
number of days, chunks and faults:

- `TypeCorrect`: `Spec => []TypeOK`.
- `CompleteBelowMark`: `Spec => []KeyedComplete`.
- `ExactUnlessExposed`: `Spec => []DatedExactUnlessExposed`.

`RunInv` keeps a run behind the day that is still sold on, `CallInv` ties a request
to the run that waits for it, `KeyedInv` has every row either copied or in the
request waited for, so far as a run has come; it is why a watermark set back does
no harm. `DatedInv` is about who may delete: a day outside `exposed` has one
upload at most under way, none once it is behind the watermark or a run. The
attempt to prove it showed where `exposed` had first been stated too narrowly.

`WebSalesProofs` (2480 obligations), for every finite set of requests, every set of
runs of the agent and of baskets, every window, and any number of orders, presses and faults:

- `TypeCorrect`: `Spec => []TypeOK`.
- `SyncedWritten`: `Spec => []SyncedMeansWritten`.
- `ReceiptsBounded`: `Spec => []SecondReceiptsCostFaults`.
- `ShelfMatches`: `Spec => []ShelfMatchesOrders`.

`AgentInv`: two runs of the agent that write at once write under different numbers,
since a header that is refused makes its run skip the sale; `BooksInv`: a mark
that is late speaks of a receipt that is whole. That the next number is free
needs the numbers in use to have a bound (`NumbersInv`). `ReceiptsInv` counts with the
receipts of a sale those to come: one for each run that still has to write it, and one
if it waits with no run at it. `ShelfInv` and `PressInv`: until the shelf is spoilt, a
request that read an order to cancel it is alone with that order, which stands, and one
that processes has nobody cancelling beside it. What orders come to is stated as the number of their units,
each under its line and its order (`Tagged`), since a sum by recursion is out of reach;
`TaggedAdd`, `TaggedChange` and `FirstLine` say how it grows and shrinks. That requests
at once never place more than `MaxOrder` orders is the count of those checked (`Room`).

`TillProofs` (3046 obligations), for every set of tills and goods, every tax and
tender, and any number of baskets, receipts and faults:

- `TypeCorrect`: `Spec => []TypeOK`.
- `TillNumbersDiffer`: `Spec => []NumbersDiffer`.
- `EntriesBalance`: `Spec => []JournalBalances`.

`NumberInv`: who holds the row of `nauto` is the one who raised the counter and has not
read it yet, so that what another till has in hand is less than what is read.
`MoneyInv`: the net of a basket is revenue plus VAT less discount, line by line, so
that its gap is what the total was rounded up by; a receipt that is posted is one more
in the book, since its number is in none. The lemmas about rounding (`Quotient`,
`TaxWithin`) are long division.

and `DeskSpec`, for every set of users, rights, databases and keys, and any number of
presses, sales, saves and faults:

- `DeskTypeCorrect`: `DeskSpec => []DeskTypeOK`.
- `SalesAsPressed`: `DeskSpec => []BookedAsPressed`.
- `PicksKept`: `DeskSpec => []PicksReachTheReceipt`.

A sale is as its receipt must be from the press on, so `DraftInv` says of every sale in
a line what the properties say of receipts. At the press, the session is the user shown
because nobody is shown while a sign-in is on its way, and one sign-in at most is
(`LoginInv`, `Alone`); the object in use names the database of the settings unless these
were not written when they came into force, which the sale then bears as `unsaved`
(`LineInv`); and until somebody is hasty the basket and the items on
their way make up what was tapped, with nothing on its way while a sale is (`BasketInv`).
That a screen which was left, or a second sale, does not empty a later basket is `Alone`
again: one live sale at a time, and only while the till is busy. The lemmas `OneMore`,
`MovingOn`, `GoingOn`, `Dropping` and `LetGo` say what each operation on the lines leaves
in them.

`StaffProofs` (3390 obligations) is about the clock's `Spec`, for any requests and agents
at once and any number of tries, PINs, wishes and faults:

- `TypeCorrect`: `Spec => []TypeOK`, that shifts stay within `Shift` included.
- `TriesBounded`: `Spec => []ComparesPerLock`.
- `OpenShiftsBounded`: `Spec => []OpenShiftsCostFaults`.

`OpenInv` counts with the open shifts those that requests in hand may still open:
the tablet's own, and each it gave up on, which cost a fault (`Strays`). `WantsNext`
does the same for all shifts ever opened.

and `AccountsSpec`, for every set of people, visitors, PINs and requests at once, and
any number of requests, links and faults:

- `AccountsTypeCorrect`: `AccountsSpec => []AccountsTypeOK`.
- `AdminUnlessStale`: `AccountsSpec => []LockoutNeedsStaleAdmin`.
- `OneLinkWorks`: `AccountsSpec => []LinksDie`.
- `SlipsWork`: `AccountsSpec => []DeadSlipNeedsOverlap`.

A change that is not stale is asked for by an admin who still is one: if it is about
another's row his own stays, if about his own it changes nothing of it. `LinkInv`: the
one request that makes a link for a person is alone with that person's links, and
finds none open when it comes to make it. `SlipInv`: one request at most is at a
person's PIN, and carries digits that work; who is on a sheet is staff, so that an
enrolment, which draws a PIN without asking, cannot overtake one. All three speak of
persons outside `overlap` only, and `Begin` puts one there as soon as a request finds
another at work: the exclusion is not assumed, it is what is left. A failed statement
does not end them: it marks the one person whose switching-off it broke (`halfway`), or
whose new PIN nobody was told (`unheard`).

`DashboardProofs` (2380 obligations), about `MCDashboard`'s specification, for every
number of days, sales, presses, pushes, questions, entries, uploads and faults:

- `StockOfTheLedger`: `DashboardSpec => []StockOffByRereads`.
- `FreshIsAfterPress`: `DashboardSpec => []RefreshedAfterPress`.
- `PagesTyped`, `LastAskedShown`, `RecordsCostBreaks`: `DashboardSpec =>` `[]PagesTypeOK`,
  `[]ShownIsLastAsked`, `[]RecordedTwiceNeedsBreak`.
- `LoopsKeepToTheirOwn`: `DashboardSpec => []LoopsTellTheirOwn`, of `OwnReceiptNumber` and
  `OwnRunComplete`.

The scenes bound only what a run explores: the refresh with old agents has a day
less than `LastDay`, whatever `LastDay` is. The refresh: `StockInv` says
of the checkpoint, of what a run has read and of the catalogue that the total is the
number of the movements counted in it plus those counted again, and that none is
counted which the ledger did not have; `TotalAdds` that a total grows by a day's
movements (a cardinality, since a sum by recursion is out of reach).
`RefreshInv`: if nothing read before was on its way at the press, whatever is on its way to be
written, or written since, was read after it. The pages: until two questions overlap one
at most is open, the last (`AirInv`, `ListInv`); a request at the server counts as
recorded, and the one in the form has cost a connection for each time before
(`EntryInv`, `PostInv`, `BlankInv`). The pages that poll: `ReceiptInv`, `WatchInv`.

Only model-checked: liveness (`BoardConverges` and the like), which is out of the
prover's reach. Every safety invariant that a run checks is proved.

## 8. Not modelled

- Catalogue, tags, homepage, customers, suppliers, banking, mail, uploads,
  reports and the AI routes: updates of single rows, formatting, calls to outside
  services. The public shop pages, layout and navigation of the front end. The
  worker and POS stubs. One-off scripts run by hand (`restock-report.js`,
  `create-sale-limits.js`, `provision-db-user.js`) and the C# harnesses. The vendor's schema
  and routines, which enter as external actions.
- Collection tickets: the read-only routes, columns other than the state, the
  unique keys on `receiptno` and `receiptToken` whose violation fails a whole
  push, on every cycle (`tickets.ts:278`); a webhook that acknowledges a scan it
  failed to record (`tickets.ts:103`); the announcer's `--no-speak`,
  `--no-telegram` and `--once`.
- Display: the photos. Two of them created at once may share a place in the order,
  and two moves that overlap leave the list half done.
- Mirror and backup: the reference tables, the reports read from the mirror, a
  watermark that arrives late, the files of a backup and the button's wait.
- Orders: `inventory.ts` and `purchases.ts` (single increments), messages. Express
  4 drops what an async handler without a `try` throws: the request then hangs,
  which the models count as an answer lost.
- Sales: tender kinds, the choice of ledger accounts, negative discounts and
  tenders (nothing rejects them), and the check of the period, which precedes the
  transaction. At the till a COMMIT whose answer is lost is rung up again
  (`pos.tsx:115`), and figures can arrive late for what the screen shows
  (`screens.tsx:17`): both happen in the models and no property is about them.
- Till: printing, the search box, payment modes, charts; the settings opened from the
  login screen; signing out is one step; settings saved again for the same database,
  which opens a new pool. `fumas-core`: the old
  password cipher and the figures of the reports.
- Dashboard: `LoadMirrorStatus` answers or refuses, and leaves out a network failure
  (`history/page.tsx:338`), after which the page is as it was.
- Accounts: Google's token check (its token is not used by the front end),
  hashing, layout; the PINs of a sheet whose request failed half-way
  (`auth.ts:440`) are written and shown to nobody, which the model does and no
  property forbids.
