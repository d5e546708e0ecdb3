# Arkain: models and proofs

A TLA+ development kept beside Arkain, the multi-marketplace seller back
office (TypeScript on Node, Prisma on PostgreSQL). It models the parts of the
program where order, overlap and failure decide whether the data stays right:
the order sync with its marketplace adapters and their HTTP calls, the connect
flows, the orders page, the import of order sheets, the pull scripts, the B2B
purchase orders, the sales journal, the metrics, and the accounts with the
server's limiters. TLC checks the models on small instances; TLAPS proves, for
every value of the constants, the types and the safety properties of all of
them (section 4).

Paths below are those of the repository (`src/sync/...`); `PROJECT.json` has
the lines each definition stands for.

## 1. The system

### 1.1 Parts

| Part | Code | State it keeps | Operations |
|---|---|---|---|
| Order sync engine, scheduler | `src/sync/orderSyncEngine.ts`, `src/main.ts` | the `running` flag; a cycle's local variables | `tick`, `syncAll`, `syncConnection`, the manual `POST /api/sync/run`, `loadConnections` |
| Domain store | `src/domain/repository.ts` | `Order`, `OrderItem`, `SyncRun`, `MarketplaceConnection`, `Product` rows | `upsertOrders`, `recordSyncStart`, `recordSyncFinish`, `getLastCursor`, `listActiveConnections`, `updateOrderStatus`, `upsertConnection`, products |
| Naver adapter | `src/integrations/naver/` | none but the cursor it hands out | `fetchOrders`: changed lines of a window, details in batches, fold into orders |
| Coupang, ESM adapters | `src/integrations/coupang/`, `src/integrations/esm/` | none but the cursor | `fetchOrders`: windows x sites x statuses x pages |
| HTTP transports, retry | `src/integrations/*/*.http.ts`, `retry.ts` | the Naver token cache | signed requests, `withRetry` |
| Connect flows, credentials | `src/connect/`, `src/secrets/credentialStore.ts` | encrypted credential of a connection | `connectNaverSeller`, `connectCoupangSeller`; `put`, `get` |
| B2B purchase orders | `src/domain/b2b/` | accounts, price lists, purchase orders | price upsert, create, submit, approve, reject, fulfil, cancel |
| Accounting | `src/domain/accounting.ts` | ledger accounts, partners, journal entries | `postSalesJournalEntry` |
| North-star metrics | `src/domain/northStar.ts` | none (five queries) | ageing, cash conversion, quote conversion, health score |
| GS Shop import | `src/imports/gsshop/` | none | parse a sheet, group its rows into orders |
| Accounts, sessions | `src/auth/` | sellers, reset tokens; a signed cookie | signup, login, company code, reset |
| Rate limiter, alerting | `src/auth/rateLimiter.ts`, `src/alerting/notifier.ts` | hits per key, last alert per key | `consume`, throttled notify |
| Tenancy | `src/tenancy/tenantContext.ts`, `prisma/` | none in the process | set the tenant in a query's transaction |
| Status tables | `src/domain/status.ts` | none | raw status to unified status |
| Web pages | `src/web/` | in the browser: filter, table, the order shown | load, open, save, sync; the connect wizards |
| Pull scripts, local JSON store | `src/scripts/`, `src/storage/localStore.ts` | three JSON files | page through, merge, record the run |
| Routes, configuration, logging | `src/app.ts`, `src/config/`, `src/logging/` | none | validate, call |

### 1.2 How they interact

The scheduler's timer calls `syncAll` every interval; `POST /api/sync/run`
calls the same function and ignores the scheduler's flag. A cycle loads and
decrypts every active connection, then takes them one by one: it writes a
`SyncRun` row, reads the last successful cursor, and repeats *fetch a page from
the adapter, upsert its orders, move the cursor* until the adapter has no next
cursor or `maxPagesPerCycle` is reached, and closes the row with the cursor.
The cursor on file is the only thing that survives from one run to the next.
An adapter sees the marketplace through several requests a page, each a
snapshot of its own. The routes of the B2B module call `B2BStore`, each
operation two queries. `postSalesJournalEntry` and `computeNorthStar` are
exported and tested but not yet called by the program.

A connect wizard posts a credential; the route has it verified by the
marketplace, seals it and replaces the connection's row, which the *next* cycle
opens; the wizard then asks for a sync. The orders page and the sync meet in
the `Order` rows only: the seller sets a status, the next page of the sync that
holds the order sets it again. The GS Shop import writes the same rows through
`upsertOrders`. The pull scripts use the adapters, but a store of their own.

Node runs one callback at a time, so two activities interleave exactly at
`await`s: that is the grain of every action in the models. The database
executes one query (or one `$transaction`) at a time as far as these parts can
tell: each upsert of an order is one transaction; nothing longer is.

### 1.3 What is hard, and what makes each part correct

- **Sync engine.** Cycles overlap; any awaited call may throw; the process may
  exit between two of them; a page is a snapshot that ages until it is written.
  Correct if ticks never overlap, a resume skips nothing, the store only moves
  forward, one connection's trouble is not another's, and the store converges.
- **Naver.** Lines change while a window is read; lists are cut off; details
  come in batches that cut orders in two. Correct if what a sweep has passed is
  on file, and an order keeps its lines.
- **Coupang, ESM.** Orders move between the lists while they are read one after
  the other; pages are numbered. Correct if a sweep meets every order there was.
- **Purchase orders.** Read, decide, write, with nothing held in between.
  Correct if orders are priced from one list and approvals leave a trail.
- **Journal.** Find, then create, six queries apart, repeated after failures.
  Correct if a sale is posted once, and in full.
- **Transports.** Retries nest; a token may expire under way. Correct if a call
  ends after a bounded number of fetches and delays, and a token that was
  checked is good when it is used.
- **Connect flows.** The credential is replaced under a cycle that has the old
  one; the encryption key changes between two processes; verifying, sealing and
  upserting are apart. Correct if nothing is ever opened for a connection that
  its marketplace has not called valid, only a cycle under way still has an old
  credential, and a reconnect heals the connection.
- **Orders page.** Answers arrive in any order while the seller clicks on.
  Correct if a save names the order he had before him and reports what is on
  file, and the table is that of the filter above it.
- **GS Shop import.** Rows of an order stand anywhere in the sheet; an upload
  may break off between two orders. Correct if every order on file is what one
  sheet says of it, and an answered upload has stored or reported every row.
- **Pull scripts.** A file is read whole, truncated, then rewritten, and one that
  cannot be read counts as empty. Correct if runs that follow one another,
  however they end, lose nothing of a file that was not itself hit.
- **Accounts.** Find, hash, insert; a reset code checked, then used several
  awaits later, beside another reset or a newer code. Correct if signups that
  succeed are distinct, the newest code works, and a code works once, in time.
- **Limiter, alerting.** Windows that slide and forget. Correct if no interval
  lets through more than its share, and nobody is kept out longer than that.
- **Metrics.** Five queries without one snapshot; FIFO ageing at the boundaries
  of its buckets; axes without a value. Correct if each won of an invoice is in
  one bucket or paid, the score lies between its axes but for what doubles lose,
  and the computation throws only if a quote moved between two queries.

`PROJECT.json` lists each hazard at its line, with the properties that cover it
or the reason none does.

## 2. The modules

| Module | What it is |
|---|---|
| `OrderSync` | the engine and the scheduler over the store, at every await |
| `OrderMirror` | the abstract specification: a store that lags behind the marketplace and only moves forward |
| `NaverOrders` | the Naver adapter, its mapper, and the store's replacement of an order |
| `StatusSweep` | the Coupang and the ESM adapter: sweeping lists by status |
| `PurchaseOrders` | the B2B store under concurrent requests |
| `SalesJournal` | posting a sale to the journal, concurrently and repeatedly |
| `Connections` | connecting a seller beside the cycles that use what was loaded |
| `OrderDesk` | the orders page, its calls and the rows the sync rewrites |
| `Statuses` | the tables of order statuses |
| `GsShopImport` | parsing, grouping and storing an order sheet |
| `NorthStar` | the metrics as functions of five answers of a moving store |
| `PullScript` | the pull scripts over their JSON files |
| `Transport` | one marketplace call: `withRetry`, the Naver token, which answers are retried |
| `Accounts` | signup and account recovery by concurrent requests |
| `SlidingWindow`, `Limits` | the limiter's window, as operators; the limiter and the throttle over time |
| `Components`, `Services`, `Seller` | the modules side by side (section 2.14) |
| `MCOrderSync`, `MCNaverOrders`, `MCComponents`, `MCServices`, `MCSeller` | the values of the constants for TLC |
| `OrderSync_proofs` | theorems about `OrderSync` and `OrderMirror` |
| `NaverOrders_proofs`, `StatusSweep_proofs`, `SalesJournal_proofs`, `NorthStar_proofs` | theorems about the module of that name |
| `Components_proofs` | about `PurchaseOrders`, and the three parts of `Components` |
| `Services_proofs` | about `Accounts`, `Limits`, `Transport`, and `Services` |
| `Seller_proofs` | about `Connections`, `OrderDesk`, `PullScript`, `GsShopImport`, and the parts of `Seller` |

### 2.1 OrderSync

A *cycle* is one call of `syncAll`; `Tick` holds the activations of the timer's
callback, `Manual` those of the route. `cyc[p]` is what `syncConnection` keeps
in local variables: where it is (`pc`), the connections still to do, `since`,
`cursor`, `pages`, the page fetched and the cursor that came with it.

| Action | Code |
|---|---|
| `BeginTick`, `End` | `tick`: the flag's check and setting, its `finally` |
| `BeginManual` | `POST /api/sync/run`, which calls `runSync` |
| `Load`, `LoadFails` | `loadConnections`: `Promise.all` over the credentials |
| `Skip` | a marketplace without adapter: a failed summary, no run |
| `StartRun`, `StartFails` | `recordSyncStart`, outside the `try` |
| `ReadCursor`, `ReadCursorFails` | `getLastCursor`, outside the `try` |
| `Fetch`, `FetchFails` | `adapter.fetchOrders` |
| `UpsertOrder`, `UpsertFails` | `upsertOrders`: one transaction an order |
| `EndPage` | the cursor moves on, the loop's condition |
| `Finish`, `FinishFails` | `recordSyncFinish` "success", inside the `try` |
| `RecordFailure`, `RecordFailureFails` | the `catch` block, and its own failure |
| `EndCycle` | `syncAll` returns |
| `Change`, `TimePasses`, `Crash` | the marketplace, the clock, a process exit |

*Abstractions.* An order is its version number. Time is counted in query
windows: a page is what changed in one window and a cursor is the next one;
the pages inside a window belong to the adapter models. `PagesLeft` is the
loop's cap on a cycle's pages. `Since` stops at 0 because the model's time does:
the code's lookback has no such bound, and nothing changed before 0. `runs`
keeps the `SyncRun` rows in the order they were started, less those no query
returns any more (comment at the variable), so that the state space is finite. A
cycle holds one page of its own; nothing else is shared but the tables and the
flag.

### 2.2 NaverOrders

One run at a time, one seller. The clock advances with every change, so a line's
version is its time of last change. `AskStatuses` takes the window's end,
`AnswerStatuses` the lines changed in it by the time Naver answers and the next
cursor (the rest of a cut-off list, else the next window, else none), each
`QueryDetails` the present details of one batch, folded by the mapper into
orders of *that batch's* lines; `UpsertOrder` deletes an order's items and
creates those it was given; `EndPage` is the engine's loop, up to `PagesLeft`.
Where Naver cuts its list is unknown to the adapter, so it is any place
(`Answers`).

`file` is what the store holds; `seen` is a history variable: the last version
of a line that reached the store. The two are apart because the upsert of one
line's order deletes its siblings; `SweptMeansFiled` and `EveryChangeFiled` are
about `seen` (no change is missed), `LinesStayOnFile` about `file` (and fails).

### 2.3 StatusSweep

One module for two adapters, `market` telling them apart where their code
differs: Coupang continues a list by a token, has one site and dates of a day;
ESM numbers its pages, has two storefronts and dates of a minute. `Unit` is that
day or minute: a window's bounds are cut to it and its last unit is included.
`Rank` is the place an order has in the marketplace's lists, no two orders the
same: pages are cut from a list that has *some* order, which `SweepAssumption`
says and the proofs need. `FetchOrders` is one page and `nextCursor`'s cascade:
page, status, site, window, none. The environment places orders and moves them
to *later* statuses, any number at once, or out of the lists (`Statuses + 1`).
That an order never moves back to an earlier status is an assumption on the
marketplaces; both adapters' `ORDER_STATUSES` follow the life of an order.

### 2.4 PurchaseOrders

A request is two queries with a decision between them. `ReadPrices`/`Insert`
are `createPurchaseOrder`; `ReadOrder`/`Update` are `transition` with
`assertTransition` between; `Abort` is the second query failing or the process
exiting. A refused request changes nothing and is not an action. The update is
by id alone, as in the code. The lines of a request are a set (two lines
exactly alike have no instance). `lists` and `raced` are history variables.
`fulfillPurchaseOrder` and `cancelPurchaseOrder` have no route; `Asked` says
which moves are asked for.

### 2.5 SalesJournal

One action for each awaited part of `postSalesJournalEntry`: find, seed (six
upserts, one each), partner, read accounts, create. `Supply` is the rounding of
`splitSupplyAndVat` over the integers; `Splits` the totals it takes: it throws
at a negative one and at one that is no integer (`Fraction`), inside `Partner`,
so that the accounts and the partner of a refused call stay. Nothing under
`src/` calls the function yet: that it may be called for any order, again and
concurrently, is what its comment promises to support, and an assumption of the
model.

### 2.6 Transport

A call of one client at a time (an adapter awaits each of its requests). `call`
is the activation of `withRetry` around a request and, for Naver, of the one
inside it around the token: `attempt` and `tokenAttempt` are their counters,
`pc` says which of them waits and for what.

| Action | Code |
|---|---|
| `Begin` | `request()` on the page's client or a new one; `verifyCredential` |
| `Unusable` | `clientFor` or ESM's `sign` throws before anything is sent |
| `TokenIssued` | the token's answer in `issueToken` |
| `Succeed` | an answer that is a value |
| `AnswerRetryable` | an error that may be tried again, with or without a delay asked for |
| `Refuse` | any other error; a verification says no |
| `NetworkFails` | `fetch` rejects: not a `MarketplaceError`, so nothing retries it |
| `Wake` | a delay of `withRetry` ends |

An answer is its status and what its body says besides; `IsValue`,
`NaverRetryable`, `CoupangRetryable` and `EsmRetryable` are how each client
reads it: 429 and 5xx are tried again, with Naver a `RATELIMIT` code of any
status too, with ESM a rate limit in a body of status 200. A 401 of a Naver
request drops the token either way. The answer may come at any time and be any
of these; `Expired` is Naver's own view of the token, which it began to count
some time before the client did. An adapter builds a client for each page and
each verification, so a token is shared by the requests of one page only,
although `docs/naver-commerce-integration.md:57-58` asks for a cache by account.
Jitter is any value of its range (`Delays`: between half and all of the doubled
delay, below the cap); times are in base delays.

### 2.7 Accounts

`req[r]` is what a route's handler holds between its awaits. `SignUp`/`Create`
are the signup (find, hash, insert with up to `Draws` company codes);
`AskReset`/`StoreToken`/`Relay` the request of a reset code (limiters, find,
store, alert); `Reset`/`ResetPassword` its use (limiter, find and expiry, hash,
update by id). `Fails` is a rejected query, `Exit` the end of the process
between any two awaits, which also empties the limiters' maps. The table is
keyed by e-mail, as its unique index makes it. An operator relays a code he
was alerted of, so that only such codes are spent. `issued` and `crossed` are
history variables.

### 2.8 SlidingWindow and Limits

`SlidingWindow` is `consume()` as operators on the hits of a key, a *set* of
hits that carry their time and their number: the code's array holds equal times
apart by their place, and nothing looks at the order. `Accounts` and `Limits`
use the same operators; an account request's hit bears the request's number.
`Limits` calls the limiter and the throttle in every pattern over time; `passed`
and `sent` remember what the maps forget, and the properties are about them. The
clock may move between the two readings `consume()` takes of it; it is assumed
not to go back.

### 2.9 Connections

`row` holds the sealed credential of each connection, as *what* was sealed, for
*which* connection and with *which* key: `Open` returns it for the same two and
nothing (`Unreadable`) otherwise, which is what AES-GCM with the connection in
its additional data does. `accepted` is what the marketplace takes now;
`Reissue` replaces it. `cyc[p].loaded` is what `loadConnections` opened and the
cycle has not used up.

| Action | Code |
|---|---|
| `Ask` | the route and the wizard's checks, up to `verifyCredential` |
| `VerifyGood`, `VerifyBad` | its answer, or its throwing |
| `UpsertConnection`, `UpsertFails` | `put` (no await) and the upsert |
| `FirstSync` | the wizard's script: `POST /api/sync/run`, or the seller has left |
| `Tick`, `Load`, `StartRun`, `Pull`, `Refused`, `EndCycle` | a cycle, of which `OrderSync` has the detail |
| `Reissue`, `Crash` | the marketplace; an exit, after which the key may be another |

### 2.10 OrderDesk and Statuses

`page` is what the script of `ordersDashboard.ts` keeps (in variables and in
the document), `call` the fetches it has open. Every handler is an action up to
its fetch (`ChooseFilter`, `ClickSync`, `OpenDetail`, `SaveStatus`) and another
from the answer on (`...Arrives`); between them the server serves the call
(`ListOrders`, `GetOrderById`, `UpdateOrderStatus` then `ReadBack`, which the
code awaits separately). A handler that ends in `load()` becomes a list call
with the filter of *that* moment. `SyncPage` is `upsertOrders` of a sync.
`shown` is the button's `dataset.id`, `screen` whose details are rendered: the
same in the code as it is, and different with a plausible bug (the mutant).

### 2.11 GsShopImport

The parser and the mapper are functions of a sheet; the route is `Post` (parsed
at once), `UpsertOrder` an order, `Answer`, `Break`. Rows are named by their
place: the mapper's `Map`, which keeps the order its keys were added in, is a
function of the first row of each order (`MapRows`), and the next order to store
is that of the least row `left`. An order's lines, its `items` too, are keyed by
their rows. A cell is blank, `Spaces` or a value: an optional cell may be blank,
and one of whitespace alone makes its row an error. `Says` is the reference
definition: what the readable rows with an order's number say of it, whatever
stands between them. Order numbers are taken whole; the texts of headers are
named after their fields. Two remarks on the source. The comment at
`gsshop.types.ts:48` says that headers are matched without regard to spaces and
case, while the parser only trims. A text that is no date passes the schema of a
row (`toIso` returns it as it is), so that the *store* refuses the order, after
the orders before it are stored: that is `Storable` and `Break`.

### 2.12 NorthStar

`read` holds the answers of the five queries of `computeNorthStar`, each given
by `AnswerQuery` at a moment of its own; `PostEntry`, `Deposit` and `MoveQuote`
change the store in between. The metrics are operators on the answers. The loop
over a partner's invoices, sorted by date, is `Pool`: what is left of the
credits after a *set* of invoices, by recursion on the latest of them (`Before`
is the sort's order, which keeps the invoices of a day as they were read);
`Remaining` is what an invoice keeps of its amount when the pool after the
earlier ones comes to it. Sums are the library's `SumFunctionOnSet`. `OpenOf`
and `Aged` are the reference the ageing is compared with, written the other way
round: what of an invoice stands above the collections when the older ones are
piled under it. Amounts are integers in the code too. Rates and scores are
doubles there and whole *grains* here, `Grain` of them a point. The difference
shows: the weights, as doubles, add up to 0.9999999999999999, and five full axes
score 100.00000000000001. `HealthScores` is therefore the *set* of grains the
score may fall on, one to either side of the exact mean, and `HealthWithinAxes`
allows a grain. `NorthStarAssumption` keeps the grain at 10^-9 of a point or
coarser, the precision on which the code's own test compares
(`test/northStar.test.ts:177`).

### 2.13 PullScript

One of the three scripts, `script`, under a configuration `env`; a run is its
awaits: verify, fetch, then for each page read, truncate, write. `file[f].torn`
is the time between the truncation and the end of `writeFile`, in which a
reader finds no JSON and takes the file for empty.

The failures are the store's. `readJsonArray` catches *whatever* `readFile`
throws and returns no items, and the write that follows wipes the file
(`Merge`, second disjunct); the directory may not be made (third). `writeFile`
may fail before it has truncated (`Truncate`), or after, with a part of the array
written or all of it (`FailWrite`). `Thrown` is where the script goes then: its
`catch` records a failed run, and only a failure of that ends it. A run that goes
on after a torn write, or that is followed by another, leaves the file readable
and short.

`damaged` is a history variable, the files that one of these befell, or in whose
writing a run was killed, and all of them once two runs were at work at once.

### 2.14 Components, Services and Seller

The modules that stand side by side share no state: `PurchaseOrders`,
`SalesJournal` and `StatusSweep` in `Components`; `Accounts`, `Limits` and
`Transport` in `Services`; `Connections`, `NaverOrders`, `OrderDesk`,
`GsShopImport`, `NorthStar` and `PullScript` in `Seller`. One run checks each
group. A behaviour of a group is one of *one* of its modules (in `Seller`,
`which` says of which) while the others stay in their initial states, so their
state spaces add up. This says nothing about interaction. Where the code has
one, it is inside a module: the cycles in `Connections`, the sync's pages in
`OrderDesk`, the limiters in `Accounts`. The groups have parameters and named
assumptions like any module; `MCComponents`, `MCServices` and `MCSeller` extend
them with the values TLC is given.

## 3. What the runs check

States are distinct states; every run ends within a few minutes on two workers.

| Run | Instance | Shows |
|---|---|---|
| `sync_sched` | scheduler alone (two activations of the tick), a connection and one without adapter, 2 orders of 2 versions, lookback 2 of 4 windows, page cap 2, 2 faults or exits | `TypeOK`, `TicksNeverOverlap`, `ResumeSkipsNothing`, `ScanInv` (the inductive form), `ImplementsMirror` |
| `sync_live` | a tick and a manual run, a healthy connection and one that always fails, an order of 2 versions, page cap 1, 1 fault or exit, under `FairSpec` | `ConvergesToMarketplace`, `LostRunIsSuperseded` |
| `seller` | section 2.14; the bounds are below; with the fairness of section 3.3 | the types of all six. `NaverOrders`: `SweptMeansFiled`, `EveryChangeFiled`. `Connections`: `StoredWasVerified`, `StaleOnlyUnderWay`, `ReconnectHeals`. `OrderDesk`: `SavedAsShown`, `TableIsOfFilter`. `GsShopImport`: `ImportedIsItsSheet`. `NorthStar`: `AgingIsFifo`, `ThrowsOnlyWhenRaced`, `HealthWithinAxes`. `PullScript`: `PulledIsKept` |
| `components` | section 2.14; the bounds are below | `PurchaseOrders`: `TypeOK`, `PricedFromOneList`, `ApprovalTrail`, `RequestInv`, `LegalUnlessRaced`. `SalesJournal`: its types, `OneEntryUnlessRaced`, `PostedInFull`. `StatusSweep`: its types, `SweptMeansStored` |
| `services` | section 2.14; the bounds are below | the types of all three. `Accounts`: `SignupsAreDistinct`, `LatestCodeStands`, `OneResetUnlessRaced`, `CodeExpires`. `Limits`: `WindowBound`, `RefusedOnlyWhenFull`, `OneAlertPerWindow`. `Transport`: `ExpiresOnlyWhenLate`, `CallIsBounded` |
| `sync_overlap` | a manual run beside the scheduler | violates `StoredNeverRegresses` |
| `sync_rescan` | scheduler alone | violates `LookbackOnlyOnFirstSync` |
| `sync_corrupt` | one credential that does not decrypt, one healthy connection | violates `ConvergesToMarketplace` |
| `naver_lines` | no failure | violates `LinesStayOnFile` |
| `po_terminal` | the three moves the routes ask for | violates `TerminalIsFinal` |
| `journal_twice` | two calls | violates `OneEntryPerOrder` |
| `naver_401` | one call, a token that expires under way | violates `StaleTokenReissued` |

Each property of a passing run has a mutant in `PROJECT.json`: a definition
changed as a plausible bug would change the code, with which TLC finds the
property violated. The mutants' operators stand before the originals in the
modules, marked `Mutant:`.

### 3.1 The findings

- **`sync_overlap`.** The route of the manual run does not look at the
  scheduler's flag. Two cycles sync one connection; the one that fetched first
  may write last, and the older version of an order goes back on file. It stays
  until the next rescan: `sync_live` shows that it does not stay for good.
- **`sync_rescan`.** A sweep that reaches the present is recorded as a success
  *without* a cursor, which `getLastCursor` reports as none: every later sync
  starts from the whole lookback, not only a connection's first. It costs
  requests and is what repairs the other findings' damage; the document says
  otherwise (`docs/order-sync-mvp.md:41`).
- **`sync_corrupt`.** `Promise.all` over the credentials: one that does not
  decrypt ends each cycle before any connection is synced.
- **`naver_lines`.** A window brings the lines that changed *in it*; the upsert
  deletes the items of the order and creates those. An order whose other lines
  did not change, or were asked for in another batch, loses them.
- **`po_terminal`.** Two moves that both read `SUBMITTED` are both written: an
  order that was rejected becomes approved.
- **`journal_twice`.** Two calls that both look before either creates post the
  sale twice; no constraint makes a source unique.
- **`naver_401`.** The cached token is dropped "so the next attempt re-issues"
  (`naver.http.ts:185-186`), but the error thrown with it is not retryable:
  there is no next attempt, and the page fails. The document
  (`docs/naver-commerce-integration.md:59-60`) describes the retry. The next
  cycle starts on a new client, so nothing is lost but the run.

### 3.2 Bounds, and why they are enough

- `sync_sched`. The hazards need two rows of one connection (a run that ended
  and one that did not), two orders of one page (a write that stops halfway),
  a version that changes while its page is held, a lookback smaller than the
  time that passes and a page cap smaller than the lookback. The instance has
  all of them, and two faults: a failure, then one in its handling. The ticks
  are interchangeable (`SYMMETRY`); the liveness run uses no symmetry.
- `sync_live`. One order is enough, as the store of one order depends on no
  other (the page is written in any order). It has two versions, so that the
  manual run and the tick, fetching and writing in opposite order, do put the
  first back over the second. One lookback window keeps the
  graph small; the second connection is there to fail in every cycle.
- `seller`. *Naver:* an order of two lines and one of one, windows of 2,
  batches of 2, page cap 2, a failed run. Five instants cover three windows, so
  that a resume, a window that ends in the present and a cut-off list (at any
  line) all occur; the lines give batches that split an order.
  *Connections:* one seller with two marketplaces, two credentials of each and
  a mistyped one, two requests, the timer and one manual cycle, one failure or
  exit (with or without a new key): a credential is replaced in every place a
  cycle may be, and one connection's trouble meets the other's.
  *Desk:* 2 orders of different marketplaces, a filter, a status to pick, two
  calls open and three clicks after the first load (one to open a second order
  or change the filter while a first is awaited, and a save or a sync), one
  page of the sync and the end of the session.
  *Import:* all sheets of up to two rows of five kinds, those of three that
  begin with two orders, and sheets that lack a column; one kind of row has an
  optional cell of whitespace; two uploads.
  *Metrics:* books of up to three lines of six kinds and one more posted
  meanwhile: two invoices and two collections of a partner on both sides of a
  boundary; two quotes and two moves, which is what the race takes.
  A point is 100 grains.
  *Scripts:* two runs of two pages of orders and of products, one failure (of a
  call, a read, an opening or a write) or one kill, every script with enough and
  with too little configured. The second run reads what the first one's failure
  has left.
- `components`. *Purchase orders:* 1 order (orders share only the price list),
  2 skus, 2 prices, 3 list changes, 3 requests, which is one more than a race
  needs. *Journal:* 2 orders, 2 calls, one failure, totals 1, 6 and 11, whose
  supply is rounded up, down and not at all, and -1 and a fraction, which are
  refused. *Sweep:* 3 orders on 2 sites, 2
  statuses and "gone", pages of 1, two pages a run, windows of 1 in units of 2,
  3 instants, one failure: every branch of the cursor's cascade is taken while
  orders move.

- `services`. *Accounts:* 2 addresses, 2 company codes, 2 draws and 4 requests,
  the most a crossing needs (a signup, a code, its reset, a code issued
  meanwhile); one more was tried and shows nothing new. Two resets pass
  the limiter in a window, so that two uses of one code do cross. *Limits:* 2 keys, a
  limit of 2 and windows of 2 in 4 instants: a window fills, empties and fills
  again. *Transport:* 2 attempts, which nest to four of a token and six
  fetches; hints of none, zero and more than the cap; a token that outlives the
  call and one shorter than the skew; two calls, so that a token is met again.

`CHECK_DEADLOCK FALSE` is set where an instance comes to its bounds and stops
(the clock, the price list, the calls); the system itself does not stop.

### 3.3 Fairness

`OrderSync`: weak fairness of the ticks together (`setInterval` keeps firing
while the process lives, and a new process starts its timer) and of every step
of a cycle (each awaited call answers or throws). The second is an *assumption
on the environment*: the adapters' `fetch` has no timeout, so a request that
never answers would keep the flag set for good (a hazard in `PROJECT.json`).
Manual runs, changes and faults are not fair; faults are bounded by
`MaxFaults`, which stands for "faults stop eventually". `NaverOrders`: weak
fairness of a run's step, and `Connections`: of `Tick` and of each cycle's
steps, for the same reasons; `SellerSpec` states both for the whole group.
Requests, the marketplaces and the wizard's sync are not fair. `ReconnectHeals`
supposes that in the end the credential on file is one the marketplace takes
and every row opens under the key: one row that does not, of any seller, stops
the sync of all (`sync_corrupt`). The other modules claim no liveness.

## 4. What is proved

Each theorem holds for every value of the constants that meets the named
assumption of its module: `ConnAssumption` and `NumberAssumption` (`OrderSync`),
`PurchaseAssumption`, `ConnectionsAssumption`, and, joined in
`ComponentsAssumption`, `ServicesAssumption` and `SellerAssumption`, those of the
other modules. They say of what type a constant is, that markers such as
`NoCode` are no members of the sets they are told apart from, that a set the
database holds is finite and that a list has an order. TLC evaluates them on
every run. The modules' bounds (`MaxNow`, `MaxFaults`, ...) are constants too: a
theorem holds for each value of them, hence of every finite behaviour.

**`OrderSync`** (`OrderSync_proofs`), any connections, orders, ticks and bounds:

- `TypeCorrect`: `[]TypeOK`, manual runs included.
- `NoOverlap`: `[](TicksNeverOverlap /\ FlagInv)`, manual runs included. The
  flag is set *exactly* while a tick is not idle; without the second half the
  property is not inductive, as `End` clears the flag.
- With `Manual = {}` (the scheduler is the only caller): `Scan`, `[]ScanInv`;
  `Resume`, `[]ResumeSkipsNothing`; `Regress`, `StoredNeverRegresses`;
  `Implements`, every step of `OrderSync` is a step of `OrderMirror` or leaves
  its variables alone. The restriction is needed: `sync_overlap` is the
  counterexample without it.

`ScanInv` is the strengthening all four rest on. A resume skips nothing because
the busy cycle, the only one there is (`FlagInv`), has on file whatever lies
behind the window it has reached (`Reached`), or holds it in its page at the
version it will have when written (`PageInv`); because the window reached is
never behind the cursor on file (so that a success never moves a cursor back);
and because the only successful row kept is the first (`RowsInv`), so that
orphaned and failed rows never hide it. `PageInv` is split by whether the
window is the present one: its orders may change while it is held, and then
there is no next window yet. The lookback's edge needs no case of its own:
`Behind` speaks only of changes inside it, and it only moves forward.

**`NaverOrders`** (`NaverOrders_proofs`), any lines, windows, batches, lookback
and any place where a list is cut off:

- `NaverTypeCorrect`; `Filed` (`[]SweptMeansFiled`).

`Covered(c)` says that what a sweep at the cursor `c` has behind it is on file
in its present version. The invariant has it of the cursor of the last run, of
what was swept and of the page's cursor, and carries it through a page
(`Covering`): a line up to the page's end is on file, still to be asked for
(`ids`), or in an order that is still to be stored, *at its present version*;
and whatever else such an order holds of a line has moved past the page, so that
writing it back cannot undo what a sweep has passed.

**`StatusSweep`** (`StatusSweep_proofs`), any orders, list, statuses, windows,
units and page sizes, both markets:

- `SweepTypeCorrect`; `Stored` (`[]SweptMeansStored`).

`StoredBy(c, S)` says that every order of the sweep that is still in some list
and lies behind the cursor `c`, other than those that slid over a page boundary
(`shifted`), is in `S`; the invariant has it of every cursor there is with what
has been stored, and of the next one with the page in hand. The work is in the
cascade of `nextCursor`: a page of `Before`-places is full or the last
(lemmas `NoGap` and `FullPage`, by the cardinality of finite sets), an order that
is behind status, site or window was listed there, and one that has moved since
has moved *forward*, where it is met again.

**`PurchaseOrders`** (`Components_proofs`), any skus, prices, orders and requests:

- `TypeCorrect`, `OnePriceList` (`[]PricedFromOneList`), `Trail`
  (`[]ApprovalTrail`), `ReadStillHolds` (`[]RequestInv`), `Legal`
  (`LegalUnlessRaced`).

The invariant joins the four with `prices \in lists`. `RequestInv` carries
across the await what was true when a request read: stamps are never removed,
so that even a raced move finds its predecessor's stamp; a status stays what it
was unless a second move is under way, which is what `raced` records.

**`SalesJournal`** (`SalesJournal_proofs`), any orders, calls and totals:

- `TypeCorrect`; `OneEntry` (`[]OneEntryUnlessRaced`); `FiledInFull`
  (`[]PostedInFull`), whatever totals are asked for, those that are refused
  among them.

The invariant has, for each call, how far the chart is seeded (`SeedInv`:
accounts are never removed, so that a call that stopped halfway only helps the
next), and for each order that was never posted by two calls at once, that it
has one entry at most and none while a call is posting it (`EntryInv`).

**`Accounts`** (`Services_proofs`), any addresses, codes and requests:

- `AccountsTypeCorrect`, `DistinctSignups` (`[]SignupsAreDistinct`),
  `LatestStands` (`[]LatestCodeStands`), `OneReset` (`[]OneResetUnlessRaced`),
  `OldCodesExpire` (`[]CodeExpires`).

Signups are distinct because the insert looks at the unique indexes of *its*
moment, so that the answered request's code is its row's (`Accounted`). The
other three rest on `Codes`: a code on file is that of a request of this address
that got so far, with the expiry of the time it was asked at (`OnFile`); one
that is being spent stays on file unless a request that crossed it stores
another, and one that was spent is on no row (`Spent`); two requests that spend
one code have crossed (`Alone`).

**`Limits`** (`Services_proofs`), any keys, limits and windows:

- `NoMoreThanLimit` (`[]WindowBound`), `RefusalsJustified`
  (`[]RefusedOnlyWhenFull`), `AlertsApart` (`[]OneAlertPerWindow`).

What the map has forgotten had left the window when it was forgotten, and the
clock does not go back; `GatesInv` adds this to the three properties. A hit
passes only when those recent at its time, which hold all that passed in any
interval the hit falls into, are fewer than the limit.

**`Transport`** (`Services_proofs`), any attempts, delays, hints and lifetimes:

- `LateExpiry` (`[]ExpiresOnlyWhenLate`), `BoundedCalls` (`[]CallIsBounded`).

`Bounded` says how many fetches and how much delay lie behind a call at each
place where it waits, in terms of both counters: `Past(a)` is the attempts at a
token that the earlier attempts of the request may have taken.

**`Connections`** (`Seller_proofs`), any sellers, marketplaces, requests, cycles
and faults:

- `TypeCorrect`, `StoredIsVerified` (`[]StoredWasVerified`), `StaleIsUnderWay`
  (`[]StaleOnlyUnderWay`).

`StoredWasVerified` is strengthened to `Sealed`: every box on file, whatever
its key, is sealed for its own connection and holds a verified credential, and
so does every request about to upsert. The key has to be left out of the
invariant, since it may change back. `StaleOnlyUnderWay` follows from `Fresh`:
a cycle that is idle or loading holds nothing (`Empty`), and one that is under
way holds, for each connection not marked, what the row still opens to
(`Current`); the key changes only when every cycle is gone.

**`OrderDesk`** (`Seller_proofs`), any orders, filters, calls and clicks:

- `DeskTypeCorrect`, `SavesAreShown` (`[]SavedAsShown`), `TableFollowsFilter`
  (`[]TableIsOfFilter`).

`DeskInv` follows a save through the server: it names the order that was on the
screen when it was clicked (the button's order and the screen's are the same at
all times), once written the row has its value unless another write came
between, and the answer read back says so or the call is marked (`Saved`). Of a
table, it has that a load no other overlaps is the only one open and is of the
filter there is (`LoadInv`).

**`NorthStar`** (`NorthStar_proofs`, cited in `Seller_proofs`), any quotes,
books, bucket boundaries, lookback and number of changes:

- `MetricsTypeCorrect` (`[]TypeOK`), `ThrownWhenRaced` (`[]ThrowsOnlyWhenRaced`),
  `FirstInFirstOut` (`[]AgingIsFifo`), `ScoreWithinAxes` (`[]HealthWithinAxes`).

`ThrownWhenRaced`: the accepted quotes are among the sent ones at every moment;
the invariant `Counts` carries across the two answers that the
quotes sent since the first of them are `missed`. The last two need of the state
only what the answers are (`Books`: rows of entries, and counts); the rest is
about the functions, for all rows:

1. *Sums.* The library's sum over a finite set takes the elements in an order
   of its own choosing. `SumRemove` says that any element may be taken first,
   and with it `SumOfParts`, that the sums over the classes of a key add up.
2. *The pool.* `PoolIs`: after any set of invoices the pool is what the credits
   exceed their total by, or 0, whatever the order they were taken in.
   Hence `RemainingIs`, that an invoice keeps what `OpenOf` says, and
   `SumRemaining`, that a partner's open invoices sum to what he owes.
3. *The buckets.* `BucketIs`: an age is in the bucket whose two boundaries it
   lies between, the boundaries ascending. `PartnerAgingIs` puts the sums by
   bucket together, `AgingOf` the partners.
4. *The scores.* `MeanBetween`: the weighted mean of some scores, rounded down,
   is between the least and the greatest of them, so that what `HealthScores`
   allows is within a grain of that; a share or a mean that is out of scale is
   clamped.

Induction over data is done without the library's induction theorems: of the
sets for which a statement fails there would be one none of whose proper
subsets fails (`SmallestSet`, from a fact about well-founded relations), and one
element less does not fail. That a recursive function is what its equation says
is proved the same way, by showing first that some function meets the equation.

**`GsShopImport`** (`Seller_proofs`), any sheets, order numbers and uploads:

- `ImportTypeCorrect` (`[]TypeOK`), `FiledAsSaid` (`[]ImportedIsItsSheet`).

The inductive invariant `ImportInv` ties the orders on file to the sheets: an
upload that was taken has left a part of its sheet's orders, unchanged
(`UploadOK`), the rest of them are on file, as this upload's or another's
(`Stored`), and what is on file is an order of the sheet of some upload that was
taken (`FromSheets`). About the functions: the rows of an order are all the
readable rows of its number, whatever stands between them (`LinesAre`), every
readable row is in an order (`EachMapped`), and what is stored of an order is
what the sheet `Says` (`OrderIs`).

**`PullScript`** (`Seller_proofs`), any runs, pages and lists:

- `PullTypeCorrect`, `NothingPulledIsLost` (`[]PulledIsKept`).

The property is of each file by itself: what befell one says nothing of the
others. While there is a file that is not `damaged`, one run is at work
(`Alone`); such a file is torn only by the run that is about to close it
(`TornByOne`), and holds otherwise all that was merged into it (`Kept`). The pages
before the one in hand were merged, and what is about to be written to an
undamaged file holds the page and all that was there (`Progress`), so that what
is recorded as a success is whole (`Recorded`).

**The groups.** `ComponentsCorrect`, `ServicesTypeCorrect`, `ServicesCorrect`,
`SellerTypeCorrect` and `SellerCorrect`: each group's specification implies that
of each of its modules (lemma `Each`, a step of the group is a step of one
module or changes none of its variables), so that it keeps all the invariants
above. These are the specifications the runs `components`, `services` and
`seller` check.

**Only model-checked.**

- Liveness (`ConvergesToMarketplace`, `LostRunIsSuperseded`, `EveryChangeFiled`,
  `ReconnectHeals`): fairness and `ENABLED` are outside the prover's reach.
- What `PurchaseOrders` says of a total is that it is the total of some items,
  and not that it is a natural number.
- That the functions of `NorthStar` which no property names (`ComputeCcr`, the
  share of the last bucket) give the very figure they should: `HealthWithinAxes`
  bounds what is made of them.

All other properties the passing runs check are theorems; those of the sync
engine about cursors and rows, with the scheduler as the only caller.

The invariants with an exception (`...UnlessRaced`, `shifted`, `damaged`,
`missed`, `crossed`) except what the code does not exclude; the findings of
section 3.1 are runs into some of these exceptions.

## 5. Plan

Done: the sync engine with its abstract specification, the adapters that feed
it, the back-office components with concurrent callers, the transports, the
accounts and limiters, the connect flows beside the cycles, the orders page
beside the sync, the import, the metrics and the scripts; and the proofs of
section 4. Left, in this order:

1. *Refinement*: that a run of `NaverOrders` and of `StatusSweep` is a page source
   as `OrderSync` takes it to be (nothing behind the cursor is missing), which
   `SweptMeansFiled` and `SweptMeansStored` state each in its own terms.
2. The mapping of Coupang's and ESM's payloads, manual products, the other
   pages: little that could go wrong in more than one step.

## 6. Not modelled, and why

- *Parsing and mapping* of Coupang's and ESM's payloads (zod schemas, field
  renames, amounts): pure translations that no property here tells apart.
  Naver's folding, GS Shop's grouping and the tables of order statuses are
  modelled; product statuses go with the products.
- *Manual products*: one insert and one list that nothing else looks at.
- *Cryptography*: AES-GCM of credentials, HMAC and bcrypt signatures, password
  hashing, session cookies: external; what is used is that a box opens for the
  connection and the key it was sealed with, and for no other.
- *Tenancy, row-level security*: `forTenant` sets the tenant in the transaction
  of one query; what isolates tenants are policies in SQL, outside the program.
  The models are of one tenant but for the sellers of `Connections`.
- *Other pages*: the products, connections and import pages load or send once
  and show what they got. Layout and wording of all pages are left out.
- *Environment parsing, logging, the demo seed*: I/O without state.
- *Loss of the JSON files*: two pull scripts at once, one killed inside
  `writeFile`, a `writeFile` that fails halfway (a full disk) and a `readFile`
  that fails (`localStore.ts:27-35` takes it for an empty file) all lose a file's
  content; the store calls itself "dead-simple", for a spike
  (`localStore.ts:8`). All four are modelled, and `PulledIsKept` excepts the
  file they befall (`damaged`).
- *The database*: queries are atomic and reads see committed data. Lost answers
  are covered where they make a difference (comments at `Finish`, `Fail`).
- *Several server processes*: the deployment runs one; two would be two
  schedulers, whose overlap is that of a manual run.
