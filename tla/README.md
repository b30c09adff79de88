# A verification development for arthosrot

arthosrot is a paper-trading application: a Next.js server and a worker process
over one Postgres database, with Alpaca's sandbox (or a deterministic
in-process venue) executing the orders, and a browser client that polls. This
directory holds TLA+ models of the parts that decide money and of what is
derived from it and shown, the TLC configurations that check them, and TLAPS
proofs about the trading book, the order pipeline, the cash transfers, the
accounts, the scheduled jobs, the price alerts and the money arithmetic.
`PROJECT.json` indexes everything: components, runs, mutants, the source lines
of every definition, findings, hazards and theorems.

1. [Inventory](#1-inventory) · 2. [Modules and the code](#2-modules-and-the-code) ·
3. [Runs](#3-runs) · 4. [Proofs](#4-proofs) · 5. [What the checks found](#5-what-the-checks-found) ·
6. [Abstractions and what is not modelled](#6-abstractions-and-what-is-not-modelled) · 7. [Plan](#7-plan)

## 1. Inventory

Paths are relative to the repository's `src/`.

| component | state | operations | correct when |
|---|---|---|---|
| Order state machine (`core/orders/state-machine.ts`) | none (a table of edges) | `planTransitions` | fills overtake acknowledgements without an illegal edge; nothing leaves a terminal state |
| Orders service (`core/orders/service.ts`) | `orders`, `order_events` | `place`, `applyTransition`, `requestCancel` | one row per idempotency key; reservations derive from the unfilled remainder; buys, withdrawals and sells never promise the same cash or lots twice |
| Execution service (`core/execution/execution.ts`) | `fills`; calls ledger, positions | `submit`, `onBrokerEvent`, `requestVenueCancel` | each execution is booked once, whole, whatever path it arrives on |
| Ledger, positions (`core/ledger`, `core/portfolio/positions.ts`) | `ledger_entries`, `accounts.cash_balance`, `positions` | `post`, `applyBuyFill`, `applySellFill` | cached cash is the ledger's sum; no negative position; the basis is conserved |
| Stream ingestion (`worker/main.ts`) | `stream_cursors`, connection | subscribe, consume, save cursor, restart | the cursor never passes an event that was not handled |
| Reconciliation (`core/reconciliation`) | none of its own | one pass over an account's open orders | it may overlap anything; it brings every open order to the venue's outcome |
| Alpaca order adapter (`infra/brokers/alpaca/broker.ts`) | last ULID | submit, cancel, snapshot, subscribe | translation loses no execution |
| Cash transfers (`core/cash-transfers`) | `cash_transfers` | request, sync, recovery, watch, archive hook | a settled transfer posts once; spendable cash never exceeds the venue's; a lost answer is recovered |
| Scheduled jobs (`worker/jobs/registry.ts`) | `job_runs` | claim, succeed, fail | one run at a time, spaced by the interval, never stopped for good |
| Price alerts (`core/alerts`; `AlertSheet`, `AlertsPanel`, `AlertsBell`) | `price_alerts`; the browser's list | create, cancel, evaluate, trigger, mark read | cap and uniqueness under races, one trigger per alert, on a price that is still true; nothing is read that was not shown |
| Accounts (`core/accounts`, reset in `server/api/portfolio.ts`) | `accounts`, `broker_accounts` | open, link, activate, archive and open again | one current account with one opening deposit; no archive while an order is unresolved |
| Deterministic venue (`core/brokers/deterministic`) | log, orders, listeners, cash | submit, cancel, tick, subscribe, transfers | no order overfills; a resumed subscription misses nothing; cash is what settled |
| Money (`core/money`, `lib/order-ticket.ts`) | none | rounding, notional, reservation, basis | nearest cent, ties to even, the browser and the server alike; cents are conserved |
| Portfolio (`core/portfolio`, `server/api/portfolio.ts`) | none: derived on read | holdings, gains, net-worth series | the replay agrees with the books; a point is what was held then |
| Discovery, Top 100, fundamentals (`core/discovery`, `worker/jobs/top100.ts`) | rankings, company fundamentals | fetch, rank, publish, browse; EPS | a published list is plausible, complete and keeps its head |
| Market-data cache, instruments (`infra/market-data/cached.ts`, `core/instruments`) | memos, `market_data_cache`, `instruments` | quote, list, status; register, sync | no price older than it is said to be; names survive the sync |
| Ticket and transfer sheet (`TradingTicket`, `CashTransferSheet`) | form, key, pending request | edit, review, confirm, answer, refresh | one order per intent, one transfer per review; no answer is shown for another question |
| Watchlist (`infra/db/repositories/watchlists.ts`, dashboard and instrument pages) | rows; the browser's one copy | add, remove, poll | an added row stays; the copy converges |
| Order pages (`OrdersTable`, `orders/[id]`, `useCancelOrder`) | query cache | poll, cancel, refresh balances | balances follow the orders shown; an ended order is shown as ended |
| Auth, HTTP, email, configuration, charts | sessions, counters | library wiring, rendering | not modelled (section 6) |

**How they interact.** The API places an order in one transaction and then,
outside it, submits it to the venue. The venue's events come back on a stream
the worker reads, and the same facts come back a second time through
reconciliation passes, which the worker runs on a timer and the API runs when
the venue refuses a cancel. Both paths call `onBrokerEvent`. Cash transfers go
the same way: a transaction, a POST, then passes that read the venue's list.
Postgres is the only shared state of the servers; the account row lock
serialises everything that moves one account's money, everything else is
optimistic, with unique indices and conditional updates. The browser keeps
copies that it polls and refetches, and asks again under the same idempotency
key when an answer is lost.

**What is hard.** Between two awaits anything may happen: a pass holds a list of
orders read earlier, a submit does not know if its POST arrived, a sync pass
holds a row another pass has since linked, an evaluation holds a market status
memoised before the close, a page is torn between two statements. Processes die
between two transactions. Messages are lost, duplicated (under different ids on
the two paths) and reordered. Answers arrive after the form that asked has moved
on. `PROJECT.json` lists 40 such hazards at their lines, with the properties
that would notice each going wrong, or why none of the runs' does.

## 2. Modules and the code

```
OrderStateMachine     AccountLedger (abstract)        Money --- ArithmeticProofs (TLAPS)
        |                  ^ refinement                 |  \            |
        +--> TradingBook --+                            |   MarketRanking, KeyStats
              |       |                                 |               |
              |       +- TradingBookProofs (TLAPS) <----|---------------+
              |              |                          +-- EquityHistory -- Portfolio
              +- Execution   +- ServicesProofs (TLAPS)
              +- CashTransfers   (of both)
   Portfolio   MarketRanking   KeyStats   QuoteCache ---(MCFigures)--- FiguresProofs (TLAPS)
   ScheduledJobs   PriceAlerts --- WorkerProofs (TLAPS)
   DeterministicVenue   VenueCash ---(MCVenue)--- VenueProofs (TLAPS)
   Accounts   Watchlist   OrderPages ---(MCDashboard)--- AccountsProofs (TLAPS)
   OrderTicket   CashSheet   AlertSheet ---(MCSheets)--- SheetsProofs (TLAPS)    (the browser)
```

**OrderStateMachine**: the states, the legal edges (`Legal`) and
`planTransitions`: `FinalState`, `Plannable` say where an event leads, with the
synthesised acknowledgement when a fill or a cancel overtakes it.

**AccountLedger**: what an account promises, without orders: each execution is
booked at most once with all of its cash and lots, each transfer moves the cash
by its amount, and nothing else moves money.

**TradingBook**: one paper account. One action is one committed Postgres
transaction: `Place` (`OrdersService.place`), `ApplyStatus` and `ApplyFill`
(`onBrokerEvent` with `applyTransition`, the fill's row, ledger entries, cash
projection and position), `FailSubmission`, `RequestCancel`, the three cash
movements of a transfer, and `ArchiveAccount`. A transaction that throws is a
stutter. Prices have four decimals and cash two, as in the code: `NextReservation`
scales what is reserved at each counted fill and rounds it to cents
(`orders/service.ts:331`), and `FillCost` rounds what a fill costs. The venue is
arbitrary: any event about any order, any number of times, in any order. The
module everything else about money composes with.

**Execution** (extends TradingBook): the pipeline. `submit` (POST, one retry
under the same client order id, the lookup, SUBMIT_FAILED), the API's cancel,
the venue as the adapter sees it (status, tape of trade events), the worker's
stream with its cursor, restart and startup pass, and reconciliation passes,
whose local variables (`pass[p]`: the orders listed, the status read, the events
synthesised) are state, as they are held across awaits. `activities` is
the venue's list of an order's executions, as its endpoint returns them, and
`tape` the stream of the same executions and of status changes. Every book step is
one of TradingBook's, which `ImplementsBook` checks.

**CashTransfers** (extends TradingBook): a request call with its POST, passes
that load PENDING rows, list the venue's transfers and recover, link, apply or
fail each (in the order of `created_at`, ties in any order), the watch on
transfers a reset cancelled, the reset, and time.
`TransfersImplementBook` checks the same refinement.

**ScheduledJobs**: `runDueJobs` as the worker's and manual triggers call it; claim, run,
`succeed`, `fail`, each with the clock value it read before the statement ran.

**PriceAlerts**: creations under the advisory lock, deletes, the job's and a
reader's evaluations with the quotes and the status they hold, and the caching
provider.

**Accounts**: calls of provisioning, `GET /me`, the worker's sweep and the
reset, each a record of what it holds between awaits (`call`), on the account
rows, the venue's account with its funding, and orders as far as a reset waits
for them.

**DeterministicVenue**, **VenueCash**: the in-process venue. A call is a record
with the await it is parked on; an event is pushed to the log and handed to the
listeners one after the other, each awaited, so that ticks, submits and cancels
interleave there. A subscription replays the log after its cursor and is live meanwhile;
it is never closed, as nothing in the code closes one but the end of the process. A
listener that throws ends the rest of an emission, or of its replay
(`ReplayThrows`; `lost` records what it then never got). The cash half awaits nothing.

**Money**: the derivations that lose digits, on scaled integers. **Portfolio**:
fills booked late and in any order, ledger, average-cost positions, and the two
views that read them statement by statement; **EquityHistory**: the net-worth
series as operators on what the view read. **MarketRanking**: the Top 100 job
from the SEC's figures to the published snapshot, its plausibility rules and
publication guard, and the browse pages. **KeyStats**: the trailing EPS behind
its day-long cache. **QuoteCache**: the two cache layers in front of the vendor,
the memoised market status, an instrument's page and lists, registration and
the sync script.

**OrderTicket**, **CashSheet**, **AlertSheet**: the stateful forms with their
idempotency keys, requests on the wire, answers on the way, and views to
refresh. **Watchlist**, **OrderPages**: what the dashboard and the pages of an
instrument and of an order share through the query cache.

The `MC*` modules give these their instances. `MCSheets`, `MCFigures` and
`MCDashboard` hold several modules that share no state: an extra variable
chooses which one moves (a screen), and the others stay at rest, so that one run
covers them without the product of their states.

## 3. Runs

Twelve runs: eleven pass, one shows a bug (section 5). State counts are distinct
states.

| run | instance | what it shows |
|---|---|---|
| `trading_book` | a limit buy of three lots at 1.5 cents, a market buy with its 2.5 % buffer and a sell, 4 executions, 4 envelopes, cash for not quite everything | `FillsAddUp`, `ReservationsDerived`, `OpenOrdersAreCovered`, `OnlyForward` and `ImplementsLedger` under an arbitrary venue, with reservations that round |
| `exec_overlap` | one two-lot buy, one execution, both passes, both first statuses and both that end a day, no faults (3.8 M) | submit, cancel, stream and two passes interleave: a local terminal state is the venue's, and only a false SUBMIT_FAILED makes a fill late |
| `exec_live` | one one-lot buy, three faults, one pass (162 k) | executions are booked, submissions resolve and cancels reach the venue (`IntentsReachVenue`), ended orders settle; `ImplementsBook` |
| `cash_recovery` | two equal withdrawals, two losses, unreadable listings, one pass at a time (1.5 M) | rows and book agree, each row settles by its own venue transfer, and spendable cash stays within the venue's |
| `cash_live` | a withdrawal against a limit buy, two losses, a reset at any moment | rows resolve, nothing posts after the archive and late settlements are flagged (`ArchiveIsFinal`); `TransfersImplementBook` |
| `jobs` | three jobs (one disabled), a worker's and a manual trigger, two faults (84 k) | `OneRunAtATime`, `SuccessesAreSpaced`, and every enabled job runs for ever |
| `alerts` | two alerts with opposite terms, a cap of one, two creations, job and reader (424 k) | cap and duplicates under races, single and sound triggers, and `AlertFires` |
| `dashboard` | an opening, a reset, a poll, a sweep, an order and one fault; three clicks on one symbol; three steps of an order, two acts of the user, one failed fetch (592 k in all) | `OneFundedCurrentAccount`, `ArchiveWaitsForOrders`, `LinkedAccountActivates`; `PagesAgree`, `PagesSettle` |
| `sheets` | ticket with four edits and two confirms; sheet with two submissions and two openings; three alerts of which two may be active (3.0 M) | one order per intent, views that follow it, one transfer per review, only what was shown is read |
| `venue` | one two-lot order, one subscription with a cursor, three calls, listeners and replays that throw, one mute; two transfers (4.5 M) | `NeverOverfilled`, `NoGapAfterCursor`, `CashIsWhatSettled` |
| `figures` | two symbols and three orders over three times; five filers; two views of an EPS; two servers and three ticks of quotes | `ReplayAgrees`, `PointsAreTrue`; `PublishedListsHold`; `CachesAreCurrent`, `NamesAreKept` |
| `delisted_page` | the quotes alone, with a symbol the feed may drop | `HolderHasAnExit` violated |

Every property of a passing run has a mutant in the modules: a plausible slip in
the code (a dropped guard, a swapped order, an off-by-one) under which TLC finds
that property violated in that run. Operators marked `\* Mutant:` are those; no
specification uses them. Type invariants are checked in the explorations
(`MCExecutionFaults`, `MCCashOverlap`, `MCAccountsRaces`, `MCFiguresWindow`), or
by naming them in a run's configuration (`DashboardTypeOK`, `SheetsTypeOK`).

**Bounds and why they suffice.** Faults are bounded by `MaxFaults`, `MaxLosses`,
`MaxOutages`. Three in the pipeline let both POSTs of a submission and then its
lookup fail; two elsewhere are one more than a recovery path needs, so that a
failure during the recovery from another is included. One order with one
execution is enough for the pipeline's hand-over questions because orders share
no row but the account, whose transactions `trading_book` interleaves with two
buys and a sell. There, the reservation of
three lots at 1.5 cents is scaled twice and rounded each time. `exec_overlap` uses a two-lot order of which one lot executes,
so that a partial fill meets a cancel, an expiry and both passes. `CashBound`
stops deposits at the opening cash, so that one comes only after some is spent. In `cash_*` at most two transfers are requested up to tick
`LastRequest`, and the clock stops one tick after the last row outlives its
grace period. In `jobs` and `alerts` time never stops; ages are clipped where
nothing tells them apart. `dashboard`: two accounts let a reset meet an opening;
three clicks are two removals of one row from two pages and the addition of its
symbol again, all under way at once (with two symbols, 1.6 M states, and with
three acts on the order pages, 1.9 M, the properties hold too). `sheets`: four
edits and two clicks are a confirm, a change of terms while its answer is lost,
and a confirm of the next order. `venue`: three overlapping calls are a submit, a
cancel and a tick on one order. `figures`: three orders are a buy, the sale of
part of it and a second symbol; three runs of the ranking's two snapshots need
`Keep = 2`; the vendor has every bar of one symbol, and gaps or nothing of the other;
a quote's life of one tick open and two closed is the shortest
with a difference.

**Fairness.**
- `Execution`: weak fairness of what each process does next without an outside
  cause: an HTTP call ends (`AbortSignal.timeout(10_000)`,
  `broker.ts:96`), the worker reconnects in a loop and passes run on a timer
  (`worker/main.ts`), the venue ends what it received. Resending a cancel is
  strongly fair, since passes visit the order again and again. No fairness on
  faults, users, or which events the venue chooses.
- `CashTransfers`: the same, with the clock.
- `ScheduledJobs`: every call returns, the platform's schedule keeps calling, time passes.
- `PriceAlerts`: time passes, no evaluation hangs, and the job's failures
  (vendor outage, database error, crash) come to an end:
  `<>[][~Fails(Job)]_vars`. Without that no alert need ever fire. Readers owe nothing.
- `Accounts`: calls go on, the worker's sweep comes again (`worker/main.ts:66`), transfers clear.
- `Watchlist`, `OrderPages`: a poll that is due comes (the `refetchInterval` of
  each query), and requests are handled and answered. The user owes nothing.

**Explorations.** The configurations that are not runs are larger instances
(`MCExecutionFaults`, `MCCashOverlap`, `MCAccountsRaces`, `MCFiguresWindow`:
they pass) or show a divergence of section 5 (each violates its one property).
A property named in section 5 without a configuration of its own is checked by
naming it, with the constants given there, in the configuration given there in
place of what that checks.

## 4. Proofs

`TradingBookProofs` proves, for every set of orders, executions, instruments and
envelopes and every price and quantity `BookAssumption` allows:

| theorem | statement |
|---|---|
| `TypeCorrect` | `Spec => []TypeOK`; no position is ever negative |
| `BookInvariant` | `Spec => []BookInv`, the inductive invariant |
| `ExactlyOnce` | `Spec => []BookedExactlyOnce` |
| `FillsCorrect` | `Spec => []FillsAddUp` |
| `ReservationsFollow` | `Spec => []ReservationsDerived` |
| `TerminalFinality`, `MonotoneProgress` | `Spec => TerminalIsFinal`, `Spec => ProgressIsMonotone` |
| `OrdersOnlyMoveForward` | `Spec => OnlyForward` |
| `LedgerRefinement` | `Spec => ImplementsLedger` |
| `OpenOrdersStayCovered` | `Spec => []OpenOrdersAreCovered` |
| `ProjectionsHold` | `Spec => []BalancesAreSums`: cash and positions are what the ledger and the fills add up to |

The only assumption is `BookAssumption` of TradingBook (types of the constants;
prices of executions are positive).

`ServicesProofs` proves of CashTransfers, for any number of transfers and overlapping passes
(under `TransferAssumption`, with `BookAssumption`):

| theorem | statement |
|---|---|
| `TransfersTypeCorrect` | `CashSpec => []CashType` |
| `TransfersAreBookSteps` | `CashSpec => TransfersImplementBook`; the book's theorems hold of it |
| `TransfersLeaveOrdersCovered` | `CashSpec => []OpenOrdersAreCovered` |
| `RowsAndBookStayTogether` | `CashSpec => []RowsAndBookAgree` |
| `ArchivedStaysArchived` | `CashSpec => NothingPostsAfterArchive` |
| `DailyCapHolds` | `CashSpec => []DepositCapHolds` |
| `SettlesByTheVenue` | `CashSpec => [](PostedByVenue /\ LinkedOnce)`: a row settles only as a transfer of its amount and direction that the venue settled, and no venue transfer is linked to two rows |

That a row settles by its *own* transfer, and that spendable cash stays within the
venue's, is not true of the code in general: a recovery goes by amount, direction and
time alone, the worker's sweep and GET /account/cash may overlap, and users repeat
amounts (section 5 has the counterexamples). The runs check both where passes do not
overlap. Two lemmas, not listed as results, say when they do hold for any number of
transfers: `SettlementsAreTheirOwn` (if passes never overlap, `Alone`, or no two transfers
have one amount and direction, `Distinct`) and `SpendableIsAtTheVenue` (under both).

`ServicesProofs` proves of Execution, for any number of orders, executions, passes and faults
(under `ExecutionAssumption`, with `BookAssumption`):

| theorem | statement |
|---|---|
| `PipelineInvariant` | `ExecSpec => []PipelineInv`, types and soundness of what is held |
| `PipelineImplementsBook` | `ExecSpec => ImplementsBook` |
| `PipelineKeepsBooks` | `ExecSpec => [](OpenOrdersAreCovered /\ FillsAddUp /\ ReservationsDerived)` |
| `VenueHasTheLastWord` | `ExecSpec => []VenueDecides` |
| `CursorSkipsNothing` | `ExecSpec => []CursorNeverSkips` |
| `LateFillsMeanFalseFailure` | `ExecSpec => []LateOnlyAfterFalseFailure` |

These six have the hypothesis `PathEnvelopes \subseteq Envelopes`: the book
accepts every event identifier the stream and the passes can produce (a text
column of any content, `order_events.external_event_id`). The set is infinite, as ULIDs
never end; the TLC instances give `Envelopes` the finite part that their tapes,
which are bounded, can reach.

`AccountsProofs` proves, for any number of openings, resets, polls, sweeps,
orders and faults (under `AccountAssumption`), and of what the dashboard stands
on for any symbols, clicks and losses:

| theorem | statement |
|---|---|
| `AccountsTyped` | `AccountSpec => []AccountsTypeOK` |
| `OneAccountToTradeOn` | `AccountSpec => []OneFundedCurrentAccount` |
| `ResetsWait` | `AccountSpec => []ArchiveWaitsForOrders` |
| `PagesStayTrue` | `DashboardSpec => []PagesAgree`, which is `KeptOnceAdded` of Watchlist and `BalancesFollowTable` of OrderPages (of balances that have arrived on the page) |

`WorkerProofs` proves of the worker's two parts: for any list of jobs, intervals,
leases and triggers (under `JobsAssumption`; `RunsAreExclusive` and `IntervalsAreKept`
with the hypothesis `Punctual`, below), and for any alerts, users, symbols and prices
and any number of creations, deletes and evaluations (under `AlertsAssumption`):

| theorem | statement |
|---|---|
| `JobsTyped` | `JobsSpec => []TypeOK` |
| `RunsAreExclusive` | `JobsSpec => []OneRunAtATime` |
| `IntervalsAreKept` | `JobsSpec => SuccessesAreSpaced` |
| `AlertsTyped` | `Spec => []AlertsTypeOK` |
| `CreationsSerialized` | `Spec => []CreationIsSerialized` |
| `AlertsSound` | `Spec => TriggersAreSound`, which is `TriggeredOnce` and `TriggersAreCurrent` |

`Punctual` is `RunsFitLease /\ (Forced = {} \/ MaxFaults = 0)`. Its first half is what
the registry requires of every `leaseMs`; that without it two runs overlap is in
section 5. Its second half is sharp too: a forced run is not held back by a recent
success, so when the answer to recording a success is lost, the failure recorded
after it may free the lease a forced run took in between.

`VenueProofs` proves of the in-process venue, for any orders, listeners, lot sizes,
calls, ticks and faults (under `VenueAssumption`) and any funding and transfers
(under `CashAssumption` of MCVenue):

| theorem | statement |
|---|---|
| `VenueNeverOverfills` | `VenueSpec => []NeverOverfilled` |
| `VenueLeavesNoGap` | `VenueSpec => []NoGapAfterCursor` |
| `VenueCashAddsUp` | `VenueSpec => []CashIsWhatSettled` |

`SheetsProofs` proves of the browser's forms, for any quantities and amounts and any
number of edits, clicks, retries, reviews and alerts (no assumption on the
constants; `Spec` is that of `MCSheets`):

| theorem | statement |
|---|---|
| `ConfirmsPlaceOnce` | `Spec => []ConfirmPlacesOnce` |
| `ViewsKeepUp` | `Spec => []ViewsFollowOrder` |
| `ReviewsMoveOnce` | `Spec => []OneTransferPerReview` |
| `ReadsWereShown` | `Spec => []ReadOnlyIfShown` |

`FiguresProofs` proves of the figures derived on read, for any quarters filed, any
servers, caches, symbols, requests and times to live (under `FiguresAssumption` of
MCFigures: a year is filed as the model starts, and an open market's quotes live
no longer than a closed one's, as in `TTL_MS`), and of the ranking for any filers,
filings, quotes, overrides and sizes (under `MarketAssumption`: a cik is one
filer's, and counts, floats and prices are natural numbers), and of the portfolio for
any finite sets of symbols and orders, any fee, prices, deposits and withdrawals (under
`PortfolioAssumption`: quantities are positive, prices and the fee are not negative), any
bars the vendor may have, any window and quotes (under `HistoryAssumption`: finitely many
bars a symbol, of a positive duration, and quotes that are not negative):

| theorem | statement |
|---|---|
| `FiguresHaveCurrentCaches` | `FiguresSpec => []CachesAreCurrent`, which is `EpsIsCurrent` of KeyStats and `FreshEnough` of QuoteCache |
| `FiguresKeepNames` | `FiguresSpec => NamesAreKept` |
| `ListsAreLargest` | `FiguresSpec => []ListIsTheLargest`, with any runners that overlap and fail |
| `PublishedListsStand` | with at most one runner, `FiguresSpec => []PublishedListsHold`, which adds `HeadIsKept` |
| `ReplaysAgree` | `FiguresSpec => []ReplayAgrees`: however late and in whatever order fills are booked |
| `SeriesIsTrue` | `FiguresSpec => []PointsAreTrue`: whatever commits while the series is read |

The hypothesis of `PublishedListsStand` is sharp: a run reads the newest list, and publishes
after that; two that overlap may each have been checked against a list that the other
replaces (`HeadIsKept` in section 5).

`ArithmeticProofs` holds the lemmas on sums and proves of the arithmetic, for every amount and every divisor:

| theorem | statement |
|---|---|
| `RoundsToNearest`, `TiesGoToEven` | `HalfEven` is a nearest integer, and the even one of two equally near |
| `BrowserEstimates`, `BrowserReserves` | the ticket's estimate and reserve are the server's notional and reservation, to the cent |
| `BasisIsConserved`, `BasisStaysInCents` | a sale's share of the basis and what stays add up to it, and stay at whole cents |

**The argument.** `BookInv` is the conjunction of `TypeOK`, `BookedExactlyOnce`,
`FillAccounting`, `FilledIsComplete` and `ReservationsDerived`. None of the last
four is inductive alone: that a fill raises `filled` by exactly one lot needs
`filled` not to exceed what is booked, and that a partial fill
leaves the reservation within its bound needs that it was within it before
(`ScalingFollows`: the scaling shrinks an error that has accumulated, and the rounding
adds half a cent to it; where a lot costs whole cents the division is exact). `InitInv` and `NextInv` prove the
induction with one lemma per kind of step: `PlaceStep`, `StatusStep` (shared by
status events, the cancel intent and SUBMIT_FAILED) and `FillStep`, which share
`TransitionRow` for the row a transition writes, `OtherRows` for the rows it
leaves, and `BookingCounts` for the cardinality of the executions booked.
`RowStep` gives the action properties. `LedgerRefinement` maps each
transaction to one of AccountLedger's actions or to a stutter: a new execution
enters `booked` exactly when its `trades` counter leaves zero, which is where
`BookedExactlyOnce` is used. The money theorems rest on `Division`, the
quotient and remainder of integers, and split on where the remainder lies
against half the divisor.

*Sums.* A sum is a fold over a finite set, so its value is known only by
recursion. `Smallest` says that a nonempty set of finite sets has a member of which
no other member is a proper subset (from the library's well-foundedness of strict
inclusion); a statement about sums that failed somewhere would fail at such a
smallest set, and taking one element out of it gives a contradiction. From that
come the lemmas on single updates (one order placed, one reservation scaled, one
execution booked) on which `CoverInv`, the book's invariant with `NeverOverspent`
and `SellsCovered` and the finiteness of what was placed, is inductive. A
placement adds a reservation that its guard on buying power has checked. A fill
takes from the cash at most what it frees of its order's reservation and a cent
(`FillTakesItsShare`), under the premise of `OpenOrdersAreCovered` (`WithinReservation`).
A cent a fill is not inductive by itself, as an order whose roundings have run one way
would break it at its next fill: `Margin` is what an order has not used of its cents
(`Lean` measures how far its reservation leans from what is due), and `BuysCovered`,
with the margins of the open buys on its left, is what every step keeps.

*Transfers.* `RowKinds` sorts every step by what it does to rows and book: a
request, a step of one row, the archive, a trade, a stamp, or nothing. Each kind is
a transaction of the book, which is the refinement. `RowsAndBookAgree` is inductive
with what `CashInv` adds: an archived account has nothing PENDING.
For the cap, a window gains a deposit only from a request, whose check under the
lock looks at the window that ends now; every other step takes deposits out of a
window or leaves them.

*Settlements.* What a call or a pass has seen of an end is still the venue's, and a link is
guarded by the unique index, so `SettlesByTheVenue` needs nothing of who overlaps
whom. For the conditional lemma, `SettleInv` says what a call or a pass still knows of the row it
works on. An end it saw is still the venue's, as the venue never reverts one
(`SeenOK`). A row it loaded without a venue id can since have been linked only by
its own request, and only early in the pass, as a request outlives its row's
creation by `CallTicks` at most (`EntryOK`), while a recovery waits for a grace
period longer than a call and a pass together (`GraceIsOver`); so a recovery that
finds a row unlinked finds it so still when it links (`RecoverKnows`). `RowLinks`
adds that no two rows share a venue id.

*Spendable cash* (the second conditional lemma). Deposits posted are deposits the venue settled, by `RowLinks`.
For withdrawals `SpendInv` says the converse: one that the venue settled is PENDING
or SETTLED here. While the account is active a row fails only if the venue refused
its transfer or will never have it (`EndOK`); for "never reached" because a
complete listing has every transfer of a loaded row that arrived before the pass
began (`ReachOK`), none arrives later than `CallTicks` after its row (`TimesOK`),
and a candidate is passed over only if a row is linked to it, which under both
hypotheses is the row itself (`NeverReached`). The sums follow from `SumPart` and
`SumApart`.

*The pipeline.* A pass may hold an event for as long as it likes, and the stream
redelivers old entries, so an invariant about what is true now is not enough. The
argument is that an event, once it is sound, stays so: it claims an order's end
only if the venue ended the order that way (`SoundEvents`), and an ended order
never changes at the venue (`VenueKeepsEnds`). `PipelineInv` says that every tape
entry and every event held by a pass is sound, and that a pass that saw an order
ended at the venue and then read its executions holds the status the venue still
has. `CursorInv` says that everything up to the cursor was applied, that the
stream reads on from the entry after it, and that an entry whose ULID waits to be
saved was applied too.

*Late executions.* `LateOnlyAfterFalseFailure` compares what the venue did with
what the book knows at an order's end, so it needs more than soundness. `TraceInv`
says in which order the news travels. On the tape, an end comes after all of its
order's executions (`TapeInv`: the venue emits nothing after an end). The stream
skips nothing (`CursorInv`), so when it delivers an end the executions before it
are booked (`BookTrace`). A pass reads an order's executions after its status and
replays them before it (`PassTrace`), so the same holds of an end that a pass
brings, although it read the status long ago. Hence at a local end everything the
venue shows of the order is booked (`EndsComplete`), and `filled_qty` has counted
it unless the end was SUBMIT_FAILED (`Counted`).

*Accounts.* `AccountInv` says what a call still knows after each of its awaits
(`CallOK`). The call that inserted a row owns it until it links it or gives it up
(`OneOwner`): nobody else activates, fails or archives an unlinked row. Rows are
numbered without gaps, and none is inserted while one is open, so the open one is
the last (`LastIsOpen`), which is what makes it the one shown.

*Jobs.* A run holds its job's lease from the clock value its claim wrote
(`HoldsLease`) for as long as it may last, so a claim that finds the lease over
finds no run (`Exclusive`). A lease is freed by whoever records a result. The one
call that records twice, a failure after a success whose answer was lost, may find
its lease free already; but then the success is so recent that the job is due for
nobody. `WasDue` keeps, for each run that was not forced, that it was due when it
was claimed.

*Alerts.* Between the reads and the insert of a creation, its user's lock is held
(`LockHeld`), and triggers and deletes only take alerts away, so the room it saw
stays (`CapKept`). An evaluation carries a bound that ages with it (`Sound`): the
market was open, and each quote it will trigger on was observed, no longer ago
than its own age allows. `MarketInv` bounds what a memoised status may hide.

*The in-process venue.* An emission parks its call in the middle of a method, so what
a call will do next is what it awaits, or what follows the handing out (`Place`). A
call on its way into the book has its order to itself, and the order is not in the
book yet (`CallHolds`, `CallsHold`); a call past that place finds it there. So the
venue acknowledges an order once, `filled` only grows by what is logged at the
same step, and a FILLED event means the whole quantity (`LogHolds`). `StreamInv` follows
each event to each listener: after its cursor, an event is with the listener, in
what it has yet to replay, or in the hands of the call that emitted it, unless it was
muted or lost to a throw. In the cash half a record ends once, as only a pending one
can (`EndsOnce`), and funding lands before any transfer (`FundingFirst`).

*The ticket.* Keys and intents move together, so a request or an order carries the
key of an intent the user has had (`KeyedByIntent`). While that intent is the
present one, what it carries is what the form shows; once it is not, nobody makes
a request of it any more. So a key stands for one side and quantity wherever it got
to, on the wire, at the server or in an answer (`OneMeaning`), and a repeated
request meets its own order and not another's. `AnswersHold` and `ChipHolds` say that an
answer or the chip is never ahead of the order it is about, which is what a
refreshed view needs to catch up.

*The cash sheet and the alerts.* A transfer belongs to the review numbered by its
key, with the amount that review showed (`CashInv`), so a repeated request cannot
conflict. Every list that the panel renders was on a page (`AlertInv`): what is being marked was shown.

*Watchlist.* A row is named by the click that inserted it (`RowsAreNew`), so the row of
an add on its way is on no list yet, in no answer and in no removal. Therefore a
removal clicked before cannot name it (`Safe`), however late it is handled.

*Pages of an order.* No copy is ahead of the book (`NotAhead`). A change shown beside
balances that have data restarts their fetch, and one answered later has read the
book since: an answer under way is at least as new as what was shown
(`AnswerIsCurrent`). A first fetch is not restarted, so nothing is claimed of what was shown before it
ended (`BalancesShown`).

*The trailing EPS.* `TrailingIs` computes what `trailingEps` draws from the facts on
file after any number of quarters: the last fiscal year, less the year to date of
the year before, plus this one's, which is the sum of the last four quarters
(`SumsJoin`); the day arithmetic that tells a year from nine months is in `DaysApart`
and `CoverIs`. So a figure is current if the filings it was drawn from are. `StatsOK`
says which those are: a cached row's figure is drawn from everything filed when it
was checked, and a view that waits for the SEC holds one drawn no earlier than
it began.

*Prices.* `QuotesOK` bounds how late anything remembered may still be used. An entry
lives no longer than the closed market's time from when the vendor had it, and no
longer than the open market's unless it is from before a status of the closed
market has been forgotten (`EntryOK`). The time to live a request holds across its
awaits was right when it began (`RequestOK`), and the entry it writes lives from
when it began, not from when the vendor answered, so however slow it was, what it
leaves in the memo and the rows expires in time.

*The ranking.* `Above` orders the companies linearly, whatever values and symbols tie
(`CompaniesOrdered`), and in a linear order of a finite set the number that come
before an element names its place: each place is taken, by one
(`PlacesTaken`, `PlaceIsUnique`). So a list of `Size` entries has the first `Size`
companies, and whoever is left out is above none of them (`RankedIsLargest`).
`RankingOK` says that what a run ranked is the ranking of the filings and quotes it
holds, from `Rank` to `Save`. For the head, `HeadsOK` adds that a run about to publish was
checked against the newest list, which is inductive only while no other run can
publish in between.

*The replay.* The fills are booked in one order and replayed in another, so that a sale
never exceeds what the replay holds by then has to be an invariant of the order in
which executions *occur*: `SalesCovered` says that before every execution, booked or
not, no more was sold than had been bought and booked (an execution not booked yet
counts as the last of its instant), and that all that was ever placed for sale is
covered by what is booked, which the check on placing (`PlaceKeeps`) keeps as open sells
are taken off what may be sold. With it `HoldingsOK` is inductive. The places of the
fills are those of a linear order again (`ChronoIsLinear`), the fold that replays them
goes fill by fill (`ReplayRuns`), and by a least fill for which it failed, the replay
never oversells and holds the net quantities (`ReplayIsDone`). For the cost basis,
a fill booked in order comes last (`LastAppends`), so the replay grows by a step
as the position does (`FillsGrow`, `BookMatches`), and `AppliedIs` gives what that step
adds to basis and gain, which is what the fill and fee rows add to the ledger
(`LedgerOfFill`).

*The net-worth series.* What a point says is about an instant that is over, and what
it is drawn from was read by statements of which none need have run then. `WasOK` ties
the two together: what was recorded as each instant ended is the sum of the rows the
ledger has of before its end, and the net of the fills booked by then. The rows of an
instant that is over never change (`Later`, which every step satisfies by `StepAdds` and
`LaterIs`), so a read at any later time finds all of them, and at most more of later
instants, which the cut leaves out: `ReadOK` says of the fills and the rows a request
holds that, cut at any instant up to its own, they leave what was recorded. For the fills that takes
`BookedAtOnce`: they are cut where they occurred, and recorded where they were booked.
`HistoryOK` and `GridOK` say what the grid is: ascending instants, each over before the request's
(`GridIs`, from `AscendingIs`). `CarriedIs` says that the close carried into a point is the last one
the vendor has by then, of any symbol held there, since what is held was traded in
the window or held as it opened (`HeldIsInvolved`) and so has its candles in
the grid. With it a point is its own truth (`PointTrue`), and the series
(`SeriesTrue`); `PointsOK` keeps it so while it is shown. `FailsUnpriced` is the converse half: a
series of bars that fails lacks a close.

The attempt to prove it found `PointsAreTrue` wrong as it stood: it held a failed
series to be short of a close at some point of the grid, and a symbol of
which the vendor has no candle at all fails the series even if it was sold again
before any point (`equity-series.ts:119`). `Unpriced` now says so, and the `figures` run
has such a vendor. The operators of EquityHistory and `Learn` were restated
without the library's recursive definitions and `@@`, of which the provers have no rules.

**Model-checked only.** Every safety invariant that a passing run checks is a theorem
without further hypothesis, with these exceptions. `SettledByItsOwnTransfer` and
`SpendableWithinVenueCash` are checked in `cash_recovery` (one pass at a time, two alike
withdrawals) and proved under the hypotheses of the two lemmas above only, of which
that of the second does not hold there; `OneRunAtATime`, `SuccessesAreSpaced` and
`PublishedListsHold` have the hypotheses told with their theorems. Liveness, and everything under
fairness or with ENABLED, stays with TLC.

## 5. What the checks found

`delisted_page` shows a bug. `CachedMarketData.withCache` (`cached.ts:125`) wraps every
error that is not a `ProviderUnavailableError` into one, or serves the expired
row; so an unknown symbol never reaches the handler that waits for it, and the
page of an instrument that left the feed answers 503. `market.ts:53` says: "A
KNOWN instrument whose feed quote is gone (delisting window) must not 404 — this
page hosts the only trading ticket, and a holder must always be able to SELL."

Explorations show the code doing other than a comment or a document says. Of the book and the
order pipeline:

- `JointlyWithinCash` fails in `MCTradingBook`: FINANCIAL_INVARIANTS.md 17 says
  "Racing withdrawals/buys never jointly exceed cash", and 11 that reservations follow
  the formula `limitPrice × remainingQty`. The code scales what is already rounded
  (`orders/service.ts:331`) and rounds each fill's cost on its own: a limit buy of
  three lots at 1.5 cents out of 5 cents reserves 4 (4.5, to even); its first two fills cost 2 each and may
  leave 2 reserved, where the cash is 1. `OpenOrdersAreCovered` allows one cent
  per fill of a buy whose lots are not whole cents, and no more is ever lost.
- `SubmitFailedMeansAbsent` fails in `MCExecutionFaults` with `MaxFaults = 3`: a failed lookup counts as absence (`execution.ts:123`), so
  SUBMIT_FAILED is declared for an order the venue has. EXECUTION.md:51:
  "delivery failed AND reconciliation confirmed the venue never received it".
  Executions are still booked, on a flagged order.
- `StaleStatesConverge` fails in `MCExecutionLive` with `Executions = {x1, x2}` and
  `MaxFaults = 0`: a snapshot reads the order, then its fills (`broker.ts:372`). If
  the last execution falls in between, it is replayed as a partial fill; the
  order stays PARTIALLY_FILLED with everything filled, and the stream's
  ORDER_FILLED is from then on a duplicate. `reconciliation.ts:11`: "stale states
  converge".
- `CancellingOrderSettles` fails in `MCExecutionLive` with
  `FirstStatuses = {"pending_new", "new"}` and `MaxFaults = 0`: CANCEL_PENDING has no edge to REJECTED (`state-machine.ts:57`), so
  an order cancelled while `pending_new` and then rejected throws in the stream
  and in every pass. `reconciliation.ts:195`: "Fills and terminal outcomes always
  apply."
- Open orders beyond the list limit of 100 are invisible to passes
  (`service.ts:369`): `PassListsEveryOpenOrder` fails in `MCExecutionFaults` with two
  orders, `ListLimit = 1` and no fault.
- With `InitialCursor <- MCNull`, `Executions = {x1, x2}` and no fault,
  `EveryExecutionBooked` fails in `MCExecutionLive`: events before the first
  connection (`broker.ts:418`) are left to passes, which see open orders only.
- `FilledQtyMatchesFills` fails in `MCExecutionFaults` with `MaxFaults = 3`: a late
  fill on a terminal order is booked but not counted in `filled_qty`.

Of accounts, cash and jobs:

- `MCCashNeverReached`: a pass that holds a row another pass has linked in the
  meantime fails it as "never reached" (`service.ts:584`). `service.ts:563`: "a
  withdrawal the venue executed must post, or the ledger would exceed venue cash".
  `SpendableWithinVenueCash` fails there too.
- `SpendableWithinVenueCash` fails in `MCCashRecovery`, one pass at a time, with
  `Transfers = Withdrawals = {t1, t2, t3}`, `OpeningCash = 6`, `LastRequest = 2`,
  `MaxLosses = 4` and `CONSTRAINT LostInTurn`: three alike withdrawals whose calls
  were lost, and a listing that lacks the oldest one's transfer. Each row recovers
  the next one's transfer, and a later complete listing has none near enough for
  the last, which is failed although its money left.
- `SettledByItsOwnTransfer` fails in `MCCashOverlap` when `Withdrawals = {}`, so that
  both transfers are equal, and `MaxLosses = 2`: two overlapping recoveries link
  one row to the other's venue transfer. The amounts being equal, the cash is right.
- `HeldLeaseIsExclusive` fails in `MCJobs` with `WorkerTriggers = {w1, w2, w3}` and
  `RunsFitLease = FALSE`: `succeed` and `fail` clear the lease of whoever holds it
  (`job-runs.ts:30`), so a run that outlives its lease releases the next run's.
- `MCResetTwice`: two resets overlap, and the second archives the account the
  first has opened, whose orders it never looked at.
- `MCSetupStuck`: an opening that dies before the link leaves the account
  PROVISIONING for ever, under "This page updates by itself" (`onboarding.tsx:56`).

Of what is derived and shown:

- `HeadIsKept` fails in `MCFigures` with `Screens = {"markets"}`, `Runners = {r1, r2}`
  and `Batch = 6`: two overlapping runs each check their list against the same
  published one, and the second replaces the first's head.
- In `MCFigures`: `NoRowTwice` (a page fetched after a new snapshot repeats a
  company), `SavedCountsAreChecked` (a share count is kept that was never held
  against the public float) and `FairAccess` (each client spaces its own requests
  to the SEC; two have no common limit) fail on their screens.
- In `MCDelisted`: `KeepsWhatItLoaded` fails, as a save that throws answers the
  expired row in place of the price just loaded.
- In `MCFiguresWindow`: `PointsBalance` fails, as a point counts a fill booked late in
  the holdings when it occurred and in the cash when it was booked; and with
  `Orders <- TwoLots` and `Prices <- TwoPrices` so does `GainsMatchLedger`: booked in
  another order than they occurred, the fills leave another basis.
- In `MCVenue`: `NothingAfterTheEnd` (a fill loop parked on its listener goes on
  after a cancel), `AcknowledgedIsTracked` (a listener that throws ends submit
  before the order enters the map) and, with `MaxMutes = 0`, `ReplayThenLive` (the
  listener is live while its replay runs).
- In `MCSheets`: `SameKeyReturnsTheOriginal` (a retry is refused by a market that
  changed, although its order exists), `LandingRefreshesViews` (a transfer that
  lands between two polls is seen by a list whose first sight refreshes nothing)
  and `PanelMarksWhatItShows` (what triggers while the panel is open is not marked).
- In `MCDashboard`: `BalancesAgree` fails (`lib/queries.ts:21`: "so balances never disagree
  across screens"): the first sight of an order refreshes nothing, and a change shown
  while the balances' first fetch is under way does not restart it, as the query library
  cancels a fetch only where there is data, and its success clears the mark, so
  the older balances stay until the next poll;
  `PlacedIsListed` fails with `MaxActs = 3`, as a fetch under way when its page is left clears the
  mark of the order placed meanwhile, and nothing polls until the page is opened
  again; and `FailedMeansKept` fails, as a removal that committed, and whose answer
  was lost, reads "couldn't be removed. Try again." (`(app)/page.tsx:334`).

Seen while modelling and in no run: a row cancelled by a reset before a venue id
was stored is named by nothing at the venue (`cash-transfers/service.ts:538`); a
withdrawal larger than the cash left by an overrun market buy stays PENDING
until an operator acts, as the code says (`:685`); a partial fill that arrives
during CANCEL_PENDING takes the order back to PARTIALLY_FILLED, where the cancel
may be asked for again (`orders/service.ts:295`); and fill activities
are read for at most 20 pages of 100 (`broker.ts:481`).

## 6. Abstractions and what is not modelled

**TradingBook.** One execution is one lot, and quantities are whole lots; prices are in
ten-thousandths of a dollar and money in cents, rounded half to even as `core/money`
does. The code scales by a quotient cut at 40 digits, so a product that would be a tie
may come out just beside it: `NearestCents` allows either cent then. The
reference price of a market buy (`ask ?? last`) is a constant of the order. The average-cost basis is in Portfolio. Opening cash and lots are in `Init`.

**Execution.** One account. Lists are newest-first by the order of `placed`, cut at
`ListLimit`, which the runs never reach. The grace
period (`PENDING_SUBMISSION_GRACE_MS`, 60 s, `reconciliation.ts:44`) starts only after
submit has ended, as two POSTs and a lookup end within 30 s. Every order is a DAY order,
which the venue ends as `expired` or `done_for_day` (`ExpiryStatuses`); that nothing
follows either is an assumption about the venue. `pending_new` is left out of `exec_live`,
since the divergence `CancellingOrderSettles` shows would refute its liveness. The
`reconciliation_status` label and the paging of fill activities are left out.

**CashTransfers.** `CallTicks` and `PassTicks` bound a call and a pass: HTTP calls
abort after 10 s, the grace is 10 min (`container.ts:143`) and the recovery window 5. The opening
deposit's transfer is never in the list, a by-id lookup finds what it looks for
or fails; the seven-day end of the watch, amount parsing and accounts with no
venue account are left out. Bounds: `Resets`, `Unreadable`, `LastRequest`.

**ScheduledJobs.** What a job does is abstract. `RunsFitLease` states what the
code's comment requires of `leaseMs`; section 5 drops it. Clock reads are at
most `CallDelay` old when the statement runs, less than any interval or lease.

**PriceAlerts.** A tick is about a minute: the quote cache's 10 s round to
`QuoteTtl = 0`, the status memo's 60 s to 1, an evaluation to 0. One evaluation per
evaluator begins in a tick. Thresholds are the sets of prices they hold at. The
instance has one symbol, so one batch; the module has any number. Triggering on a
quote observed just before the open is what ADR-016 accepts and is no property here.

**Accounts.** Orders are open or not; venue answers are given, refused or lost.

**DeterministicVenue, VenueCash.** Prices and slippage are a choice of the quote
(it crosses or not), the fixtures' data is left out, a finished call keeps only
its kind, a tick takes the orders in any order.

**Portfolio, EquityHistory.** An order is one fill; limit orders' reservations
count in what a view shows, withdrawal holds do not. Every holding has a quote: the code
leaves one without out of the equity (`core/portfolio/portfolio.ts:97`), which is only
today's point, and a request whose quotes cannot be read fails. **MarketRanking.** Symbols are
numbers, so ties break as the code's comparison does; one symbol of two filers goes by
cik, for the ticker file's order. **KeyStats.** Filings are
quarters. A save that fails leaves the old row and shows the new figure (`SaveFails`); a
company with no EPS history at all, saved as no figure (`key-stats.ts:63`), is left out. **QuoteCache.** The look in the memo and its miss are one step, the
script runs once, an expired memo is forgotten at a tick, the vendor's listing
is its feed.

**OrderTicket, CashSheet, AlertSheet.** One account, one browser tab; a reset or a
delisting comes from elsewhere. `ShownIsConfirmed` compares the terms without the
order's type: a quote lost between the review and the click turns a market order
into a limit order at the price shown, under the same key. **Watchlist.** The one
list exists already (its creation races are the unique index's), the quotes
beside the rows are QuoteCache's. **OrderPages.** One order in four states with a
count of what moved cash; an ended order stays listed, as on its own page; the
history tab and the list of all orders are left out.

The query library's part is external: a `staleTime` of 5 s, an invalidation that
marks every query and restarts the mounted fetches, answers that replace the copy and
clear the mark. A query's first fetch, which has no data yet, is not restarted:
OrderPages models that, and OrderTicket starts with its views loaded; the watchlist's
clicks invalidate nothing, they write the answer's list.

**Not modelled.** The funding port (a simulated implementation with no state of its
own), authentication, sessions and HTTP with its rate limits (library wiring, a
counter per address), container and environment (their timing constants are the
models' CONSTANTS), email (pure output), charts, logos, movers, search and candles
(reads), design components and pages without state, migrations and tooling.

## 7. Plan

Done, in this order: OrderStateMachine, AccountLedger, TradingBook and its
proofs, Execution, CashTransfers, ScheduledJobs, PriceAlerts; then Accounts, Money
and its proofs, Portfolio with EquityHistory, DeterministicVenue with VenueCash,
MarketRanking, KeyStats, QuoteCache, and of the browser OrderTicket, CashSheet,
AlertSheet, Watchlist and OrderPages; then the sums of the book, and on them the
theorems of CashTransfers and Execution. Then the theorems of Accounts, ScheduledJobs and PriceAlerts,
`LateOnlyAfterFalseFailure` for Execution, the exactness of CashTransfers, and the
theorems of the forms, the watchlist, the pages and the in-process venue.

`CachesAreCurrent` and `NamesAreKept` of KeyStats and QuoteCache and
`PublishedListsHold` of MarketRanking followed, and `ReplayAgrees` and `PointsAreTrue` of
Portfolio.

To model: the watch's end after seven days, alerts with two symbols (batches),
the cached candles behind charts.
