# Strategy Lab: a TLA+ verification project

Strategy Lab is a local-first stock backtesting workbench: a FastAPI server on
one asyncio loop, a SQLite state file, strategy processes run one at a time as
subprocesses, a bar-by-bar simulation engine, and a React client. This directory
holds TLA+ modules of its core logic, the TLC runs that check them on small
instances, and TLAPS proofs for every instance.

## 1. Inventory

Paths are under `src/backend/stock_strategy/` unless they start with `src/`.

| Component | State it keeps | Operations | What is hard | What makes it correct |
| --- | --- | --- | --- | --- |
| Job lifecycle (`job_lifecycle.py`) | none (a graph) | `validate_job_transition` | - | terminal statuses have no way out |
| Job executor (`job_store.py`) | `jobs` table, `job.json`, `manifest.json`, `market-data.csv`, `_tasks`, `_execution_lock` | create, launch, cancel, retry, `_execute_job`, reconcile | awaits between a status read and its use; crash between two writes; exceptions outside the `try` | serial execution, final verdicts, complete evidence, nothing left undriven |
| Process runner (`strategy_process.py`) | `_active`, OS processes | run, cancel, timeout, output limit | registration after an await; kill racing exit; process outlives the server | a verdict only after the process ended |
| State repository (`state_repository.py`) | SQLite tables | upsert, transition, delete, list, legacy import | import next to rollback | the table is authoritative, mirrors trail it |
| Event stream (`event_stream.py`) | subscriber queues, event id | publish, stream | bounded queues, slow consumers, late subscribers | increasing ids, the newest event is never dropped |
| Experiments (`experiments.py`) | experiment record, runs, phases | create, launch, `_run`, phases, ranking, reconcile | composes with job cancellation; exceptions between phases | test phase only for rank 1; final status matches the runs |
| Market cache (`market_cache.py`, `cli.py`) | CSV files by request key | descriptor, record, list, delete | one file shared by all equal requests and by orphaned processes; written in place | frozen prices are the prices used; a history is of one fetch |
| Run manifest (`run_manifest.py`) | `manifest.json` | create, update, inventory, atomic writes | partial updates | hashes written before success |
| Strategy repository (`strategy_repository.py`) | files, `versions/` index | create, save, restore, versions | crash between file and index; external edits | no version is lost, stale revisions are refused |
| Strategy migration (`strategy_migration.py`) | files, fixture process | scan, validate, import | await between validation and import | what is imported was validated |
| Broker (`broker.py`) | cash, positions, orders, groups | submit, process_bar, cancel, modify, groups, liquidate | reservations over partial fills, gaps, follow-ups, expiry | accounting identity, cash and sell coverage |
| Execution models (`execution_models.py`) | none | fees, slippage, decide | zero and lot boundaries | a decision never exceeds what is left |
| Futu order API (`futu.py`) | aliases of orders | place, close, cancel, modify, reverse | multi-order protocols | closes never exceed the position |
| Runtime (`runtime.py`) | bar index, equity curve | run_backtest, metrics | warm-up boundary, quit | warm-up bars do not enter the result |
| Portfolio (`portfolio.py`) | weights, cash | run_portfolio, rebalance | affordability, missing bars | no leverage, weights respected |
| Timeframes (`timeframes.py`) | open and closed buckets | append, window | partial bars | no look-ahead, equals batch aggregation |
| Evidence bundle (`evidence_bundle.py`) | ZIP files | export, import | crash half-way | an imported job is complete or absent |
| Application service, web routers, DTOs (`execution_service.py`, `web*.py`, `api_*.py`) | none | HTTP mapping | - | one handler per request |
| Readers and reports (`result_reader.py`, `reporting.py`, `performance_analytics.py`, `market_data_quality.py`) | none | pure functions | - | - |
| OpenD adapters (`opend.py`, `data.py`, `stock_api.py`) | quota, paging | history requests | external service | external |
| Indicators (`stock_indicators.py`, `custom_indicators.py`) | numeric windows | pure numeric code | first bars, two implementations of each function | answers come from the history up to the asked bar; the implementations agree |
| Front end (`src/frontend`) | query cache | polling, SSE | stale caches | not modelled |

How they interact: the web routers call the application service, which calls
`JobStore` and `ExperimentStore` on the one asyncio loop. `ExperimentStore` runs
every phase as a job through `JobStoreProtocol`. `JobStore` hands one job at a
time to `StrategyProcessRunner`; the process runs `cli.py`, which reads or writes
the shared OpenD cache, drives `runtime.py` and the `Broker`, and leaves
artifacts. `JobStore` then freezes the prices, writes manifest and verdict, and
every committed change is published through the event stream.

## 2. Modules

| Module | Models | Builds on |
| --- | --- | --- |
| `JobLifecycle` | the status graph of `job_lifecycle.py` | - |
| `JobContract` | abstract: what the job subsystem promises its callers | `JobLifecycle` |
| `JobStore` | the executor: `job_store.py`, `strategy_process.py`, the `jobs` table | `JobLifecycle`, refines `JobContract` |
| `FillPricing` | fees, slippage, fill prices and quantities of an order in a bar (pure) | - |
| `Broker` | `broker.py` as `runtime.py` and `futu.py` drive it | `FillPricing` |
| `DemoStrategy` | `src/strategies/demo.py`: the order and position state machine of a strategy on the next-bar broker | - |
| `Experiments` | `experiments.py` over the job subsystem | `JobContract` as its environment |
| `MarketData` | the shared OpenD cache: `cli.py`, `opend.py`, `market_cache.py`, freezing in `job_store.py` | - |
| `StrategyRepository` | `strategy_repository.py` and the imports of `strategy_migration.py` | - |
| `EvidenceBundle` | `evidence_bundle.py`, `JobStore.import_evidence_bundle`, the legacy import of a restart | - |
| `Portfolio` | the shared cash pool of `portfolio.py` | - |
| `Timeframes` | the incremental bar series of `timeframes.py` | - |
| `Indicators` | the readers of `futu.py`, `stock_indicators.py` and the language of `custom_indicators.py` | `Timeframes` |
| `WalkForward` | `build_walk_forward_windows` of `experiments.py` | - |
| `EventStream` | the listeners of `event_stream.py` | - |
| `MCJobStore`, `MCBroker`, `MCDemoStrategy`, `MCExperiments`, `MCMarketData`, `MCStrategyRepository`, `MCEvidenceBundle` | small instances for TLC | the module of that name |
| `MCKernels` | `Portfolio`, `Indicators`, `WalkForward` and `EventStream`, each explored on its own | those four |
| `BrokerProofs`, `DemoStrategyProofs`, `StrategyRepositoryProofs`, `EvidenceBundleProofs` | theorems | the module of that name |
| `MarketDataProofs` | theorems about the shared cache, and about bar series and what is told of them | `MarketData`, `Indicators` with `Timeframes` |
| `JobStoreProofs` | theorems about the executor and its event stream | `JobStore`, `EventStream` |
| `ExperimentsProofs` | theorems about experiments, their windows and portfolios | `Experiments`, `WalkForward`, `Portfolio` |
| `SumTheorems` | lemmas about sums over finite sets, used by four of the proof modules | - |

`PROJECT.json` maps every definition to the lines it models. Operators under a
comment `Mutant:` are faulty variants of the definition next to them; they are
part of no specification and show that a property notices such a bug.

### JobStore

The server is one asyncio loop. A handler runs undisturbed until it awaits, so a
handler without two persistent writes is one action. Where a handler writes
several times (row, `job.json`, `manifest.json`, then the event), `loop` names
the handler and the write that comes next: no other handler of the loop can run
then, but a crash can happen, an I/O error can be raised, and strategy processes
go on. `task` says where each `_run_job` coroutine is suspended (`waiting` for
the lock, `spawning` inside `create_subprocess_exec`, `communicating`, `reaping`
after a kill); `lock` and `waiters` are the `asyncio.Lock` with its FIFO queue;
`active` is `StrategyProcessRunner._active`. A process survives a crash of the
server as `orphan`. What it leaves behind (`error`, `partial`, `complete`) is
chosen when it ends. `faulted` only observes which jobs met an I/O error.

### Broker

An action of the strategy is a call of the order API; a call the broker refuses
changes nothing and is no step. `process_bar` visits the pending orders of a bar
one by one (`Visit` and the actions after it), since executions, rejections and
expiries of one order are seen by the next. Money is an integer and proration
rounds down, which the accounting must survive just as it must survive
floating-point rounding; 0 stands for a price that is absent; the participation
models appear as the `capacity` of a bar (volume times participation, rounded
down). `pending_orders` is always in submission order, so it is a set visited by
smallest index. `PendingSellQuantity` counts a set of shares, which is the sum
the code computes and lets the proofs argue about it without recursion.
`FundedTerms` says of the constants when a reservation can be enough at all: buys
have a limit or trade once touched, orders trade in one piece, nothing is sold
short, and a sale is worth its fee. `MCBroker` has TLC evaluate that the instance
of `broker_prices` is on these terms.

### Experiments

A job is the pair of a candidate and a phase, since a phase creates at most one;
phases are numbered in the order they run, 0 is the test. Metrics are an
objective (`score`) and a minimised metric (`cost`), enough for objective,
constraints and Pareto dominance. An aggregate over folds is kept as a sum, and
compared at that scale. `observed` is the local list `validation_phases`,
reduced to what `_aggregate_metrics` makes of it. Every `_write` commits the row
in one step and replaces the file and publishes in the next; `Handler` says which
`except` clause receives an error of either. The jobs under the experiment move
by the actions of `JobContract`, which `JobStore` is shown to implement. A phase
that waits for `run_job` goes on in one of three ways: it returns with the verdict
of a job that had started (`RunJobReturns`), it raises `InvalidJobTransition`
because the job was cancelled in the queue of the lock (`RunJobRefused`), or it
raises after an I/O error (`RunJobRaises`). The last two end in the `except`
clause of `_run_phase`, which fails the phase.

### MarketData

All jobs of the module make one request and so share one cache file. A file is
the sequence of the versions its rows were written from; it is identified by the
process that created it, because a file that was deleted stays open in its
writer. A fetch asks for one page at a time (`FetchPage`), each served from the
history as it is at that moment, so an adjustment may fall between two pages.
`Overwritten` is a write at an offset, with the hole that appears when
another process has cut the file in between. A hash is the content it was
computed from. `shared` observes the jobs that were started while a process of
an earlier server was still alive.

### DemoStrategy

The only strategy of the repository with a state machine of its own, and the
largest file of it. A bar is two steps: the market step is the broker's part of
the bar and the preamble of `handle_data` (change of day, session windows, force
flag), the strategy step is the block that `self.state` selects, down to its
`return`. Orders are remembered by the slot of `book` their id names. Prices are
reduced to what the control reads: whether an order traded, how far the trade has
moved in its favour, the level of the stop. Whether a candle pattern is there is
a free choice at every bar, so the checks hold for every chart. `due` stands for
`trade_realized_pnl`: the shares bought whose result has not been taken in.

### StrategyRepository

One operation runs at a time (no handler awaits between its check and its last
write), but it is several writes: `op.todo` lists those that are left, and
between two of them an editor may change the file, a step may raise, or the
server may die, after which nothing is repaired. The fixture of an import is
awaited, so `imports` keeps the request over any number of other operations.
`held`, `confirmed` and `touched` only observe. A source stands for its text and
for its hash; the disk may damage an index or a snapshot.

### EvidenceBundle

The content of a file is the original job it was written for, so equal hashes are
equal contents; `Rotten` and `Garbled` are what the disk and the way do to it. An
import is a list of steps, each of which may raise. The rollback is modelled as
the code writes it: the directory is removed as far as it can be, then the row,
and each may fail (`spoilt` observes that). `Restart` and `LookUp` are the two
ways in which a directory without a row becomes a job.

### Portfolio, Timeframes, Indicators, WalkForward, EventStream

Small algorithms, as loops of steps whose state is the code's. `Portfolio` makes
the trades of a rebalancing one by one, in whole units of money. `Timeframes`
keeps the series, the number of bars each has taken in and the anchors of the
days, and compares them with an aggregation in one piece. `Indicators` adds no
state: its operators are what a strategy is told of a series that is up to date,
averages as fractions in lowest terms and the missing number as the model value
`NaN`. Exponential averages are written three times in the code, and three times
here. The reference aggregation is split into the bars that open a bucket
(`Openers`), the bars of a bucket (`Members`) and what they make (`Merged`).
`AnswersAreHistory` compares each answer with the driver bars it may depend
on, and each built-in indicator with the same one in the custom language. `WalkForward` cuts the
days, then builds the windows. `EventStream` keeps what every listener was meant
to get.

## 3. Runs

| Run | Question | Bounds |
| --- | --- | --- |
| `jobs_safety` | verdict after process, evidence before success, copies and events trail the table, nothing undriven, `JobContract` implemented | 2 jobs, 2 crashes, 1 I/O error |
| `jobs_liveness` | every accepted job settles; a cancelled one never succeeds | 2 jobs, no crash, no error |
| `jobs_cancel_race` (violation) | a cancelling job has no live process | 2 jobs |
| `broker_accounts` | books balance, fills explain the account, SELL orders are covered, DAY orders trade in time, reversals open once | conservative model, 3 orders of at most 2 shares, 3 intraday bars with volume 0 to 2, the first a warm-up bar, short sales |
| `broker_prices` | reservations cover the buys, limits hold | deterministic model, 2 orders of all eight types, 4 bars with gaps both ways, price amendments |
| `demo_strategy` | no order or share is lost sight of, positions are protected, sales booked once, entries limited | days of 12 minutes with gaps of up to 2, lots of 1 or 2, orders of up to 2 lots, 3 orders kept |
| `experiments_test` | the plan is followed, verdicts, ranks, Pareto frontier, honest status, restart | 3 candidates, 1 crash, 1 I/O error, cancellations |
| `experiments_walk_forward` | aggregates belong to their candidate; every experiment closes | 3 candidates, 2 folds, no crash |
| `market_data` | evidence matches manifest and trade; histories are of one fetch | 3 jobs (1 refreshing), 2 rows in pages of 1, 2 versions, 1 crash |
| `strategies` | versions can be restored, were held, the newest one is in force; histories grow; no unseen overwrite | 1 name, 2 clients, 2 imports, 3 texts, histories of 3 |
| `evidence` | bundles hold the evidence of one job; imports are whole and can be exported again | 1 original, 2 imports, 1 rotten job |
| `kernels` | the four small algorithms against their references | 2 symbols, 4 days; 4 bars out of 6 moments on 3 days of 2 weeks, 3 bar types, `select` up to 3, averages of 1 and 2 bars, MACD of 1, 2 and 2; 24 lengths up to 365 days; 2 listeners, queues of 2, 7 events |

Why the bounds suffice. Two jobs give every pair of coroutines at the lock: a
holder and a waiter, and a job that comes back after a restart next to one of
the last server; two crashes allow a crash during the reconciliation of the
first. One I/O error reaches every `except` clause; with the crashes it also
reaches the rollback that a crash interrupts. Two shares are the least that fills
in two pieces, three orders the least with two pending sells next to the buy that
opened the position, three bars let an order be placed, filled in part, amended
and finished. Three candidates are the least with a winner, a tie or a dominated
candidate, and a failing one between them. Two rows are the least a writer can be
stopped between and, in pages of one, the least that two pages can be told apart
in; two versions are the least that can be mixed. (A version that changes inside a
page needs longer pages: the theorem is for every page size.) Three jobs are a
first writer, a reader and a refresh; an orphan, its successor and the job after.
A trading day of twelve minutes has time before, in and after the windows, for an
entry, a stop that is moved, an exit that is renewed, and a night with any of
them under way; two lots are the least that trade in parts, and a lot of two makes
an odd lot possible. On one strategy name, two clients and two imports are all
that can meet; a history of three holds a text twice. The second import carries
the evidence of the first one's export. Days 5, 6 and 7 straddle the boundary of
a week, and the third bar can be after a gap of minutes or days. A queue of two
overflows with events before and after.
The theorems of section 5 hold for every value of these constants.

Symmetry is used over jobs in `jobs_safety`, over jobs of the same kind in
`market_data`, over clients, imports, ids and listeners in the runs that have
them, all without liveness. `CHECK_DEADLOCK FALSE` where the systems stop when
users stop acting and the bounds are used up; the strategy, repository and
evidence runs check for deadlock.

## 4. Fairness

`jobs_liveness` uses weak fairness of what asyncio does by itself: finish the
handler that is running, resume a coroutine whose future is done, hand on a free
lock. `Terminate(j) \/ RunReturns(j)` is fair because `wait_for` bounds the wait
for a process: it ends or is killed. No user request, no exit of a process, no
error and no restart is assumed to happen. `experiments_walk_forward` assumes
that the coroutine keeps running and that a started job ends; the second is what
`EveryJobSettles` shows of the executor. Both runs exclude crashes and I/O
errors, because nothing in the code restarts a dead server, and an exception
outside the handlers does end a coroutine (`QueuedAndRunningAreDriven` and
`StatusIsHonest` say exactly for whom).

The other modules state safety only. What `DemoStrategy` would owe (a position is
sold in the end) the broker does not give: a sale needs volume. `EventStream`
promises nothing to a listener whose connection blocks.

## 5. Theorems

All proofs are checked by TLAPS with its SMT, Zenon and LS4 backends. They assume
only the named `ASSUME`s of the modules (for series and indicators: the moments of
bars are pairs of numbers, periods are a number of minutes or a day or a week, the
arguments of an indicator are at least 1, and what is not a number is no fraction);
some are stated in their theorems: the terms of `BuysAlwaysFunded` (`FundedTerms`,
section 2); a queue has room for an event (`queue_size` is 128), lengths
are numbers, and a portfolio is one `PortfolioConfig` accepts, with money counted
in a unit in which no price or commission of a share is rounded (`WholeUnits`: the
code computes with floats, whose rounding is not modelled; with coarser units two
fees together could be less than the fee of their sum).

* `JobStoreProofs`. `ExecutorInv` is the inductive invariant: lock, queue,
  process, row, handler and server phase agree pairwise (`LockHeld`, `QueueOK`,
  `ProcessOK`, `RowOK`, `LoopOK`, `PhaseOK`). None of them is inductive alone: a
  live process implies a suspended coroutine, that coroutine holds the lock, and
  only this makes the next `Spawn` safe. It yields `ExecutionsAreSerial` and
  `VerdictsFollowProcesses`. `ContractHolds` maps every step to a step of
  `JobContract` or a stutter; `TerminalStatusIsFinal` follows, for the rollback
  and the legacy import too. `RetriedJobsStayFinished` adds the directories that
  a rolled back retry may leave.
* `BrokerProofs`. `StatusesMatchFills` and `FinishedOrdersStayFinal` come from
  one lemma about each order in each step (`OrderSteps`). `BooksAlwaysBalance`
  adds that a flat position carries neither basis nor fees: partial closes may
  round in any way as long as the last one takes the rest. `SellsNeverOversubscribed`
  is a counting argument: each step changes the set of promised shares by one
  order, and the cardinality is compared with the position; a closed set of
  cases (submit, modify, leave, execute) covers every action.
  `AcceptedSellsAlwaysTrade` follows. `LimitsAlwaysHonoured` is about prices only.
  `FillsAlwaysExplainTheAccount` shows that each execution appends one fill and moves
  cash, position, fees and the order by exactly that fill, so that the sums grow
  together; it also needs that a fill names an order that exists, since an order is
  appended while fills are there. `FillsAlwaysTimely` keeps that until the
  liquidation every fill of a DAY order fell on the date the order was active
  (`OnTime`), for intraday bars that of its submission (`BornToday`), and
  `ReversalsAlwaysOpenOnce` that the opening leg of a closing order is deferred once
  or submitted once, never both (`ReversalInv`).
  `BuysAlwaysFunded`: that cash covers the reservations is not inductive, since a
  fill takes its price and not its reservation. `FundedInv` adds that every pending
  buy has reserved what its quantity costs at the dearest price it can still trade
  at (`Funded`, `PricedBuy`), that nothing pending is filled in part, that no
  reversal is under way and that the position is not short. Then no fill of an order
  costs more than its part of the sum of reservations (`OneOrderFunds`, by
  `SumOfPart`), and every sale brings in at least its fee. Without `FundedTerms` the
  property does not hold, nor does the code promise it: a market or stop order may
  gap above its reservation and is rejected then, each partial fill pays the minimum
  commission again, and so does a sale that is worth less.
* `DemoStrategyProofs`. `DemoInv` is the inductive invariant (`OneOrderAtATime`):
  at most one order matters, the one the state waits for (`Current`,
  `OthersAreOver`), its status is one the state can have left it in (`Fits`), the
  position and the booked result agree with what it traded (`Adds`), the bars
  without a working sale are at most what the waiting counters say (`Bare`), and
  the entries of the day are the counted ones and at most one more (`Within`). None
  of the four properties is inductive without it: whether a dropped id was the last
  trace of an order depends on its status, and that on every action that led there.
  The market step is proved for every bar a broker can deliver (`BarStep`), the
  strategy step action by action, with one lemma for each way a state is left
  (`SettlesStep`, `LeavesStep`, `SellsStep`, `ProtectStep`, `StopStep`). The proof
  also shows what TLC only suggests: two slots for orders are enough, `HOLDING`
  always has a stop order, so the branches of `handle_data` for a stop that was
  cancelled or was never placed are dead under this broker, and so are the empty
  positions of `STOP_REPLACE_CANCEL` and `EXIT_CANCEL_STOP`.
* `ExperimentsProofs`. The invariant places the coroutine (which candidate, which
  phases are behind it), keeps the persisted record ranked (`Ranked`) and says
  that without a coroutine nothing is pending. The core is that a ranking depends
  on verdicts and metrics only (`SameRanking`, `StillEvaluated`), so a write that
  changes no verdict keeps every rank. `BestIsAlwaysOnTheFrontier` follows from
  it: of the candidates with the best score the cheapest is dominated by nobody,
  and there is a cheapest because the candidates are finite. `TypeCorrect` contains
  the bound of the progress counter, which needs the position of the coroutine.
  `PlanIsAlwaysFollowed` and `StatusIsAlwaysHonest` rest on a second invariant,
  `PlanInv`: what the jobs (`JobsAt`), the record of the coroutine and the
  persisted one (`RecordAt`) look like at every point of the coroutine, an I/O
  error or none behind it; that the row knows of the test (`Backed`); and that a
  closed record is true (`Truthful`). Nothing that happens to the jobs behind the
  coroutine can spoil these, since a verdict stands (`Advanced`), so only the
  writes of the coroutine are left (`SavePlan`). `VerdictsAlwaysComeFromJobs` adds
  that what the coroutine has added up is the sum over the scoring phases of its
  candidate that are behind it (`Tally`), by the sum lemmas.
  `WindowsAlwaysTile`: for every number of days, segments are shown not to be empty
  by cases over the number of folds (the products are linear then), to meet, and to
  begin and end with the period. `RebalancesAlwaysSettle`: a symbol that could not
  be afforded stays so, since cash only falls once the purchases have begun and two
  purchases never cost less than one of as many shares (`CostsAdd`); the position in
  the list of trades (`Made`) says for which symbols that is due already.
* `MarketDataProofs`, the cache. Every property of `MarketData`. `AloneInv` (a job that was
  not observed to share the file is alone) carries the argument: the file of a
  lone writer holds the rows written so far (`OneMoreRow`), and a process that
  fetches without being asked has seen no file. `HistoriesAlwaysOfOneFetch` needs
  two invariants more. What a process holds while it fetches consists of pages of
  growing versions (`InPages`, `MorePages` in `ProcessInv`), which is `Fetched` with
  the last page. And what lies in the file or in a process was left by some writer
  who is through or was stopped (`Left`, `SourceInv`): such a writer stays what he
  is (`OverStays`), and the next one starts from an empty file.
* `MarketDataProofs`, the series. `SeriesInv` is the inductive invariant: driver
  bars come in the order of time (`BarsOK`), the series that is being extended is
  behind (`SeriesTypes`), an anchor is the minute of the first bar of its day
  (`AnchorsOK`), every day an intraday series has come across is anchored
  (`DaysAreAnchored`), and every series is the aggregation of the bars it has taken
  in, the one under way included (`SeriesMade`). `SeriesAreAggregates` speaks only of
  series that nobody is extending and would not survive a step. The core is that the
  bars of a bucket are a run of bars: then one more bar either extends the last
  bucket or opens a new one, and no bucket before it changes (`AggregateStep`), for
  every period and across gaps. This needs the anchor of a day to be the same for
  every series, whichever of them met the day first.
  `SeriesSpec` is `Timeframes` by itself, as `BarStep` of `MCKernels` runs it.
  `AnswersAlwaysHistory` takes the five parts of `AnswersAreHistory` in turn from
  `SeriesInv`. Answers end at their bar, because a bucket that is followed by
  another gets no more bars (`AnswersEnd`). A custom bar is a union of buckets, so
  its extremes are those of the extremes and its volume is their sum
  (`CustomWindow`). The languages agree by one lemma for each indicator; the three
  exponential averages are shown to be values of one iteration, by induction stated
  with sets. Crossings tell the side by going back over the bars seen since.
* `StrategyRepositoryProofs`. Every property of the module. The invariant says
  what is on the disk whenever a step comes next (`OpOK`): the text to be recorded
  has been held, its snapshot is there before its entry is written, the entry is
  the last one before the answer is given, and the text about to be replaced is
  the one that was checked unless the editor was faster. A list of steps has only
  eleven possible rests (`ProgramsRun`), which closes the argument without
  induction over sequences.
* `EvidenceBundleProofs`. Every property of the module. `TravelInv` says that
  files which pass the checks are those of one original (`ExportsArePure`);
  `ImportInv` says for every step of an import what directory and row look like
  when it comes next (`UnderWay`) and what a dead server may have left
  (`Recoverable`), from which the restart completes or finds nothing.
* `NewestAlwaysArrive` (in `JobStoreProofs`): what waits in a queue and what was
  sent form one increasing sequence (`Followed`). When an event is pushed out, the
  full queue that takes the new one is an injection of `1..QueueSize` into the
  later events, which gives the count (`QueueIsEnough`).
* `SumTheorems`. The sums of the community modules are folds, defined by a choice
  of a recursive function. The lemmas show that this function exists and that the
  order of summation does not matter, by induction stated with sets (a family of
  subsets that contains a set whenever it contains its proper subsets is all of
  them), from the well-foundedness theorems of the library. `SumOfPart` bounds the
  sum of a part when nothing is negative.

Every invariant and every action property of a passing run is a theorem. Only
model-checked: the liveness properties of `jobs_liveness` and
`experiments_walk_forward`, since the prover reasons neither about fairness nor
about `ENABLED`. What an indicator is worth beyond its history (that a recursive
average computes a particular number) is no theorem: induction over data through
the library's theorems is out of reach, and the sets that replace it here were
needed for agreement only.

## 6. Where code and documents disagree

Shown by a run, see `findings`: a cancellation during `create_subprocess_exec`
kills nothing.

Seen while modelling, part of the modelled behaviour, without a run of their own:

* A crash leaves a cancelling job cancelling for ever: the reconciliation
  (`job_store.py:487`) takes queued and running jobs only, where
  `src/docs/ARCHITECTURE_REVIEW_COMPLETION_2026-07-26.md:19` says that interrupted
  work is reconciled.
* An order can be modified down to its filled quantity (`broker.py:314`) and then
  is pending with nothing left to trade.
* A trailing stop-limit order trades beyond its limit under the conservative model
  (`broker.py:521`, against `src/backend/tests/test_execution_models.py:78`).
* If the manifest write of the price hash fails (`job_store.py:467`), the error
  is looked at only when the path is missing (line 258): the job succeeds without
  the hash. `SucceededIsAudited` therefore asks for the hash only of jobs without
  an I/O error.
* `process_bar` runs in warm-up bars (`runtime.py:171`), so an order placed in
  `initialize()` trades there and changes the cash the evaluation starts from;
  `src/docs/ARCHITECTURE.md:81` keeps warm-up data out of the returns.
* Orders fill partially under the volume models, against
  `src/docs/FUTU_COMPATIBILITY.md:65`.
* A phase that was running at a crash keeps that status in the record of its
  failed candidate, and a walk-forward candidate whose fold fails has no error text.
* `write_history_csv` writes the shared file in place. A process that is killed
  there leaves a part of the history, and the next equal request takes it as a
  cache hit. `HistoriesAreOfOneFetch` allows exactly that: the rows the stopped
  writer had written of one fetch, and nothing else.
* `fetch_history_kline` asks for a page at a time (`opend.py:283`) and compares
  none with the others. When OpenD adjusts the history between two pages, the rows
  before and after are in different prices, and file and evidence keep both.
  `HistoriesAreOfOneFetch` allows this at the end of a page only.
* A phase job that is cancelled before it starts is a failed phase, one that is
  cancelled later a cancelled one: `_run_job` lets `InvalidJobTransition` out of the
  first (`job_store.py:206`), and `_run_phase` takes it for a failure
  (`experiments.py:418`). `VerdictsComeFromJobs` allows a failed candidate whose job
  was cancelled.
* A process that outlives its server may rewrite the shared file while a job of
  the next server runs. The job's evidence still matches its manifest, but may not
  be what its process traded on, which the reproducible result of
  `src/docs/RUN_MANIFEST.md:26` presumes; `FrozenIsTraded` is stated for the
  other jobs.
* A save replaces the strategy file before it finds the index unreadable and
  answers 422 (`strategy_repository.py:126`): the text is in force, without a
  version. A text that a crash or an editor left without a version is recorded
  only if `versions()` is called before the next save. A snapshot that was damaged
  is never written again, so its version can no longer be restored.
* `request.json` is in no comparison of an export or an import, although the
  manifest has its hash: it may rot unnoticed (`OnlyEvidenceTravels` excepts it).
* What `rmtree` could not remove of a failed import is a succeeded job after the
  next start when `job.json` is among it; a failed deletion leaves a row without a
  directory. The `.import-` directory of an import that a crash ended is never
  removed. `ImportsAreWhole` speaks of imports whose rollback finished.
* A sale pays the minimum commission even when it exceeds its proceeds
  (`portfolio.py:271`), so the cash of the pool can become negative; `Targets`
  then is zero, as `max(0, ...)` makes it.
* A target period equal to the driver's may merge driver bars that are not whole
  periods after the first bar of their day (`timeframes.py`, `_bucket`).
* An indicator of an indicator in the custom language is never a number when the
  inner one starts late: `EMA` averages its first values, `nan` among them
  (`custom_indicators.py:232`), so a MACD signal line written as `EMA(DIF,9)` stays
  `nan` for ever. `REF` by more bars than there are gives a series that is too long
  (line 257), and arithmetic with it raises `DataUnavailableError` on those bars
  where it would be `nan`. `LanguagesAgree` compares neither.
* `bar_custom` takes custom bars of a minute, an hour or a day only
  (`futu.py:1008`); `CustomBarsAreMerged` is evaluated, and proved, for every period.
* The first bar of a series has the `last_close` that OpenD delivers with it
  (`timeframes.py:72`); the model has none there, so nothing is said about it.
* A browser that reconnects is a new listener without `Last-Event-ID`, so it
  never gets what was published while it was away.
* `demo.py` cannot sell an odd lot that a partial fill leaves: `EXIT_SUBMIT`,
  `EXIT_WAIT_FILL` and `STOP_FILL_SYNC` then wait on every bar. And the comment at
  line 1878 (no pattern survives the lunch break or the close) does not hold across missing
  bars. `NothingIsOrphaned` and `HeldIsProtected` speak of what the broker would sell.

## 7. Not modelled

Formatting, validation of requests and HTTP status codes; statistics, reports
and the indicators beyond those of `Indicators` (real arithmetic, no state); the FUTU fee tables (they change the fee
of a fill only); market data parsing beyond what makes a file unreadable; resource
limits and the restricted runtime (configuration of one process). The strategy SDK
is a pure pipeline called once per bar. `expand_parameter_grid` is a product of
lists that a definition would restate. The React client only re-reads what the
server persists. The symbol directory is a cache of an external service.
SQLite transactions are atomic steps, `os.replace` is atomic.

## 8. Plan

Done, in the order of importance: executor, broker, experiments, market data; the
demo strategy, the strategy repository with its imports, evidence bundles, and the
four small algorithms. What is left:

1. The rest of `futu.py` (order groups) and of `runtime.py` as drivers of `Broker`.
2. `DemoStrategy` composed with `Broker` instead of with the rules of its next-bar
   book, once both can be explored together.
