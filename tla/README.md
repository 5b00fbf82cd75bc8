# Quantora: models, checks and proofs

This directory holds TLA+ models of Quantora, a quant research terminal: a Go
API (`apps/api`) over a Python quant engine (`services/quant`) with a C++
execution engine (`services/execution-cpp`), a PostgreSQL schema
(`db/migrations`) and a web interface (`apps/web`). Every definition is
translated from the source named by its entry in `PROJECT.json`; faulty
variants of an operation (marked "Faulty variant") stand next to it, and show
that the properties notice the corresponding bug.

## 1. The system

### Parts, their state and operations

| Part | State | Operations | What makes it hard | What makes it correct |
|---|---|---|---|---|
| Portfolio accounting (`backtest/portfolio.py`, `costs.py`, `events.py`) | cash, position, average price, entry costs, totals, trades | `apply_fill`: open, add, partly close, close, reverse; affordability | any sequence of fills; truncation; the sign of the position | money is conserved, each cost is charged once |
| Backtest engine (`backtest/engine.py`, `config.py`) | bar index, the single pending order, suppressed directions, equity curve, logs | fill, mark, decide, close out, per bar | decision and execution are a bar apart; a stop must outlast the bar that set it | no look-ahead, orders settled, cash and direction within the rules |
| Engine with given targets (`simulate_targets`), C++ engine (`backtest/cpp_engine.py`, `execution-cpp/src/`) | the same, without exits; whether the extension can be loaded | the same loop in two languages | two implementations, in two styles, must agree on every amount | after every step the two have the same account, equity, waiting order and counts |
| Strategies (`strategies/`) | parameters, attached second leg | `create` from the registry, `attach_auxiliary_series`, `generate_signals`, `position_size`, `check_exit` | values of any JSON kind; columns shifted, rolled and forward-filled; a second leg with gaps | parameters within their bounds; flat until warm; a bar never changes the signals before it; a trade ends when its reason does |
| Indicators, metrics (`indicators/`, `backtest/metrics.py`) | none | rolling statistics; the metrics of a run | windows not yet full; quantities that do not exist | a metric without a value says the true reason |
| Market data (`data/`) | none; the provider's history changes | `get_prices`: resolve, fetch, normalise, validate | history is revised between two downloads | an accepted series is the sessions of one download, in order, once, with prices one could trade at; a data version identifies them |
| Runner, result contract (`backtest/runner.py`, `result.py`) | one job per call | fetch the instrument, fetch a second leg, compute, answer | two fetches at two times | a result says what it was computed from |
| Comparison (`backtest/compare.py`) | per request: bars, cache of second legs, runs, failures | one run after the other over the same data, then the table | one of several fails; labels collide; the provider answers differently each time | same bars for all; every strategy once, under its own label; the best is the best |
| Portfolio analytics (`services/quant/portfolio/`) | none | value, align, risk, reweight | histories of different lengths; overrides that add and remove | every holding weighed or named as dropped; a scenario moves what it was told to |
| Session store (`internal/backtest/`) | records, their order | save with eviction, get, list | concurrent requests, a full store, restarts | the most recent results, index and records agree |
| Experiments (`internal/experiment/`, `storage/postgres/experiments.go`) | the `experiments` table | save (promote or inline), rerun, delete | a rerun is months later, on other data and another build | acknowledged saves last; the verdict of a rerun is right |
| Portfolios (`internal/portfolio/`, `storage/postgres/portfolios.go`) | `portfolios`, `positions`, `risk_reports` | create, update, delete, analyse, scenario | statements of several requests interleave; broken connections | a portfolio is one save; nothing refers to what is gone |
| Quant client (`internal/quant/`) | none | one HTTP call with a timeout | no answer, a late answer | every call ends |
| API process (`cmd/api`, `httpapi`, `storage/postgres/postgres.go`) | health probes, the pool | start (wait, migrations), serve, probe, drain | timeouts against one another | never serves without a migrated database |
| Web interface, MCP stub, scripts, delivery | - | - | - | - |

### How they interact

A request to the API runs in a goroutine of its own. To run a backtest it calls
the quant service over HTTP and waits (110 s by default). The quant service
fetches the bars of the instrument and, for a pair strategy, of a second
instrument; computes signals, simulates and answers with the result contract.
The API keeps the result in the session store, under a lock. Saving an
experiment takes a result from that store, or runs one, and inserts a row;
rerunning it reads the row, replays its configuration and compares. Portfolios
live in three tables; saving one is a transaction, reading one is two
statements without a transaction, analysing one is a read, a call of the
engine and possibly an insert. The provider's history, the deployed build and
the API process change underneath all of this.

## 2. The modules

    Portfolio <- BacktestEngine             the simulator
        <- ExecutionParity <- MCExecutionParity       with targets, in two languages
        BacktestEngineProofs <- ExecutionParityProofs
    Indicators <- StrategyContract <- Strategies <- MCStrategies, StrategiesProofs
    MarketData, Metrics <- PortfolioRisk    ) <- QuantRequests <- MCQuantRequests
    Portfolio, Metrics <- Comparison        )                  <- QuantRequestsProofs
    CountingTheorems                        finite sets, sums over them, induction
        <- StrategiesProofs, QuantRequestsProofs
    RecentResults <- BacktestStore          the session store and what it promises
        <- BacktestStoreProofs
    QuantEngine                             one backtest as the API sees it
    BacktestStore, QuantEngine <- ExperimentService <- MCExperimentService
        BacktestStoreProofs <- ExperimentServiceProofs
    PortfolioService <- MCPortfolioService, PortfolioServiceProofs

**`Portfolio`** has the cost model, fills and accounting as operators on an
account record. `Book` moves the money of a fill, and `OpenPosition`,
`AddToPosition`, `ClosePosition` and `Reverse` are the branches of
`apply_fill`; `MaxAffordableQuantity` and `CanAfford` are the checks before a
buy. In the code amounts are floats; here they are integers in a unit fine
enough to make every operation exact (prices in ticks; money in ticks times
`BPS`), except that the commission of a fill and the shares of costs in a
partial close are rounded to that unit. In place of the average entry price the account
holds the cost basis, quantity times average price.

**`BacktestEngine`** is the loop of `_run_execution` with the `decide` function
of `simulate`, one action per part of the body: `NextBar`, then `FillInFull`,
`FillReduced` or `SkipBuy` if an order is pending, `MarkToMarket`, then
`ExitPosition` (a stop or a time exit) or `FollowSignal`, and at the end
`Liquidate` or `LeaveOpen`. Signals, strengths and exits are arbitrary at every
bar, which covers every strategy and every indicator at once. `tally` counts what the code
logs. Invalid bars never reach the loop, so prices are positive.

**`ExecutionParity`** extends it with calls of `simulate_targets`, where a
target array decides. Each action conjoins a step of the Python loop with the
step the C++ loop takes on the same bar. The C++ state `cpp` is translated from
`simulator.cpp` and `portfolio.cpp`, branch by branch (`CppClose` and
`CppApplyFill` are organised as that code is); only the amounts a fill carries
and the shape of an account are shared. `Loaded` is how `cpp_engine.py` looks
for the extension, and `Refused` the checks of the arguments.

**`Strategies`** creates a strategy from a request as the registry does
(**`StrategyContract`**: kinds of values, coercion, bounds, forward fill and the
short-selling filter), attaches a second leg, and extends the series one bar at
a time. `generate_signals` is a pure function in the code, so it is an operator,
evaluated again over the longer series: that is what relates the signals of two
date ranges. **`Indicators`** computes over integers: means are kept times the
window, deviations squared, exponential averages times a `Scale` that their
divisions leave whole. The z-score and correlation of a pair are classes (below
the entry band, between the bands, ..., undefined) that may occur from the bar on
which their windows are full.

**`QuantRequests`** is one request to the quant service that downloads: prices,
a comparison, a risk report, a scenario. `Download` fetches the next symbol the
request needs, and the provider may answer with any frame of `Downloads`, a
different one each time, or not at all; `AttachLeg` and `RunStrategy` take a
comparison from strategy to strategy; `Finish` ends the request, which is answered
with `CompareResponse`, `RiskResponse` or `ScenarioResponse` of what it gathered, and
`Send` forgets everything. What a response is made of is in **`MarketData`**
(`get_prices`: normalise, trim, adjust, validate, gaps), **`Metrics`**,
**`Comparison`** (labels, table, buy and hold) and **`PortfolioRisk`** (window,
coverage, report, overrides), as operators. Values that take a root, a power or
a regression are only known to be `Defined` or not. The result of a strategy is
any of a few equity curves, since the engine and the strategies are modelled
elsewhere.

**`BacktestStore`** is `Service.Run` and `MemoryStore`: `StartRun`, `AnswerRun`
or `FailRun`, `StoreRun` (one step, as it runs under the lock), `Restart`.
`Get` and `List` change nothing. **`RecentResults`** is what it
promises: a window on the most recently completed results. `KeepsTheMostRecent`
is the refinement; the window is the order slice with the results it points to.

**`QuantEngine`** is one job of the quant service per caller: `Ask`,
`FetchPrimary`, `FetchSecond`, then `Complete` with the result contract or
`Fail`. `Revise` and `Deploy` are the provider and the deployment. A request may
leave settings out (`Unset`), and the build that runs it fills in its own defaults
(`Filled`). A build has a version of its code (`Code`) and defaults (`Default`), and
may change either without the other. Metrics are a constant function of the code,
the settings and both revisions; the instances make it injective, so that whatever
could change a number does.

**`ExperimentService`** composes the two (both by INSTANCE, over shared
variables) with the `experiments` table: `RunAsks` ... `RunFails` are a POST of a
backtest, `Promote`, `InlineAsks`, `InlineAnswered`, `Insert`, `InsertErrs` a
save, `RerunAsks` and `RerunAnswered` a rerun, `Delete` and `NotFound` the rest.
`Encoded` is what the client's JSON makes of a request: a field tagged `omitempty`
that is the zero of its type (`Zero`) is not sent. `Replayed` is
`applyStoredConfig`, field by field with its fallbacks; a cost model is one value
here, since a result always reports all four of its numbers, so the fallbacks for
one of them are never used.
A failed insert may have been committed. A restart of the API cuts off its
requests and empties the store.

**`PortfolioService`** has one action per SQL statement under READ COMMITTED:
`ReadHeader` and `ReadRows` are the two statements of `GetPortfolio`; `Upsert`
takes the row lock, `Replace` the delete and inserts, `Commit`,
`CommitUnheard` and `Rollback` the ends of the transaction; `Delete` cascades;
`SaveReport` is checked by the foreign key. The benchmark stands for all of the
header row, a value of `HoldingSets` for all rows of positions, and
`Refused` holdings are those the database rejects although the request's
validation lets them through.

## 3. The runs

| Run | Asks | Bounds |
|---|---|---|
| `engine_long_only` | Are orders settled on the bar after their decision, is a position never churned, are cash and position never negative, and are reduced buys smaller? | 5 bars, 3 prices, proportional commission and slippage of 10 % each, so that gaps make orders unaffordable; reduced, skipped and full buys all occur |
| `engine_long_short` | Do the accounting identities survive additions, partial closes and reversals, does a fill lose exactly its costs, do stops hold on both sides, does the close-out leave nothing but cash, for signals and for targets? Does the C++ executor agree after every step? | 5 bars, 2 prices, 2 strengths, 4 targets (a short, nothing, a long, more than cash buys), all three costs, a minimum commission, every way the extension can be missing and every length of the arguments |
| `engine_minimum_commission_cash` | *violation*: cash goes negative (finding 1) | 4 bars |
| `strategies` | Are parameters within their bounds whatever was given? Is a strategy flat until warm, are signals never changed by later bars, does a reversion end at the middle, does a range come from completed bars, does a pair never resume a position the legs decoupled from? | 38 requests, odd ones among them; 3 prices or all coherent candles over 3; series up to 6 (Bollinger), 8 (MACD), 4 (Dual Thrust) and 13 bars (pairs), each past its warm-up by at least the bars a trade takes to open, end and open again |
| `macd_zero_line` | *violation*: a position outlives the side of zero it requires (finding 5) | one MACD, 8 bars |
| `quant_requests` | Is an accepted series sound? Do compared strategies run on the same bars, none lost and none under the label of another, unless a given label imitates the numbering? Are reasons true, and is the best the best? Does a report account for every holding, and does a scenario move only what it was told? Does every request end? | one index, two shares, five sessions of a week, 16 frames (revised, split, shuffled, short, sparse, refused); up to 3 strategies, 2 holdings, 2 overrides |
| `compare_labels` | *violation*: two rows of a comparison have one label (finding 2) | one request of 3 strategies |
| `store_recent` | Do index and records agree, is the store a window on the most recent results, does every run end? | 4 requests, capacity 2, two payloads, one restart: the store is full, evicts twice, and is emptied |
| `experiments` | Does a rerun run with what was stored, whatever the defaults are by then? What can be behind a verdict of regression? Do acknowledged saves last, as they were computed? | 3 requests (a save, its rerun and its deletion, or a run, its promotion and a rerun) that leave costs and rate to the defaults; one revision per leg; two deployments, the first changes the default costs and rate, the second the code; one restart |
| `experiments_pair_verdict` | *violation*: a revised second leg is reported as a regression (finding 3) | 2 requests |
| `portfolio_tables` | Is a portfolio always that of one save? Does nothing refer to one that is gone? Does no lock outlive its transaction? | 3 requests on the portfolios they create, 2 benchmarks, a refused set of holdings, one restart |
| `portfolio_torn_report` | *violation*: a report mixes two saves (finding 4) | 3 requests |

The bounds are the smallest at which each interesting case happens: three
requests are a creation with a writer and a reader or deleter that race over
what it created; five bars are a position opened, stopped, barred from re-entry
and opened again; a store of two places with four requests evicts twice; three
strategies are one that downloads a second leg, one that fails after it and one that
wants the leg again. In `quant_requests` the sample a report needs is 2 returns
instead of 20, so that a week can have too few of them, just enough and more, and
the coverage rule (80 %) is the code's own. Every ratio of prices is a whole number
of twelfths there, so the exact arithmetic loses nothing.
Requests are interchangeable where symmetry is used, and only safety is checked
there. Deadlock is not checked for the three Go services, whose requests are
finite in number and may all be over, nor for a strategy, whose series may end;
it is checked for the engine, which stutters explicitly when done, and for the
quant service, which is always ready for the next request.

**Faulty variants.** For every property of every passing run, `PROJECT.json`
names a variant of a mapped definition that breaks it: an order eligible on its
own bar, a suppression that is forgotten, a C++ slot not emptied after a skipped
order, a forced flat applied after the forward fill, a second leg downloaded for
every strategy, coverage against the first holding's calendar, an eviction from
the wrong end, a rerun at today's default costs, a dropped insert error, a rollback
that keeps the lock.

**Fairness.** `BacktestStore!FairSpec` has weak fairness of `FailRun` and
`StoreRun`: the client's timeout ends a call that is not answered, and the API's
own code runs on; nothing obliges the engine to answer. `QuantRequests!Spec` has
weak fairness of `Work`: a handler runs to its end, and a download ends by an
answer or by its timeout; nothing obliges a caller to ask. All other runs check
safety only and assume no fairness.

## 4. What the code does that its text does not say

Five disagreements have a run that shows them:

1. *Minimum commission* (`portfolio.py:296`): the affordable quantity ignores
   `commission_min`, so a reduced buy overdraws the cash. From there equity can
   be negative, and a LONG signal becomes a short sale in a long-only run; a
   reduced buy can also be larger than the ordered one. All three vanish with a
   minimum of 0, the default, as the theorems below show.
2. *Labels* (`compare.py:81`, "Labels that are guaranteed distinct"): the labels `x`,
   `x`, `x #2` come out with `x #2` twice, and the response, whose curves are
   keyed by label, shows one strategy less. `EntriesAccounted` counts the rows and their
   labels for every request, this one among them, and claims that labels differ
   where none that was given is the numbered form of another (`Imitated`).
3. *Pair verdicts* (`result.py:96`): the data version covers the first leg
   only, so revised history of the second is reported as a regression.
4. *Torn reads* (`portfolios.go:90`): a portfolio is read by two statements, and
   a report can describe holdings and a benchmark that were never saved
   together.
5. *Zero line* (`macd.py:97`): `require_zero_line` filters the crossovers only,
   so a position is kept when the MACD line passes to the other side of zero,
   and the opposite crossover may be filtered out: what it declares holds at
   entries, not while a position is held.

Two more are not runs of their own, but what the code does instead is stated by a
property or a definition:

- *Replay* (`client.go:108`): a stored rate of zero is the zero of its type, so
  `omitempty` drops it from the request of a rerun and the build that reruns
  applies its own default (`schemas.py:37`), where `Rerun` promises that the
  stored configuration is "replayed verbatim rather than merged with today's
  defaults" (`service.go:126-128`). The default is zero in this commit, so it takes a
  build that changes it. `StoredConfigReplayed` states exactly this: every other
  setting is the stored one, and a rate of zero becomes that default.
  `VerdictExplained` lists it (`RateMoved`) among the causes of a regression verdict.
- *Realized profit* (`portfolio.py:245`): slippage is in the fill prices from which
  gross profit is computed, and is subtracted again as part of the costs (`costs` of
  `ClosePosition`), so the `pnl` of a trade is not the "number a user actually keeps" (`portfolio.py:32-33`).

The tables also show (no document speaks of it) that an update under way
while its portfolio is deleted inserts the portfolio anew.

Others were met while translating and have no run of their own. The models follow
the code in each, or say which inputs they leave out.

- `compare.py`, `_buy_and_hold`: the quantity is what the capital buys without the
  commission, so the reference can start overdrawn.
- `validation.py`: the severity looks at the gap that misses the most weekdays, so
  a longer gap in calendar days beside it is not escalated.
- `base.py`: NaN passes the bounds of a float parameter, and any non-empty text
  counts as a true flag. `Strategies!TypeOK` allows the first explicitly.
- `pair_trading.py`: a bar missing from the second leg is flat, and the position
  is resumed on the next common bar, unlike one lost by decoupling.
  `FreshEntries` is therefore stated over the common bars.
- `bollinger.py`: a short that ends on exactly the middle and then rises is
  reported as an exit of a long.
- `risk.py`, `load_window`: the benchmark's returns are taken on its own calendar
  before the alignment, so beta may pair a return over several sessions with one
  over a single session.
- `metrics.py`: an equity of exactly zero before the last bar gives an infinite
  return, and a negative one a return of the wrong sign. Curves with either are left
  out of the models (`OutcomeAssumption`), so nothing is said of their metrics; at
  the last bar both are allowed.
- `provider.py:73-75`: where a frame has no adjusted column the comment says that
  the recorded adjustment policy stays "raw", but `service.py:164` records the
  policy asked for, "adjusted". The record of provenance is not modelled.

## 5. The theorems

Proved by TLAPS. Those about the simulator hold for every series length, price
set, cost model, capital, target set and configuration that satisfies the
modules' assumptions (`CostAssumption`, `CashAssumption`, `EngineAssumption`,
`TargetAssumption`: widths and signs of the constants only); those about the
services for any number of requests, capacity, benchmarks, holdings and restarts
(`StoreAssumption`, `ServiceAssumption`, `SettingsAssumption`, `ResultAssumption`,
`PortfolioAssumption`);
those about requests to the quant service for any universe, requests, downloads and
outcomes of a run; those about the strategies for any prices, requests and length of
series (`ScaleAssumption`, `InstrumentAssumption`, `ValueAssumption`).

What is supposed of requests and downloads is what the routes parse and what a frame is
(`ParsedAssumption`, `FrameAssumption`, `RequestAssumption`, `FieldAssumption`,
`WindowAssumption`): the rows of a frame may have any number or none in any field and come in
any order. `NumberingAssumption` is about strings: appending " #" and a number gives
different strings for different labels or numbers, and never the value that stands for no
label. `OutcomeAssumption` is about the run of a strategy and states what the metrics
need of it, the restrictions of `Metrics` included: equity is positive but for the last bar
(so neither zero nor negative before it),
and amounts are whole parts of the initial capital (in the code they are floats and their
quotients need not be whole; without this, two runs that differ by less than the last
part would tie by return and not by equity). TLC evaluates every one of them.

*Accounting* (`BacktestEngineProofs`). `ApplyFillPreserves`: from any well-formed
account, any fill leads to a well-formed account with the same balance (cash,
plus signed basis, less gross profit, plus commissions) and no cost lost or
doubled. One lemma per branch of `apply_fill`; `Reverse` is a close followed by
an open, and uses both. The arithmetic that matters is in `ShareBounds`: a share
of a cost never exceeds it, so what is released in parts never exceeds what was put in.

*The loop* (`BacktestEngineProofs`). None of the invariants is inductive by
itself: `OrdersSettled` needs to know in which phases the slot can be full,
`FillsOnNextBar` that a pending order was stamped when the slot was filled and
the bar has advanced by one since, and the identities that a flat account has
no basis and no entry costs. `IInv` adds these (`QueueInv`, `TallyInv`,
`AccountInv`) to the type invariant. `InitIInv` and `StepIInv`, with one case
per action, give `Invariance`; from it follow `TypeCorrect`, `Causality`,
`Settlement`, `Reconciliation`, `Attribution` and `CleanClose`. `HonestFills` is
an action property: `FillCharges` and `FillLoses` compute what each branch of a
fill does to the value of the account, and the invariant supplies that the
account is well formed.

*Solvency* (`BacktestEngineProofs`), assuming `CommissionMin = 0`, which finding 1
shows is needed. `SolvencyInv` adds that a pending sale of a long-only run does
not exceed the position and that equity is not negative when it is sized: so a
LONG target is never negative. `AffordableIsCovered` shows that the truncated
quotient of the affordability check covers its commission. Hence `Solvency` and
`NeverShort`; and `ReducedBuys`, since a quantity that is affordable costs less
than one that is not (`CommissionGrows`). `StopsHold` and `PositionsAreLeftAlone`
need one more part each: `StopInv`, that in a barred direction the position is on its
side or flat, and what waits closes it exactly; and `ChurnInv`, that in a long-only run
without rebalancing an order waits only to open from nothing or to sell.

*The two executors* (`ExecutionParityProofs`). `CloseAgrees` and
`ApplyFillAgrees` show that the two ways of booking a fill compute the same
account, for every account and fill: a position closed in full is reset by one and
left with what the shares leave, which is nothing, by the other. `MirrorInv` says
that the C++ state, once it exists, is a copy of the Python one; one lemma per part
of the loop keeps it, and `IInv` is needed with it, because the bookings agree on
well-formed accounts only. Hence `ExecutorsAgree`; and since a decision by target
places an order like any other (`DecisionKeepsIInv`), `TargetsReconcile`.

*The store* (`BacktestStoreProofs`). `IInv` adds to `TypeOK` that the index lists
each record once, under its own ID and within the capacity (`IndexInv`), and that a
request which has not saved is not in the store (`StageInv`), without which a save could
list an ID twice. From it follow `TypeCorrect` and `IndexAgrees`; and `StoreIsAWindow`,
the refinement of `RecentResults`: a save appends to the window and drops its
head when full, a restart empties it, every other step leaves it alone.

*Experiments* (`ExperimentServiceProofs`). The store's proofs are used as they
stand: `StepIsOfTheStore` shows that every step of the service is a step of the
store or leaves it alone, so the store's invariant holds inside the service
(`StoreKept`), and so does its specification (`UsesTheStore`). The rest of `IInv` says that
results are sound wherever they are, in a job, in the store, in the table or in the hands
of a request (`SoundInv`, `JobInv`): without a second leg they hold nothing of one; that
what a rerun was answered with has the configuration it read, but perhaps for the
rate (`CallInv`); that a record, and what is promoted from it, is what its run was
answered with (`ShownInv`); and that acknowledged rows are in the table (`RowsInv`).
The step that matters is `ReplayRuns`: a configuration that a result reports, replayed,
encoded and filled in by any later build, is that configuration again in every
setting but a rate of zero, which takes that build's default (`SameButRate`). A rerun that
agrees on the data version then differs by its code, by a second leg it does have or by that
rate, which is `Explained`; `Replays` is `SameButRate` itself. `SavesLast` is inductive with them: an ID is inserted
once, by its request, and nothing but a deletion removes it. `SettingsAssumption`
says which settings exist: capital, costs and an execution model are never zero, empty or
left out of a configuration, as the bounds of the engine require.

*Strategies* (`StrategiesProofs`). `IInv` says that parameters are within bounds, that
signals, if any, are what `Generate` computes over the series as it stands, and that
the bars are of the kind the strategy reads. What a property says of signals then
follows from the functions themselves. Forward filling is the heart of most of it:
`HeldDecision` says a bar has the latest decision made up to it, and rests on
`LastOne`, that a non-empty set of bars has a last one. Hence
`FlatInWarmUp` (no decision before the warm-up), `EntriesAreFresh` (every unusable
bar is itself a decision) and `RangeIsOfThePast`. `ReversionEnds` takes the first
bar on the far side of the middle since the entry, which is a crossing and so a decision.
`PastSignalsStand` shows that each decision reads no later bar (`BollingerReads`,
`ThrustReads`, `PairReads`), and that a decision on a later bar does not change what
is held before it (`HoldPrefix`). A rolling sum is whole and reads its window only,
which `CountingTheorems` gives; the recursive averages of MACD exist by induction
over the bars (`AverageExists`) and read only what they average (`EmaReads`, `MacdReads`).

*Finite sets* (`CountingTheorems`), lemmas the proofs above and below rest on, which say
nothing of the system themselves. The induction theorems of the library take the
predicate as an operator, which the provers cannot instantiate. Here the predicate is
the set of the finite sets, or of the numbers, that have the property (`SetInduction`,
`IntervalInduction`), which separation gives and every prover can be handed; they follow
from the well-foundedness of strict inclusion. From them come the extremes of a
finite set (`Greatest`, `Least`), the ranks of its elements in an order, which are
what a sort and a filter are made of (`Ranks`, `Ranked`), and the sums that
`MapThenSumSet` computes: `SumRecursion`, and then that a sum is over what it is
over (`SumAgree`), is taken apart (`SumRemove`, `SumUnion`, `SumOfClasses`) and has
the sign of its terms.

*Requests* (`QuantRequestsProofs`). `KeptInv` says that what is kept for a symbol is a
download of that symbol that `get_prices` accepted (`FramesInv`); that the i-th
attempt of a comparison is the i-th strategy's, under its label, over what is kept, and
ends in a sane outcome if it is a run (`AttemptsInv`); and that a request in progress was
not refused and, once complete, misses nothing (`AnswerInv`). It is inductive because a
symbol that is kept is never downloaded again (`KeepOneMore`), and a run is over two
bars at least because no warm-up is shorter (`SaneRun`). `Consistent` is part of it.

- `AcceptedIsSound` needs no more than `FramesInv`: what `get_prices` does to a frame
  keeps the rows there are (`SortedIs`, `NormalizedKeeps`, `TrimKeeps`), and what
  `Violations` does not find is sound (`Unviolated`, `Accepted`). That includes the
  adjustment: the closes of a series are the adjusted closes of its download
  (`SameQuotes`).
- `ComparedAlike`: two runs with second legs of one symbol had the same leg.
- `AllAccounted`: runs and failures are the attempts in another order (`Interleaved`,
  from `ChosenIs`), and every strategy was attempted (`AllTried`), for every request.
  Of strategies shown alike each has a number of its own, so two labels are the same
  only if a label that was given is the numbered form of another (`LabelsApart`); that
  condition, `Imitated`, is about the request and is computed from it, and where it holds the
  property still counts every row.
- `ReasonsAreTrue`: for any curve and any trades, each metric is a number, or lacks
  what its reason says it lacks (`ValuesAre`, `ReasonIsTrue`).
- `BestMarked`: among finitely many numbers somebody wins (`SomeoneWins`), the label
  leads back to the winner (`BestOf`), and amounts compare as the parts of the
  capital that they are (`SameOrder`).
- `NothingUnsaid`: the window is the common sessions of what was not dropped
  (`WindowIs`), a report weighs exactly what was kept (`Valued`, `ReportIs`), and the
  sectors partition the weights, so their sums add up (`SumOfClasses`).
- `OnlyOverriddenMoves`: `TargetIs` computes the combined weights without the
  normalisation, which scales all of them alike.

*The portfolio tables* (`PortfolioServiceProofs`). `IInv` adds three parts to the
type invariant and `NoOrphans`: the lock of a row is held exactly by the request
inside its transaction on it (`LockInv`); a request past its reads knows what it
writes (`WriterInv`); and the request that wrote a portfolio as it stands is over
(`WholeInv`), without which an update still running could change the very
record that vouches for what was saved. One lemma per kind of step gives `StepIInv`; from it
follow `Wholeness`, `References` and `Locking`. The argument rests on
the tables of a portfolio changing only when a transaction on it commits or the
portfolio is deleted, whichever statement fails.

**Only model-checked**: `RunsEnd` and `RequestsEnd`, liveness under
fairness, which the prover does not reach; and the findings, which are
counterexamples. Every invariant and every action property that a run checks, and the
refinement of the store, is also a theorem.

## 6. Not modelled

Floating-point rounding: the models are exact, so they say nothing of errors
in the last digits. The estimators themselves (volatility, beta, correlation,
annualised return): when they exist, not what they are. Of market data the
unadjusted policy and the listing of the universe; of the quant routes the
listings of indicators and strategies and the health route. Wording of errors
and their HTTP status in the Go API, whose handlers are adapters over one
service call. The health registry, start-up (waiting for the database, the
migration check) and draining of the API process: the service models have its
restarts, and no document promises a request that survives one. Configuration
and logging are read once. Database columns that are only data. The web interface, MCP
stub, scripts, delivery: no state of their own, or nothing implemented yet.

## 7. What could come next

1. `ApiProcess`: waiting for the database, migrations, health probes, draining.
2. Strategies connected to the engine: runs in which the signals of one drive the
   orders of the other. Today the engine takes arbitrary signals, which includes them.
