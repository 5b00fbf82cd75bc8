----------------------------- MODULE PortfolioRisk -----------------------------
(***************************************************************************)
(* Portfolio analytics (services/quant/portfolio/): what a portfolio is    *)
(* worth, which of its holdings have a usable history in the window, the   *)
(* risk report over the sessions those share, and the reweighting of a     *)
(* scenario.                                                               *)
(*                                                                         *)
(* A weight is a whole number, over the sum of all the weights.  As in     *)
(* Metrics, what takes a root or a regression is Defined when it exists.   *)
(***************************************************************************)
EXTENDS MarketData, Metrics

CONSTANTS
  MinObservations,  \* returns below which no statistic is reported (20)
  CoverageTenths    \* tenths of the pooled calendar a holding must cover (8)

ASSUME WindowAssumption == MinObservations \in Nat \ {0} /\ CoverageTenths \in 0..10

-----------------------------------------------------------------------------
(* Holdings. *)

SymbolsOf(holdings) == {holdings[i].symbol : i \in DOMAIN holdings}

\* Holding and Portfolio: unknown symbols, unusable quantities, duplicates.
PortfolioError(holdings, benchmark) ==
  IF holdings = <<>> \/ (\E i \in DOMAIN holdings :
                           holdings[i].quantity = NaN \/ holdings[i].quantity <= 0)
  THEN "InvalidRequest"
  ELSE IF ~(SymbolsOf(holdings) \cup {benchmark} \subseteq Universe) THEN "UnknownSymbol"
  ELSE IF Cardinality(SymbolsOf(holdings)) < Len(holdings) THEN "InvalidRequest"
  ELSE ""

\* sector_exposure: what has no sector is a bucket of its own.
Sectors(weights) ==
  [sector \in {Instruments[symbol] : symbol \in DOMAIN weights} |->
     MapThenSumSet(LAMBDA symbol : weights[symbol],
                   {symbol \in DOMAIN weights : Instruments[symbol] = sector})]

Whole(weights) == MapThenSumSet(LAMBDA symbol : weights[symbol], DOMAIN weights)

TopN == 3

\* concentration: the largest weights, and the sum of the squares.
Concentration(weights) ==
  LET total(symbols) == MapThenSumSet(LAMBDA symbol : weights[symbol], symbols)
      few == {symbols \in SUBSET DOMAIN weights : Cardinality(symbols) <= TopN}
  IN [largest_weight |-> Max({weights[symbol] : symbol \in DOMAIN weights}),
      top_n_weight   |-> Max({total(symbols) : symbols \in few}),
      hhi            |-> MapThenSumSet(LAMBDA symbol : weights[symbol] * weights[symbol],
                                       DOMAIN weights)]

-----------------------------------------------------------------------------
(* load_window: the histories, aligned on the sessions they share. *)

\* Faulty variant: the calendar of the first holding only.
PooledFirst(frames, symbols) == DaysOf(frames[symbols[1]])

\* The sessions on which any holding traded.
Pooled(frames, symbols) == UNION {DaysOf(frames[symbols[i]]) : i \in DOMAIN symbols}

\* Why a holding is left out of the analysis, if it is.
Exclusion(frames, symbols, symbol) ==
  LET traded == Cardinality(DaysOf(frames[symbol]))
  IN IF traded - 1 < MinObservations THEN "too few bars"
     ELSE IF 10 * traded < CoverageTenths * Cardinality(Pooled(frames, symbols))
     THEN "low coverage"
     ELSE ""

\* The sessions that have a return, and the growth since the session before.
ReturnDays(days) == {day \in days : \E earlier \in days : earlier < day}

GrowthOn(series, days, day) ==
  LET before == Max({earlier \in days : earlier < day})
  IN (BarOn(series, day).close * One) \div BarOn(series, before).close

NoWindow == [error |-> "InvalidRequest"]

\* The benchmark's returns are taken over its own sessions and then matched.
LoadWindow(frames, symbols, benchmark) ==
  LET held  == {symbols[i] : i \in DOMAIN symbols}
      kept  == {symbol \in held : Exclusion(frames, symbols, symbol) = ""}
      days  == {day \in Pooled(frames, symbols) :
                  \A symbol \in kept : day \in DaysOf(frames[symbol])}
      matched == ReturnDays(days) \cap ReturnDays(DaysOf(frames[benchmark]))
  IN IF kept = {} \/ Cardinality(days) - 1 < MinObservations THEN NoWindow
     ELSE [error   |-> "",
           kept    |-> kept,
           dropped |-> [symbol \in held \ kept |-> Exclusion(frames, symbols, symbol)],
           days    |-> days,
           matched |-> IF Cardinality(matched) < MinObservations THEN {} ELSE matched,
           index   |-> [day \in matched |->
                          GrowthOn(frames[benchmark], DaysOf(frames[benchmark]), day)],
           prices  |-> [symbol \in kept |-> BarOn(frames[symbol], Max(days)).close],
           growth  |-> [symbol \in kept |->
                          [day \in ReturnDays(days) |-> GrowthOn(frames[symbol], days, day)]]]

-----------------------------------------------------------------------------
(* analyze. *)

Varies(growth) == \E x, y \in DOMAIN growth : growth[x] # growth[y]

\* portfolio_return_series: the same weights on every session.
PortfolioGrowth(weights, window) ==
  [day \in ReturnDays(window.days) |->
     MapThenSumSet(LAMBDA symbol : weights[symbol] * window.growth[symbol][day],
                   DOMAIN weights)]

\* correlation_matrix: undefined for a series that does not move, its own
\* diagonal included.
Correlation(window, a, b) ==
  IF ~Varies(window.growth[a]) \/ ~Varies(window.growth[b]) THEN None
  ELSE IF a = b THEN One ELSE Defined

RiskValues(weights, window, riskFree) ==
  LET growth == PortfolioGrowth(weights, window)
      enough == Cardinality(DOMAIN growth) >= 2
      fallen == \E day \in DOMAIN growth : growth[day] < Whole(weights) * (One + riskFree)
      spread == Concentration(weights)
  IN [annualized_return     |-> Defined,
      annualized_volatility |-> DefinedIf(enough),
      beta                  |-> DefinedIf(window.matched # {} /\ Varies(window.index)),
      sharpe                |-> DefinedIf(enough /\ Varies(growth)),
      sortino               |-> DefinedIf(enough /\ fallen),
      largest_weight        |-> spread.largest_weight,
      top_n_weight          |-> spread.top_n_weight,
      hhi                   |-> spread.hhi]

RiskReason(metric, window) ==
  LET few == Cardinality(ReturnDays(window.days)) < 2
  IN CASE metric = "annualized_volatility" -> "too few returns"
       [] metric = "beta" -> IF window.matched = {} THEN "no benchmark" ELSE "flat benchmark"
       [] metric = "sharpe" -> RatioReason(few, "no variance")
       [] metric = "sortino" -> RatioReason(few, "no downside")

\* The report on weights of symbols of the window.
Analyze(weights, window, riskFree) ==
  LET values == RiskValues(weights, window, riskFree)
  IN [weights      |-> weights,
      sectors      |-> Sectors(weights),
      observations |-> Cardinality(ReturnDays(window.days)),
      values       |-> values,
      unavailable  |-> [metric \in {name \in DOMAIN values : values[name] = None} |->
                          RiskReason(metric, window)],
      correlation  |-> [pair \in (DOMAIN weights) \X (DOMAIN weights) |->
                          Correlation(window, pair[1], pair[2])],
      dropped      |-> window.dropped]

\* The market values of the holdings that are in the window.
MarketValues(holdings, window) ==
  [symbol \in SymbolsOf(holdings) \cap window.kept |->
     LET holding == CHOOSE h \in {holdings[i] : i \in DOMAIN holdings} : h.symbol = symbol
     IN holding.quantity * window.prices[symbol]]

-----------------------------------------------------------------------------
(* Scenarios.  A target weight is given in tenths of the portfolio. *)

OverridesError(overrides) ==
  IF \/ DOMAIN overrides = {}
     \/ \E symbol \in DOMAIN overrides : overrides[symbol] = NaN \/ overrides[symbol] < 0
  THEN "InvalidRequest"
  ELSE IF ~(DOMAIN overrides \subseteq Universe) THEN "UnknownSymbol"
  ELSE ""

\* Faulty variant: the overrides are kept exact and the rest shares what is
\* left.
CombinedExact(weights, overrides) ==
  LET kept  == DOMAIN weights \ DOMAIN overrides
      rest  == MapThenSumSet(LAMBDA symbol : weights[symbol], kept)
      asked == MapThenSumSet(LAMBDA symbol : overrides[symbol], DOMAIN overrides)
  IN [symbol \in DOMAIN weights \cup DOMAIN overrides |->
        IF symbol \in DOMAIN overrides THEN overrides[symbol] * rest
        ELSE weights[symbol] * (10 - asked)]

\* resolve_weights: the overrides replace what is held, and the whole vector is
\* then divided by its sum (which, over whole numbers, is its Whole).
Combined(weights, overrides) ==
  [symbol \in DOMAIN weights \cup DOMAIN overrides |->
     IF symbol \in DOMAIN overrides THEN overrides[symbol] * Whole(weights)
     ELSE 10 * weights[symbol]]

\* Portfolio.from_weights: a weight of zero is no position.
Positive(weights) == [symbol \in {s \in DOMAIN weights : weights[s] > 0} |-> weights[symbol]]

\* describe_changes: what moved, and how.
Changes(before, after) ==
  LET share(weights, symbol) == IF symbol \in DOMAIN weights THEN weights[symbol] ELSE 0
      moved == {symbol \in DOMAIN before \cup DOMAIN after :
                  share(before, symbol) * Whole(after) # share(after, symbol) * Whole(before)}
  IN [symbol \in moved |-> IF share(before, symbol) = 0 THEN "added"
                           ELSE IF share(after, symbol) = 0 THEN "removed"
                           ELSE "reweighted"]

\* metric_deltas: there is no change of a metric that one side does not have.
Deltas(before, after) ==
  [metric \in DOMAIN before.values |->
     DefinedIf(before.values[metric] # None /\ after.values[metric] # None)]
=============================================================================
