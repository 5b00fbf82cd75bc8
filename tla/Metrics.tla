-------------------------------- MODULE Metrics --------------------------------
(***************************************************************************)
(* The metrics of a backtest (services/quant/backtest/metrics.py), over an *)
(* equity curve and the profits of its closed trades.                      *)
(*                                                                         *)
(* A fraction is kept as a whole number of parts, One of which are 1, and  *)
(* the curves are such that the fractions formed from them are whole.  A   *)
(* metric that takes a root or a power (cagr, volatility, the ratios) is   *)
(* Defined when it has a value at all.  A curve that touches zero, where a *)
(* return has no finite value, is left out.                                *)
(***************************************************************************)
EXTENDS Integers, Sequences, FiniteSets, FiniteSetsExt, TLC

CONSTANTS
  One,      \* parts of 1
  Defined,  \* a value, which one is left out
  None      \* no value

ASSUME OneAssumption == One \in Nat \ {0} /\ None \notin Int \cup {Defined}

\* returns_from_equity, as growth factors.
Growth(equity) == [i \in 1..(Len(equity) - 1) |-> (equity[i + 1] * One) \div equity[i]]

Peak(equity, i) == Max({equity[j] : j \in 1..i})

\* drawdown_curve and max_drawdown.
Drawdown(equity, i) == (equity[i] * One) \div Peak(equity, i) - One

MaxDrawdown(equity) ==
  IF equity = <<>> THEN 0 ELSE Min({Drawdown(equity, i) : i \in DOMAIN equity})

\* max_drawdown_duration: the longest run of bars below an earlier peak.
MaxDrawdownDuration(equity) ==
  Max({0} \cup {run[2] - run[1] + 1 : run \in
                  {span \in (DOMAIN equity) \X (DOMAIN equity) :
                     \A i \in span[1]..span[2] : equity[i] < Peak(equity, i)}})

HasVariance(growth) == \E i, j \in DOMAIN growth : growth[i] # growth[j]

\* The factors are those of excess returns over a risk-free rate.
HasDownside(growth, riskFree) == \E i \in DOMAIN growth : growth[i] < One + riskFree

HasCagr(equity) == Len(equity) >= 2 /\ equity[1] > 0 /\ equity[Len(equity)] > 0

DefinedIf(condition) == IF condition THEN Defined ELSE None

Wins(trades) == {i \in DOMAIN trades : trades[i] > 0}
Losses(trades) == {i \in DOMAIN trades : trades[i] < 0}
Total(trades, which) == MapThenSumSet(LAMBDA i : trades[i], which)

ProfitFactor(trades) ==
  IF Losses(trades) = {} THEN None
  ELSE (Total(trades, Wins(trades)) * One) \div (-Total(trades, Losses(trades)))

Mean(trades, which) ==
  IF which = {} THEN None ELSE (Total(trades, which) * One) \div Cardinality(which)

\* compute, the values.
MetricValues(equity, trades, initial, costs, riskFree) ==
  LET growth == Growth(equity)
      final  == IF equity = <<>> THEN initial ELSE equity[Len(equity)]
      enough == Len(growth) >= 2
  IN [total_return  |-> (final * One) \div initial - One,
      cagr          |-> DefinedIf(HasCagr(equity)),
      annualized_volatility |-> DefinedIf(enough),
      sharpe        |-> DefinedIf(enough /\ HasVariance(growth)),
      sortino       |-> DefinedIf(enough /\ HasDownside(growth, riskFree)),
      max_drawdown  |-> MaxDrawdown(equity),
      max_drawdown_duration |-> MaxDrawdownDuration(equity),
      calmar        |-> DefinedIf(HasCagr(equity) /\ MaxDrawdown(equity) # 0),
      win_rate      |-> IF trades = <<>> THEN None
                        ELSE (Cardinality(Wins(trades)) * One) \div Len(trades),
      profit_factor |-> ProfitFactor(trades),
      trade_count   |-> Len(trades),
      winning_trades |-> Cardinality(Wins(trades)),
      losing_trades |-> Cardinality(Losses(trades)),
      average_win   |-> Mean(trades, Wins(trades)),
      average_loss  |-> Mean(trades, Losses(trades)),
      turnover      |-> DefinedIf(Len(equity) > 1
                                  /\ MapThenSumSet(LAMBDA i : equity[i], DOMAIN equity) > 0),
      total_costs   |-> costs,
      cost_drag     |-> (costs * One) \div initial,
      final_equity  |-> final]

\* Faulty variant: a period too short to measure is not told apart.
RatioReasonOneCause(few, otherwise) == otherwise

RatioReason(few, otherwise) == IF few THEN "too few returns" ELSE otherwise

\* The reason recorded for a metric without a value.
Reason(metric, equity, trades) ==
  LET few == Len(equity) < 3
  IN CASE metric = "annualized_volatility" -> "too few returns"
       [] metric = "sharpe" -> RatioReason(few, "no variance")
       [] metric = "sortino" -> RatioReason(few, "no downside")
       [] metric = "cagr" -> "too few bars or no equity left"
       [] metric = "calmar" -> "no cagr or no drawdown"
       [] metric = "win_rate" -> "no trades"
       [] metric = "profit_factor" -> IF trades = <<>> THEN "no trades" ELSE "no losing trades"
       [] metric = "average_win" -> "no winning trades"
       [] metric = "average_loss" -> "no losing trades"
       [] metric = "turnover" -> "one bar or no average equity"

\* compute, with the reason of everything that is unavailable.
Compute(equity, trades, initial, costs, riskFree) ==
  LET values == MetricValues(equity, trades, initial, costs, riskFree)
  IN [values      |-> values,
      unavailable |-> [metric \in {name \in DOMAIN values : values[name] = None} |->
                         Reason(metric, equity, trades)]]
=============================================================================
