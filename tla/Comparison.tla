------------------------------ MODULE Comparison ------------------------------
(***************************************************************************)
(* What a comparison is made of (services/quant/backtest/compare.py): the  *)
(* labels of the compared runs, the table that marks the best of them, and *)
(* the buy-and-hold reference.                                             *)
(***************************************************************************)
EXTENDS Metrics

CONSTANTS
  BPS, CommissionBps, CommissionMin, SlippageBps, HalfSpreadBps,  \* the costs
  InitialCash                                                     \* of every run

Costs == INSTANCE Portfolio

ASSUME CashAssumption == InitialCash \in Nat \ {0}

-----------------------------------------------------------------------------
\* display_label: the given label, or the strategy and its parameters.
DisplayLabel(spec) ==
  IF spec.label # "" THEN spec.label
  ELSE IF spec.parameters = "" THEN spec.strategy
  ELSE spec.strategy \o " (" \o spec.parameters \o ")"

\* Faulty variant: only the label before is looked at.
LabelAfterLast(specs, i) ==
  LET base == DisplayLabel(specs[i])
  IN IF i > 1 /\ DisplayLabel(specs[i - 1]) = base THEN base \o " #2" ELSE base

Numbered(base, n) == base \o " #" \o ToString(n)

\* _unique_labels: a label that was used before is numbered.
Label(specs, i) ==
  LET base == DisplayLabel(specs[i])
      used == {j \in 1..(i - 1) : DisplayLabel(specs[j]) = base}
  IN IF used = {} THEN base ELSE Numbered(base, Cardinality(used) + 1)

-----------------------------------------------------------------------------
\* COMPARISON_METRICS: the direction that counts as better, if either does.  The
\* metrics that are only Defined here are compared in the code as well.
Better ==
  [total_return |-> "higher", max_drawdown |-> "higher", win_rate |-> "higher",
   profit_factor |-> "higher", trade_count |-> "neither", total_costs |-> "lower",
   cost_drag |-> "lower", final_equity |-> "higher"]

\* Faulty variant: the largest value always wins.
PrefersLarger(metric, x, y) == x >= y

Prefers(metric, x, y) == IF Better[metric] = "higher" THEN x >= y ELSE x <= y

Alike(runs, i) == {j \in DOMAIN runs : runs[j].label = runs[i].label}

\* The runs that have a value of the metric; alone, a run wins nothing.  Values are
\* kept by label, so of runs with one label only the last has any.
Comparable(runs, metric) ==
  {i \in DOMAIN runs : (\A j \in Alike(runs, i) : j <= i)
                        /\ runs[i].metrics.values[metric] # None}

\* The first of the best runs, as max and min return it: a label stands where it
\* was first used.
Best(runs, metric) ==
  LET rivals == Comparable(runs, metric)
      value(i) == runs[i].metrics.values[metric]
      place(i) == Min(Alike(runs, i))
      winners == {i \in rivals : \A j \in rivals : Prefers(metric, value(i), value(j))}
      first == CHOOSE i \in winners : \A j \in winners : place(i) <= place(j)
  IN IF Better[metric] = "neither" \/ Cardinality(rivals) < 2 THEN None
     ELSE runs[first].label

MetricTable(runs) == [metric \in DOMAIN Better |-> Best(runs, metric)]

-----------------------------------------------------------------------------
\* _buy_and_hold: as many whole units as the capital buys at the first open,
\* sold at the last close, with the commission of both sides.
BuyAndHold(bars) ==
  LET entry    == Costs!FillPrice(bars[1].open, Costs!BUY)
      exit     == Costs!FillPrice(bars[Len(bars)].close, Costs!SELL)
      quantity == InitialCash \div entry
      paid     == Costs!Commission(quantity * entry) + Costs!Commission(quantity * exit)
  IN IF Len(bars) < 2 \/ InitialCash < entry THEN None
     ELSE [quantity     |-> quantity,
           total_costs  |-> paid,
           final_equity |-> InitialCash - quantity * entry + quantity * exit - paid]
=============================================================================
