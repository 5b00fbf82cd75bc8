------------------------------ MODULE Strategies ------------------------------
(***************************************************************************)
(* The four strategy families (services/quant/strategies/) and what a      *)
(* caller does with one: create it by name, attach the second leg it       *)
(* names, and generate signals over a series.                              *)
(*                                                                         *)
(* generate_signals is a pure function of the series, so it is an operator *)
(* here.  The series grows by a bar at a time and the signals are          *)
(* generated again over the longer one, which is what relates the signals  *)
(* of two date ranges.  A signal is kept as its direction: strength is 1   *)
(* when it is not FLAT and reasons are text.                               *)
(*                                                                         *)
(* A bar is what the strategy reads of one: a close, a candle, or, for a   *)
(* pair, the class of the spread's z-score and of the return correlation   *)
(* on that bar, which are statistics of two instruments over a window.     *)
(***************************************************************************)
EXTENDS StrategyContract, FiniteSets

CONSTANTS
  Requests,   \* [name, parameters] a caller may ask create for
  Closes,     \* closing prices
  Candles,    \* [open, high, low, close] bars, coherent as validation demands
  Symbols,    \* instruments
  Primary,    \* the instrument of the series
  MaxBars     \* bound: the longest series, by strategy

\* A value as it comes out of JSON.
Given(v) ==
  /\ v.kind \in {"int", "float", "bool", "str", "digits", "blank", "null", "nan"}
  /\ v.kind \in {"int", "float", "bool", "digits"} => v.num \in Int

ASSUME InstrumentAssumption == Primary \in Symbols

ASSUME ValueAssumption ==
  /\ NaN \notin Int
  /\ Closes \subseteq Int
  /\ \A request \in Requests :
       \A p \in DOMAIN request.parameters : Given(request.parameters[p])

VARIABLES
  strategy,   \* the instance create returned
  pair,       \* the symbol of the attached second leg
  bars,       \* the series so far
  output      \* what generate_signals answers over it

vars == <<strategy, pair, bars, output>>

-----------------------------------------------------------------------------
(* Declarations. *)

BollingerSpecs ==
  [window         |-> Number("int", Int_(20), 2, 400),
   num_std        |-> Number("float", Tenths(20), 1, 50),
   exit_at_middle |-> Flag(TRUE),
   allow_short    |-> Flag(FALSE)]

MacdSpecs ==
  [fast              |-> Number("int", Int_(12), 2, 200),
   slow              |-> Number("int", Int_(26), 3, 400),
   signal            |-> Number("int", Int_(9), 2, 100),
   allow_short       |-> Flag(FALSE),
   require_zero_line |-> Flag(FALSE)]

\* A minimum of 0.05 is given as 0.1.
DualThrustSpecs ==
  [lookback    |-> Number("int", Int_(4), 2, 200),
   k_upper     |-> Number("float", Tenths(5), 1, 30),
   k_lower     |-> Number("float", Tenths(5), 1, 30),
   allow_short |-> Flag(FALSE),
   trigger_on  |-> Choice(Text("close"), {Text("close"), Text("intrabar")})]

PairTradingSpecs ==
  [pair_symbol     |-> Choice(Text("TCS"), {}),
   lookback        |-> Number("int", Int_(60), 10, 500),
   entry_z         |-> Number("float", Tenths(20), 5, 50),
   exit_z          |-> Number("float", Tenths(5), 0, 30),
   min_correlation |-> Number("float", Tenths(5), -10, 10),
   use_hedge_ratio |-> Flag(TRUE)]

\* The registry, by name.
Specs ==
  [bollinger    |-> BollingerSpecs,
   macd         |-> MacdSpecs,
   dual_thrust  |-> DualThrustSpecs,
   pair_trading |-> PairTradingSpecs]

\* _validate_parameters; NaN is not at or above anything.
Consistent(name, p) ==
  /\ name = "macd" => p.fast < p.slow
  /\ name = "pair_trading" => p.exit_z = NaN \/ p.entry_z = NaN \/ p.exit_z < p.entry_z

WarmUp(name, p) ==
  CASE name = "bollinger" -> p.window
    [] name = "macd" -> p.slow + p.signal
    [] name \in {"dual_thrust", "pair_trading"} -> p.lookback + 1

-----------------------------------------------------------------------------
(* generate_signals: for each family, the decision of each bar.  Where     *)
(* several conditions hold the code assigns them in turn and the last one  *)
(* assigned stays.                                                         *)

\* Faulty variant: yesterday's band is compared with today's close.
CrossedMiddleMixed(x, i, window, sign) ==
  /\ Full(i - 1, window)
  /\ sign * Deviation(x, i - 1, window) <= 0
  /\ sign * (window * x[i] - RollingSum(x, i - 1, window)) > 0

\* The close crossed the middle band, upward or downward by sign: each close
\* against the middle of its own bar.
CrossedMiddle(x, i, window, sign) ==
  /\ Full(i - 1, window)
  /\ sign * Deviation(x, i - 1, window) <= 0
  /\ sign * Deviation(x, i, window) > 0

BollingerTarget(p, x, i) ==
  IF AboveUpper(x, i, p.window, p.num_std) THEN (IF p.allow_short THEN SHORT ELSE FLAT)
  ELSE IF BelowLower(x, i, p.window, p.num_std) THEN LONG
  ELSE IF p.exit_at_middle /\ \E sign \in {1, -1} : CrossedMiddle(x, i, p.window, sign) THEN FLAT
  ELSE Undecided

\* A crossover of the signal line, filtered by the side of zero the MACD line
\* is on when require_zero_line is set.
MacdTarget(p, histogram, line, i) ==
  LET known == i - 1 \in DOMAIN histogram /\ i \in DOMAIN histogram
  IN IF known /\ histogram[i - 1] >= 0 /\ histogram[i] < 0
                /\ (p.require_zero_line => line[i] < 0)
     THEN (IF p.allow_short THEN SHORT ELSE FLAT)
     ELSE IF known /\ histogram[i - 1] <= 0 /\ histogram[i] > 0
                /\ (p.require_zero_line => line[i] > 0)
     THEN LONG
     ELSE Undecided

\* A breakout of the range of the completed bars, projected off the open; no
\* range, no breakout.
DualThrustTarget(p, x, i) ==
  LET range   == ThrustRange(x, i, p.lookback)
      highest == IF p.trigger_on = "close" THEN x[i].close ELSE x[i].high
      lowest  == IF p.trigger_on = "close" THEN x[i].close ELSE x[i].low
  IN IF ~Full(i - 1, p.lookback) \/ range <= 0 THEN Undecided
     ELSE IF 10 * (lowest - x[i].open) <= -(p.k_lower * range)
     THEN (IF p.allow_short THEN SHORT ELSE FLAT)
     ELSE IF 10 * (highest - x[i].open) >= p.k_upper * range THEN LONG
     ELSE Undecided

ZScores == {"undefined", "below_entry", "between", "inside_exit", "above_entry"}
Correlations == {"undefined", "low", "sufficient"}

\* A bar with no counterpart in the second leg, and one before the statistics
\* exist.
NoCounterpart == [common |-> FALSE, z |-> "undefined", correlation |-> "undefined"]
Unseeded == [common |-> TRUE, z |-> "undefined", correlation |-> "undefined"]

PairBars == {NoCounterpart} \cup [common: {TRUE}, z: ZScores, correlation: Correlations]

\* The common bars up to the i-th.
CommonBars(x, i) == {j \in 1..i : x[j].common}

\* Which statistics a window of this many common bars can have: the z-score
\* needs lookback spreads, and lookback bars more when each spread needs a
\* rolling hedge ratio; the correlation needs lookback returns.  They may also
\* be undefined later, when a leg does not move.
CanOccur(p, bar, count) ==
  /\ bar.z # "undefined"
       => count >= (IF p.use_hedge_ratio THEN 2 * p.lookback - 1 ELSE p.lookback)
  /\ bar.correlation # "undefined" => count >= p.lookback + 1

Usable(bar) == bar.z # "undefined" /\ bar.correlation = "sufficient"

PairTarget(bar) ==
  IF ~Usable(bar) THEN FLAT
  ELSE CASE bar.z = "inside_exit" -> FLAT
         [] bar.z = "above_entry" -> SHORT
         [] bar.z = "below_entry" -> LONG
         [] bar.z = "between" -> Undecided

\* Faulty variant: the forced flat is applied after the forward fill.
PairDirectionsResume(x, n) ==
  LET common == CommonBars(x, n)
      held(i) == LET decided == {j \in common : j <= i /\ Usable(x[j])
                                                /\ PairTarget(x[j]) # Undecided}
                 IN IF decided = {} THEN FLAT ELSE PairTarget(x[Max(decided)])
  IN [i \in 1..n |-> IF i \in common /\ Usable(x[i]) THEN held(i) ELSE FLAT]

\* Held over the common bars, put back on the index of the primary leg, FLAT
\* where the second leg has no bar.
PairDirections(x, n) ==
  LET common == CommonBars(x, n)
      held   == Hold([j \in 1..n |-> IF j \in common THEN PairTarget(x[j]) ELSE Undecided], n)
  IN [i \in 1..n |-> IF i \in common THEN held[i] ELSE FLAT]

TargetsOf(name, p, x) ==
  LET n == Len(x)
      histogram == Histogram(x, p.fast, p.slow, p.signal)
      line      == MacdLine(x, p.fast, p.slow)
  IN CASE name = "bollinger" -> Hold([i \in 1..n |-> BollingerTarget(p, x, i)], n)
       [] name = "macd" -> Hold([i \in 1..n |-> MacdTarget(p, histogram, line, i)], n)
       [] name = "dual_thrust" -> Hold([i \in 1..n |-> DualThrustTarget(p, x, i)], n)
       [] name = "pair_trading" -> PairDirections(x, n)

-----------------------------------------------------------------------------
(* The caller. *)

None == [name |-> "none"]

\* Answers without signals.
Refusal(error) == [error |-> error, directions |-> <<>>]

Signals(directions) == [error |-> "", directions |-> directions]

\* require_warmup, and for a pair the checks around it in their order.
Generate(s, leg, x) ==
  IF s.name = "pair_trading" /\ leg = "" THEN Refusal("PairDataMissing")
  ELSE IF s.name = "pair_trading" /\ leg = Primary THEN Refusal("InvalidParameters")
  ELSE IF Len(x) < WarmUp(s.name, s.parameters)
          \/ /\ s.name = "pair_trading"
             /\ Cardinality(CommonBars(x, Len(x))) < WarmUp(s.name, s.parameters)
  THEN Refusal("InsufficientData")
  ELSE Signals(TargetsOf(s.name, s.parameters, x))

Init ==
  /\ strategy = None
  /\ pair = ""
  /\ bars = <<>>
  /\ output = Refusal("")

\* registry.create: an unknown name, an unknown or invalid parameter, and an
\* inconsistent combination are errors, and no strategy exists after them.
Create ==
  /\ strategy = None
  /\ output.error = ""
  /\ \E request \in Requests :
       LET known    == request.name \in DOMAIN Specs
           resolved == IF known
                       THEN {p \in Resolve(Specs[request.name], request.parameters) :
                               Consistent(request.name, p)}
                       ELSE {}
       IN \/ /\ resolved # {}
             /\ strategy' \in {[name |-> request.name, parameters |-> p] : p \in resolved}
             /\ UNCHANGED output
          \/ /\ resolved = {}
             /\ output' = Refusal(IF known THEN "InvalidParameters" ELSE "UnknownStrategy")
             /\ UNCHANGED strategy
  /\ UNCHANGED <<pair, bars>>

\* attach_auxiliary_series: only a strategy that names a second leg takes one,
\* and only the leg it names.
Attach ==
  /\ strategy # None
  /\ bars = <<>>
  /\ \E symbol \in Symbols :
       IF strategy.name = "pair_trading" /\ symbol = strategy.parameters.pair_symbol
       THEN pair' = symbol /\ UNCHANGED output
       ELSE /\ output' = Refusal(IF strategy.name = "pair_trading" THEN "InvalidParameters"
                                 ELSE "NotImplemented")
            /\ UNCHANGED pair
  /\ UNCHANGED <<strategy, bars>>

\* The bars a series may go on with.  The bars before a pair's statistics can
\* exist are all common ones (a bound on the model, not on the code).
NextBars ==
  LET n == Len(bars) + 1
  IN CASE strategy.name \in {"bollinger", "macd"} -> Closes
       [] strategy.name = "dual_thrust" -> Candles
       [] strategy.name = "pair_trading" ->
            IF n <= strategy.parameters.lookback THEN {Unseeded}
            ELSE {bar \in PairBars :
                    CanOccur(strategy.parameters, bar, Cardinality(CommonBars(bars, n - 1)) + 1)}

\* The series is one bar longer, and the signals are generated over all of it.
Extend ==
  /\ strategy # None
  /\ Len(bars) < MaxBars[strategy.name]
  /\ \E bar \in NextBars : bars' = Append(bars, bar)
  /\ output' = Generate(strategy, pair, bars')
  /\ UNCHANGED <<strategy, pair>>

Next == Create \/ Attach \/ Extend

Spec == Init /\ [][Next]_vars

-----------------------------------------------------------------------------
(* Properties. *)

Errors == {"", "UnknownStrategy", "InvalidParameters", "NotImplemented", "PairDataMissing",
           "InsufficientData"}

\* The state is well formed, and the parameters of a strategy that exists are
\* within the bounds it declares: whatever was given, of whatever kind, it was
\* coerced to the declared type and bounded, or refused (ParameterSpec.validate).
\* A NaN is the one value no bound stops.
TypeOK ==
  /\ strategy # None =>
       /\ strategy.name \in DOMAIN Specs
       /\ \A p \in DOMAIN Specs[strategy.name] :
            LET spec == Specs[strategy.name][p]
                x    == strategy.parameters[p]
            IN /\ spec.type = "bool" => x \in BOOLEAN
               /\ spec.type = "int" => x \in spec.minimum..spec.maximum
               /\ spec.type = "float" => x \in spec.minimum..spec.maximum \cup {NaN}
  /\ pair \in Symbols \cup {""}
  /\ output.error \in Errors
  /\ output.directions \in Seq(Directions)

Running(name) == strategy.name = name /\ output.directions # <<>>

\* No look-ahead: a bar that is added to the series changes no signal of the
\* bars before it ("The value at bar t must be computable from bars <= t only",
\* Strategy.generate_signals).  The statistics are computed over whole columns,
\* so a centred window, a fit over the full sample or a backward fill would
\* break it in a way no single series shows.
NoLookAhead ==
  [][output.directions # <<>>
       => SubSeq(output'.directions, 1, Len(bars)) = output.directions]_vars

\* A strategy is flat until its declared warm-up is over, and a series too short
\* for it gets no signals: warmup_bars asks for no bar more than the indicators
\* do, and no decision is carried back before the first bar that has one.
WarmUpFlat ==
  output.directions # <<>> =>
    LET w == WarmUp(strategy.name, strategy.parameters)
    IN /\ Len(bars) >= w
       /\ \A i \in 1..(w - 1) : output.directions[i] = FLAT

\* With exit_at_middle, a reversion trade is never held on the far side of the
\* middle band: whatever the bands did since the entry, the bar on which the
\* close passes the middle ends the trade or turns it round.
ReversionHeld ==
  Running("bollinger") /\ strategy.parameters.exit_at_middle =>
    \A i \in DOMAIN bars :
      output.directions[i] # FLAT =>
        output.directions[i] * Deviation(bars, i, strategy.parameters.window) <= 0

\* On close triggers the decision of a bar does not depend on that bar's own
\* high and low: the range comes from completed bars only.
RangeFromCompletedBars ==
  Running("dual_thrust") /\ strategy.parameters.trigger_on = "close" =>
    \A candle \in Candles :
      LET n == Len(bars)
      IN candle.open = bars[n].open /\ candle.close = bars[n].close =>
           Generate(strategy, pair, [bars EXCEPT ![n] = candle]).directions
             = output.directions

\* A pair position always goes back to a bar on which the spread itself crossed
\* the entry band, with a usable reading on every common bar since: after the
\* legs decouple, or a statistic is undefined, the old position is not resumed
\* when the reading comes back.
FreshEntries ==
  Running("pair_trading") =>
    \A i \in DOMAIN bars :
      output.directions[i] # FLAT =>
        \E j \in 1..i :
          /\ bars[j].z = (IF output.directions[i] = LONG THEN "below_entry" ELSE "above_entry")
          /\ \A k \in CommonBars(bars, i) \cap (j..i) :
               Usable(bars[k]) /\ bars[k].z # "inside_exit"

\* What the declaration of require_zero_line says: long is held only while the
\* MACD line is above zero, and short only while it is below.
HeldOnOwnSideOfZero ==
  Running("macd") /\ strategy.parameters.require_zero_line =>
    \A i \in DOMAIN bars :
      output.directions[i] # FLAT =>
        output.directions[i]
          * MacdLine(bars, strategy.parameters.fast, strategy.parameters.slow)[i] > 0
=============================================================================
