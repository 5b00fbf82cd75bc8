--------------------------- MODULE StrategiesProofs ---------------------------
(***************************************************************************)
(* Theorems about the strategies, for any prices, any requests and any     *)
(* length of series.                                                       *)
(***************************************************************************)
EXTENDS Strategies, CountingTheorems, SequenceTheorems

-----------------------------------------------------------------------------
(* The latest decision.  A set of bars that is not empty has a last one.    *)

LEMMA LastOne ==
  ASSUME NEW n \in Nat, NEW D, D \subseteq 1..n, D # {}
  PROVE  Max(D) \in D /\ \A j \in D : j <= Max(D)
<1>1. IsFiniteSet(1..n) /\ 1..n \subseteq Int
  BY FS_Interval
<1>2. IsFiniteSet(D) /\ D \subseteq Int
  BY <1>1, FS_Subset
<1>. QED
  BY <1>2, Greatest

\* Hold: a bar has the latest decision made up to it, and is flat without one.
LEMMA HeldDecision ==
  ASSUME NEW n \in Nat, NEW target, NEW i \in 1..n
  PROVE  \/ /\ Hold(target, n)[i] = FLAT
            /\ \A j \in 1..i : target[j] = Undecided
         \/ \E j \in 1..i :
              /\ target[j] # Undecided /\ Hold(target, n)[i] = target[j]
              /\ \A k \in (j + 1)..i : target[k] = Undecided
<1>. DEFINE decided == {j \in 1..i : target[j] # Undecided}
<1>1. Hold(target, n)[i] = IF decided = {} THEN FLAT ELSE target[Max(decided)]
  BY DEF Hold
<1>2. CASE decided = {}
  BY <1>1, <1>2
<1>3. CASE decided # {}
  <2>. DEFINE last == Max(decided)
  <2>1. last \in decided /\ \A j \in decided : j <= last
    <3>1. i \in Nat /\ decided \subseteq 1..i
      OBVIOUS
    <3>. HIDE DEF decided
    <3>. QED
      BY <1>3, <3>1, LastOne
  <2>2. Hold(target, n)[i] = target[last]
    BY <1>1, <1>3
  <2>. HIDE DEF last
  <2>3. last \in 1..i /\ target[last] # Undecided
    BY <2>1
  <2>4. \A k \in (last + 1)..i : target[k] = Undecided
    <3>. SUFFICES ASSUME NEW k \in (last + 1)..i, target[k] # Undecided PROVE FALSE
      OBVIOUS
    <3>1. k \in 1..i /\ k > last
      BY <2>3
    <3>. QED
      BY <2>1, <2>3, <3>1
  <2>. QED
    BY <2>2, <2>3, <2>4
<1>. QED
  BY <1>2, <1>3

\* Held decisions are directions.
LEMMA HoldTyped ==
  ASSUME NEW n \in Nat, NEW target,
         \A i \in 1..n : target[i] \in Directions \cup {Undecided}
  PROVE  Hold(target, n) \in [1..n -> Directions]
<1>1. \A i \in 1..n : Hold(target, n)[i] \in Directions
  <2>. TAKE i \in 1..n
  <2>1. FLAT \in Directions
    BY DEF Directions
  <2>. QED
    BY <2>1, HeldDecision
<1>. QED
  BY <1>1 DEF Hold

-----------------------------------------------------------------------------
(* Parameters. *)

\* A value that passes the validation has the declared type and is in bounds.
LEMMA ValidTyped ==
  ASSUME NEW spec, NEW v, Given(v), NEW x \in Validate(spec, v)
  PROVE  /\ spec.type = "bool" => x \in BOOLEAN
         /\ spec.type = "int" => x \in spec.minimum..spec.maximum
         /\ spec.type = "float" => x \in spec.minimum..spec.maximum \cup {NaN}
<1>1. x \in Coerce(spec.type, v) /\ Within(spec, x)
  BY DEF Validate
<1>2. CASE spec.type = "bool"
  BY <1>1, <1>2 DEF Coerce, AsBool
<1>3. CASE spec.type = "int"
  <2>1. x \in Int
    BY <1>1, <1>3 DEF Coerce, AsInt, Given
  <2>. QED
    BY <1>1, <1>3, <2>1, ValueAssumption DEF Within
<1>4. CASE spec.type = "float"
  BY <1>1, <1>4 DEF Within
<1>. QED
  BY <1>2, <1>3, <1>4

\* Every default is a value JSON could hold.
LEMMA DefaultsGiven ==
  ASSUME NEW name \in DOMAIN Specs, NEW p \in DOMAIN Specs[name]
  PROVE  Given(Specs[name][p].default)
<1>1. \A k \in Int : Given(Int_(k)) /\ Given(Tenths(k))
  BY DEF Given, Int_, Tenths
<1>2. /\ Given(Bool(TRUE)) /\ Given(Bool(FALSE))
      /\ Given(Text("close")) /\ Given(Text("TCS"))
  BY DEF Given, Bool, Text
<1>3. CASE name = "bollinger"
  <2>1. /\ Specs[name] = BollingerSpecs
        /\ p \in {"window", "num_std", "exit_at_middle", "allow_short"}
    BY <1>3 DEF Specs, BollingerSpecs
  <2>2. /\ BollingerSpecs.window.default = Int_(20)
        /\ BollingerSpecs.num_std.default = Tenths(20)
        /\ BollingerSpecs.exit_at_middle.default = Bool(TRUE)
        /\ BollingerSpecs.allow_short.default = Bool(FALSE)
    BY DEF BollingerSpecs, Number, Flag, Choice
  <2>3. Given(Int_(20)) /\ Given(Tenths(20))
    BY <1>1
  <2>. QED
    BY <1>2, <2>1, <2>2, <2>3
<1>4. CASE name = "macd"
  <2>1. /\ Specs[name] = MacdSpecs
        /\ p \in {"fast", "slow", "signal", "allow_short", "require_zero_line"}
    BY <1>4 DEF Specs, MacdSpecs
  <2>2. /\ MacdSpecs.fast.default = Int_(12)
        /\ MacdSpecs.slow.default = Int_(26)
        /\ MacdSpecs.signal.default = Int_(9)
        /\ MacdSpecs.allow_short.default = Bool(FALSE)
        /\ MacdSpecs.require_zero_line.default = Bool(FALSE)
    BY DEF MacdSpecs, Number, Flag, Choice
  <2>3. Given(Int_(12)) /\ Given(Int_(26)) /\ Given(Int_(9))
    BY <1>1
  <2>. QED
    BY <1>2, <2>1, <2>2, <2>3
<1>5. CASE name = "dual_thrust"
  <2>1. /\ Specs[name] = DualThrustSpecs
        /\ p \in {"lookback", "k_upper", "k_lower", "allow_short", "trigger_on"}
    BY <1>5 DEF Specs, DualThrustSpecs
  <2>2. /\ DualThrustSpecs.lookback.default = Int_(4)
        /\ DualThrustSpecs.k_upper.default = Tenths(5)
        /\ DualThrustSpecs.k_lower.default = Tenths(5)
        /\ DualThrustSpecs.allow_short.default = Bool(FALSE)
        /\ DualThrustSpecs.trigger_on.default = Text("close")
    BY DEF DualThrustSpecs, Number, Flag, Choice
  <2>3. Given(Int_(4)) /\ Given(Tenths(5))
    BY <1>1
  <2>. QED
    BY <1>2, <2>1, <2>2, <2>3
<1>6. CASE name = "pair_trading"
  <2>1. /\ Specs[name] = PairTradingSpecs
        /\ p \in {"pair_symbol", "lookback", "entry_z", "exit_z", "min_correlation",
                   "use_hedge_ratio"}
    BY <1>6 DEF Specs, PairTradingSpecs
  <2>2. /\ PairTradingSpecs.pair_symbol.default = Text("TCS")
        /\ PairTradingSpecs.lookback.default = Int_(60)
        /\ PairTradingSpecs.entry_z.default = Tenths(20)
        /\ PairTradingSpecs.exit_z.default = Tenths(5)
        /\ PairTradingSpecs.min_correlation.default = Tenths(5)
        /\ PairTradingSpecs.use_hedge_ratio.default = Bool(TRUE)
    BY DEF PairTradingSpecs, Number, Flag, Choice
  <2>3. Given(Int_(60)) /\ Given(Tenths(20)) /\ Given(Tenths(5))
    BY <1>1
  <2>. QED
    BY <1>2, <2>1, <2>2, <2>3
<1>. QED
  BY <1>3, <1>4, <1>5, <1>6 DEF Specs

\* An instance of a strategy: every parameter is within what is declared.
Bounded(name, parameters) ==
  \A p \in DOMAIN Specs[name] :
    LET spec == Specs[name][p]
        x    == parameters[p]
    IN /\ spec.type = "bool" => x \in BOOLEAN
       /\ spec.type = "int" => x \in spec.minimum..spec.maximum
       /\ spec.type = "float" => x \in spec.minimum..spec.maximum \cup {NaN}

LEMMA ResolvedBounded ==
  ASSUME NEW request \in Requests, request.name \in DOMAIN Specs,
         NEW p \in Resolve(Specs[request.name], request.parameters)
  PROVE  Bounded(request.name, p)
<1>. DEFINE specs == Specs[request.name]
            given == request.parameters
            raw == [q \in DOMAIN specs |-> IF q \in DOMAIN given THEN given[q]
                                           ELSE specs[q].default]
            valid == [q \in DOMAIN specs |-> Validate(specs[q], raw[q])]
<1>1. /\ {} \notin {valid[q] : q \in DOMAIN specs}
      /\ p = [q \in DOMAIN specs |-> CHOOSE x \in valid[q] : TRUE]
  BY DEF Resolve
<1>2. \A q \in DOMAIN specs : Given(raw[q])
  BY DefaultsGiven, ValueAssumption
<1>3. \A q \in DOMAIN specs : p[q] \in Validate(specs[q], raw[q])
  BY <1>1
<1>. HIDE DEF specs, raw, valid
<1>4. \A q \in DOMAIN specs :
        /\ specs[q].type = "bool" => p[q] \in BOOLEAN
        /\ specs[q].type = "int" => p[q] \in specs[q].minimum..specs[q].maximum
        /\ specs[q].type = "float" => p[q] \in specs[q].minimum..specs[q].maximum \cup {NaN}
  BY <1>2, <1>3, ValidTyped
<1>. QED
  BY <1>4 DEF Bounded, specs

\* What the declarations say of the windows.
LEMMA Windows ==
  ASSUME NEW name \in DOMAIN Specs, NEW p, Bounded(name, p)
  PROVE  /\ name = "bollinger" => p.window \in 2..400
         /\ name = "macd" => p.fast \in 2..200 /\ p.slow \in 3..400 /\ p.signal \in 2..100
         /\ name = "dual_thrust" => p.lookback \in 2..200
         /\ name = "pair_trading" => p.lookback \in 10..500
<1>1. CASE name = "bollinger"
  BY <1>1 DEF Bounded, Specs, BollingerSpecs, Number
<1>2. CASE name = "macd"
  BY <1>2 DEF Bounded, Specs, MacdSpecs, Number
<1>3. CASE name = "dual_thrust"
  BY <1>3 DEF Bounded, Specs, DualThrustSpecs, Number
<1>4. CASE name = "pair_trading"
  BY <1>4 DEF Bounded, Specs, PairTradingSpecs, Number
<1>. QED
  BY <1>1, <1>2, <1>3, <1>4

-----------------------------------------------------------------------------
(* The inductive invariant. *)

AllBars == Closes \cup Candles \cup PairBars

StrategyInv ==
  strategy # None =>
    /\ strategy.name \in DOMAIN Specs
    /\ Bounded(strategy.name, strategy.parameters)
    /\ Consistent(strategy.name, strategy.parameters)

\* The bars are of the kind the strategy reads, and those before a pair's
\* statistics can exist are common ones.
BarsInv ==
  /\ bars \in Seq(AllBars)
  /\ strategy = None => bars = <<>>
  /\ strategy # None /\ strategy.name = "bollinger" =>
       \A i \in 1..Len(bars) : bars[i] \in Closes
  /\ strategy # None /\ strategy.name = "pair_trading" =>
       \A i \in 1..Len(bars) :
         /\ bars[i] \in PairBars
         /\ i <= strategy.parameters.lookback => bars[i] = Unseeded

\* The signals there are were generated over the series as it stands.
OutputInv ==
  /\ output.error \in Errors
  /\ \/ output.directions = <<>>
     \/ /\ strategy # None /\ bars # <<>>
        /\ output = Generate(strategy, pair, bars)

IInv ==
  /\ StrategyInv
  /\ pair \in Symbols \cup {""}
  /\ BarsInv
  /\ OutputInv

LEMMA RefusalFields ==
  ASSUME NEW error
  PROVE  Refusal(error).error = error /\ Refusal(error).directions = <<>>
BY DEF Refusal

LEMMA SignalsFields ==
  ASSUME NEW directions
  PROVE  Signals(directions).error = "" /\ Signals(directions).directions = directions
BY DEF Signals

\* What is generated is an error without signals, or the signals.
LEMMA GenerateCases ==
  ASSUME NEW s, NEW leg, NEW x
  PROVE  \/ /\ Generate(s, leg, x).error \in Errors
            /\ Generate(s, leg, x).directions = <<>>
         \/ /\ Generate(s, leg, x) = Signals(TargetsOf(s.name, s.parameters, x))
            /\ ~(Len(x) < WarmUp(s.name, s.parameters))
<1>1. \/ \E error \in Errors : Generate(s, leg, x) = Refusal(error)
      \/ /\ Generate(s, leg, x) = Signals(TargetsOf(s.name, s.parameters, x))
         /\ ~(Len(x) < WarmUp(s.name, s.parameters))
  BY DEF Generate, Errors
<1>. QED
  BY <1>1, RefusalFields

LEMMA InitIInv == Init => IInv
<1>. SUFFICES ASSUME Init PROVE IInv
  OBVIOUS
<1>1. bars = <<>> /\ bars \in Seq(AllBars) /\ strategy = None
  BY EmptySeq DEF Init
<1>2. output.error \in Errors /\ output.directions = <<>>
  BY RefusalFields DEF Init, Errors
<1>3. StrategyInv /\ BarsInv
  BY <1>1 DEF StrategyInv, BarsInv
<1>. QED
  BY <1>2, <1>3 DEF Init, OutputInv, IInv

LEMMA CreateKeeps ==
  ASSUME IInv, Create PROVE IInv'
<1>1. /\ strategy = None /\ bars = <<>> /\ output.directions = <<>>
      /\ UNCHANGED <<pair, bars>>
  BY DEF IInv, BarsInv, OutputInv, Create
<1>2. \/ /\ output' = output
         /\ \E request \in Requests : \E p :
              /\ request.name \in DOMAIN Specs
              /\ p \in Resolve(Specs[request.name], request.parameters)
              /\ Consistent(request.name, p)
              /\ strategy' = [name |-> request.name, parameters |-> p]
      \/ /\ strategy' = strategy
         /\ \E error \in Errors : output' = Refusal(error)
  BY DEF Create, Errors
<1>3. StrategyInv'
  <2>1. CASE strategy' = strategy
    BY <1>1, <2>1 DEF StrategyInv
  <2>2. ASSUME NEW request \in Requests, NEW p, request.name \in DOMAIN Specs,
               p \in Resolve(Specs[request.name], request.parameters),
               Consistent(request.name, p),
               strategy' = [name |-> request.name, parameters |-> p]
        PROVE  StrategyInv'
    <3>1. Bounded(request.name, p)
      BY <2>2, ResolvedBounded
    <3>2. strategy'.name = request.name /\ strategy'.parameters = p
      BY <2>2
    <3>3. /\ Bounded(strategy'.name, strategy'.parameters)
          /\ Consistent(strategy'.name, strategy'.parameters)
      BY <2>2, <3>1, <3>2
    <3>. QED
      BY <2>2, <3>2, <3>3 DEF StrategyInv, Bounded, Consistent
  <2>. QED
    BY <1>2, <2>1, <2>2
<1>4. BarsInv'
  <2>1. bars' = <<>> /\ 1..Len(bars') = {} /\ bars' \in Seq(AllBars)
    BY <1>1, EmptySeq
  <2>. QED
    BY <2>1 DEF BarsInv
<1>5. OutputInv'
  BY <1>1, <1>2, RefusalFields DEF IInv, OutputInv
<1>. QED
  BY <1>1, <1>3, <1>4, <1>5 DEF IInv

LEMMA AttachKeeps ==
  ASSUME IInv, Attach PROVE IInv'
<1>1. /\ bars = <<>> /\ output.directions = <<>> /\ UNCHANGED <<strategy, bars>>
  BY DEF IInv, OutputInv, Attach
<1>2. \/ output' = output
      \/ \E error \in Errors : output' = Refusal(error)
  BY DEF Attach, Errors
<1>3. pair' \in Symbols \cup {""}
  BY DEF Attach, IInv
<1>4. OutputInv'
  BY <1>1, <1>2, RefusalFields DEF IInv, OutputInv
<1>5. StrategyInv' /\ BarsInv'
  BY <1>1 DEF IInv, StrategyInv, BarsInv, Bounded
<1>. QED
  BY <1>3, <1>4, <1>5 DEF IInv

LEMMA ExtendKeeps ==
  ASSUME IInv, Extend PROVE IInv'
<1>1. /\ strategy # None /\ UNCHANGED <<strategy, pair>>
      /\ strategy.name \in DOMAIN Specs /\ Bounded(strategy.name, strategy.parameters)
      /\ bars \in Seq(AllBars) /\ output' = Generate(strategy, pair, bars')
  BY DEF Extend, IInv, StrategyInv, BarsInv
<1>2. PICK bar \in NextBars : bars' = Append(bars, bar)
  BY DEF Extend
<1>3. /\ bar \in AllBars
      /\ strategy.name = "bollinger" => bar \in Closes
      /\ strategy.name = "pair_trading" =>
           /\ bar \in PairBars
           /\ Len(bars) + 1 <= strategy.parameters.lookback => bar = Unseeded
  <2>1. CASE strategy.name \in {"bollinger", "macd"}
    BY <1>2, <2>1 DEF NextBars, AllBars
  <2>2. CASE strategy.name = "dual_thrust"
    BY <1>2, <2>2 DEF NextBars, AllBars
  <2>3. CASE strategy.name = "pair_trading"
    <3>1. /\ bar \in PairBars \cup {Unseeded}
          /\ Len(bars) + 1 <= strategy.parameters.lookback => bar = Unseeded
      BY <1>2, <2>3 DEF NextBars
    <3>2. Unseeded \in PairBars
      BY DEF Unseeded, PairBars, ZScores, Correlations
    <3>. QED
      BY <2>3, <3>1, <3>2 DEF AllBars
  <2>. QED
    BY <1>1, <2>1, <2>2, <2>3 DEF Specs
<1>4. /\ bars' \in Seq(AllBars) /\ Len(bars') = Len(bars) + 1 /\ Len(bars) \in Nat
      /\ \A i \in 1..Len(bars) : bars'[i] = bars[i]
      /\ bars'[Len(bars) + 1] = bar
  BY <1>1, <1>2, <1>3, AppendProperties, LenProperties
<1>5. BarsInv'
  <2>1. ASSUME strategy.name = "pair_trading", NEW i \in 1..Len(bars')
        PROVE  /\ bars'[i] \in PairBars
               /\ i <= strategy.parameters.lookback => bars'[i] = Unseeded
    <3>1. CASE i \in 1..Len(bars)
      BY <1>1, <1>4, <2>1, <3>1 DEF IInv, BarsInv
    <3>2. CASE i = Len(bars) + 1
      BY <1>3, <1>4, <2>1, <3>2
    <3>. QED
      BY <1>4, <3>1, <3>2
  <2>2. ASSUME strategy.name = "bollinger", NEW i \in 1..Len(bars')
        PROVE  bars'[i] \in Closes
    <3>1. CASE i \in 1..Len(bars)
      BY <1>1, <1>4, <2>2, <3>1 DEF IInv, BarsInv
    <3>2. CASE i = Len(bars) + 1
      BY <1>3, <1>4, <2>2, <3>2
    <3>. QED
      BY <1>4, <3>1, <3>2
  <2>. QED
    BY <1>1, <1>4, <2>1, <2>2 DEF BarsInv
<1>6. OutputInv'
  <2>1. bars' # <<>>
    BY <1>4
  <2>2. CASE output'.error \in Errors /\ output'.directions = <<>>
    BY <2>2 DEF OutputInv
  <2>3. CASE output' = Signals(TargetsOf(strategy.name, strategy.parameters, bars'))
    <3>1. output'.error \in Errors
      BY <2>3, SignalsFields DEF Errors
    <3>. QED
      BY <1>1, <2>1, <3>1 DEF OutputInv
  <2>. QED
    BY <1>1, <2>2, <2>3, GenerateCases
<1>7. StrategyInv' /\ pair' \in Symbols \cup {""}
  BY <1>1 DEF IInv, StrategyInv, Bounded
<1>. QED
  BY <1>5, <1>6, <1>7 DEF IInv

LEMMA StepIInv == IInv /\ [Next]_vars => IInv'
<1>. SUFFICES ASSUME IInv, [Next]_vars PROVE IInv'
  OBVIOUS
<1>1. CASE UNCHANGED vars
  BY <1>1 DEF vars, IInv, StrategyInv, BarsInv, OutputInv, Bounded
<1>. QED
  BY <1>1, CreateKeeps, AttachKeeps, ExtendKeeps DEF Next

\* The inductive invariant holds in every state a caller can bring about.
LEMMA Invariance == Spec => []IInv
BY InitIInv, StepIInv, PTL DEF Spec

\* When there are signals, what they were computed from.
LEMMA SignalsOf ==
  ASSUME IInv, output.directions # <<>>
  PROVE  /\ strategy # None /\ strategy.name \in DOMAIN Specs
         /\ Bounded(strategy.name, strategy.parameters)
         /\ Len(bars) \in Nat /\ Len(bars) > 0
         /\ output = Generate(strategy, pair, bars)
         /\ output.directions = TargetsOf(strategy.name, strategy.parameters, bars)
         /\ ~(Len(bars) < WarmUp(strategy.name, strategy.parameters))
<1>1. /\ strategy # None /\ output = Generate(strategy, pair, bars)
      /\ bars \in Seq(AllBars) /\ bars # <<>>
  BY DEF IInv, OutputInv, BarsInv
<1>2. Len(bars) \in Nat /\ Len(bars) > 0
  BY <1>1, EmptySeq, LenProperties
<1>3. /\ output = Signals(TargetsOf(strategy.name, strategy.parameters, bars))
      /\ ~(Len(bars) < WarmUp(strategy.name, strategy.parameters))
  BY <1>1, GenerateCases
<1>. QED
  BY <1>1, <1>2, <1>3, SignalsFields DEF IInv, StrategyInv

-----------------------------------------------------------------------------
(* What the signals of each family are. *)

LEMMA TargetsCases ==
  ASSUME NEW p, NEW x
  PROVE  /\ TargetsOf("bollinger", p, x)
              = Hold([i \in 1..Len(x) |-> BollingerTarget(p, x, i)], Len(x))
         /\ TargetsOf("macd", p, x)
              = Hold([i \in 1..Len(x) |->
                        MacdTarget(p, Histogram(x, p.fast, p.slow, p.signal),
                                   MacdLine(x, p.fast, p.slow), i)], Len(x))
         /\ TargetsOf("dual_thrust", p, x)
              = Hold([i \in 1..Len(x) |-> DualThrustTarget(p, x, i)], Len(x))
         /\ TargetsOf("pair_trading", p, x) = PairDirections(x, Len(x))
BY DEF TargetsOf

\* A decision is a direction or none.
LEMMA TargetTypes ==
  ASSUME NEW p, NEW x, NEW i, NEW histogram, NEW line
  PROVE  /\ BollingerTarget(p, x, i) \in Directions \cup {Undecided}
         /\ MacdTarget(p, histogram, line, i) \in Directions \cup {Undecided}
         /\ DualThrustTarget(p, x, i) \in Directions \cup {Undecided}
<1>1. BollingerTarget(p, x, i) \in {LONG, FLAT, SHORT, Undecided}
  BY DEF BollingerTarget
<1>2. MacdTarget(p, histogram, line, i) \in {LONG, FLAT, SHORT, Undecided}
  BY DEF MacdTarget
<1>3. DualThrustTarget(p, x, i) \in {LONG, FLAT, SHORT, Undecided}
  BY DEF DualThrustTarget
<1>. QED
  BY <1>1, <1>2, <1>3 DEF Directions

\* What a bar of a pair decides: flat unless its reading is usable.
LEMMA PairTargetCases ==
  ASSUME NEW bar \in PairBars
  PROVE  /\ PairTarget(bar) \in Directions \cup {Undecided}
         /\ PairTarget(bar) = LONG => Usable(bar) /\ bar.z = "below_entry"
         /\ PairTarget(bar) = SHORT => Usable(bar) /\ bar.z = "above_entry"
         /\ PairTarget(bar) = Undecided => Usable(bar) /\ bar.z = "between"
<1>. USE ValueAssumption DEF LONG, FLAT, SHORT, Undecided
<1>1. CASE ~Usable(bar)
  BY <1>1 DEF PairTarget, Directions
<1>2. CASE Usable(bar)
  <2>1. bar.z \in {"below_entry", "between", "inside_exit", "above_entry"}
    <3>1. bar.z # "undefined"
      BY <1>2 DEF Usable
    <3>2. CASE bar = NoCounterpart
      BY <3>1, <3>2 DEF NoCounterpart
    <3>3. CASE bar \in [common: {TRUE}, z: ZScores, correlation: Correlations]
      BY <3>1, <3>3 DEF ZScores
    <3>. QED
      BY <3>2, <3>3 DEF PairBars
  <2>2. CASE bar.z = "below_entry"
    BY <1>2, <2>2 DEF PairTarget, Directions
  <2>3. CASE bar.z = "between"
    BY <1>2, <2>3 DEF PairTarget, Directions
  <2>4. CASE bar.z = "inside_exit"
    BY <1>2, <2>4 DEF PairTarget, Directions
  <2>5. CASE bar.z = "above_entry"
    BY <1>2, <2>5 DEF PairTarget, Directions
  <2>. QED
    BY <2>1, <2>2, <2>3, <2>4, <2>5
<1>. QED
  BY <1>1, <1>2

\* The decisions of a pair, common bar by common bar.
PairTargets(x, n) ==
  [j \in 1..n |-> IF j \in CommonBars(x, n) THEN PairTarget(x[j]) ELSE Undecided]

LEMMA PairDirectionsAre ==
  ASSUME NEW x, NEW n
  PROVE  PairDirections(x, n)
           = [i \in 1..n |-> IF i \in CommonBars(x, n) THEN Hold(PairTargets(x, n), n)[i]
                             ELSE FLAT]
BY DEF PairDirections, PairTargets

LEMMA PairTyped ==
  ASSUME NEW n \in Nat, NEW x, \A i \in 1..n : x[i] \in PairBars
  PROVE  PairDirections(x, n) \in [1..n -> Directions]
<1>1. \A i \in 1..n : PairTargets(x, n)[i] \in Directions \cup {Undecided}
  BY PairTargetCases DEF PairTargets
<1>2. Hold(PairTargets(x, n), n) \in [1..n -> Directions]
  BY <1>1, HoldTyped
<1>. QED
  BY <1>2, PairDirectionsAre DEF Directions

LEMMA TargetsTyped ==
  ASSUME IInv, output.directions # <<>>
  PROVE  output.directions \in [1..Len(bars) -> Directions]
<1>. DEFINE n == Len(bars)
            p == strategy.parameters
<1>1. /\ n \in Nat /\ output.directions = TargetsOf(strategy.name, p, bars)
      /\ strategy # None /\ strategy.name \in DOMAIN Specs
  BY SignalsOf
<1>2. CASE strategy.name = "bollinger"
  <2>. DEFINE target == [i \in 1..n |-> BollingerTarget(p, bars, i)]
  <2>1. \A i \in 1..n : target[i] \in Directions \cup {Undecided}
    BY TargetTypes
  <2>2. output.directions = Hold(target, n)
    BY <1>1, <1>2, TargetsCases
  <2>. HIDE DEF target
  <2>. QED
    BY <1>1, <2>1, <2>2, HoldTyped
<1>3. CASE strategy.name = "macd"
  <2>. DEFINE target == [i \in 1..n |-> MacdTarget(p, Histogram(bars, p.fast, p.slow, p.signal),
                                          MacdLine(bars, p.fast, p.slow), i)]
  <2>1. \A i \in 1..n : target[i] \in Directions \cup {Undecided}
    BY TargetTypes
  <2>2. output.directions = Hold(target, n)
    BY <1>1, <1>3, TargetsCases
  <2>. HIDE DEF target
  <2>. QED
    BY <1>1, <2>1, <2>2, HoldTyped
<1>4. CASE strategy.name = "dual_thrust"
  <2>. DEFINE target == [i \in 1..n |-> DualThrustTarget(p, bars, i)]
  <2>1. \A i \in 1..n : target[i] \in Directions \cup {Undecided}
    BY TargetTypes
  <2>2. output.directions = Hold(target, n)
    BY <1>1, <1>4, TargetsCases
  <2>. HIDE DEF target
  <2>. QED
    BY <1>1, <2>1, <2>2, HoldTyped
<1>5. CASE strategy.name = "pair_trading"
  <2>1. \A i \in 1..n : bars[i] \in PairBars
    BY <1>1, <1>5 DEF IInv, BarsInv
  <2>. QED
    BY <1>1, <1>5, <2>1, TargetsCases, PairTyped
<1>. QED
  BY <1>1, <1>2, <1>3, <1>4, <1>5 DEF Specs

-----------------------------------------------------------------------------
(* The theorems. *)

\* Type correctness: in particular the parameters of every strategy that exists
\* are within their declared bounds, whatever was given (ParameterSpec.validate).
THEOREM TypeCorrect == Spec => []TypeOK
<1>1. IInv => TypeOK
  <2>. SUFFICES ASSUME IInv PROVE TypeOK
    OBVIOUS
  <2>1. output.directions \in Seq(Directions)
    <3>1. CASE output.directions = <<>>
      BY <3>1, EmptySeq
    <3>2. CASE output.directions # <<>>
      BY <3>2, TargetsTyped, SignalsOf, SeqDef
    <3>. QED
      BY <3>1, <3>2
  <2>2. strategy # None => strategy.name \in DOMAIN Specs
                             /\ Bounded(strategy.name, strategy.parameters)
    BY DEF IInv, StrategyInv
  <2>. QED
    BY <2>1, <2>2 DEF IInv, OutputInv, TypeOK, Bounded
<1>. QED
  BY <1>1, Invariance, PTL

\* Without a decision up to a bar, the bar is flat.
LEMMA UndecidedIsFlat ==
  ASSUME NEW n \in Nat, NEW target, NEW i \in 1..n,
         \A j \in 1..i : target[j] \in {Undecided, FLAT}
  PROVE  Hold(target, n)[i] = FLAT
BY HeldDecision

LEMMA WarmUps ==
  ASSUME NEW p
  PROVE  /\ WarmUp("bollinger", p) = p.window
         /\ WarmUp("macd", p) = p.slow + p.signal
         /\ WarmUp("dual_thrust", p) = p.lookback + 1
         /\ WarmUp("pair_trading", p) = p.lookback + 1
BY DEF WarmUp

LEMMA HistogramDomain ==
  ASSUME NEW x, NEW fast, NEW slow, NEW signal
  PROVE  DOMAIN Histogram(x, fast, slow, signal) = (slow + signal - 1)..Len(x)
BY DEF Histogram

\* What a strategy with parameters in bounds declares as its warm-up.
LEMMA WarmUpIs ==
  ASSUME NEW name \in DOMAIN Specs, NEW p, Bounded(name, p)
  PROVE  /\ WarmUp(name, p) \in Nat
         /\ name = "bollinger" => WarmUp(name, p) = p.window /\ p.window \in Nat \ {0}
         /\ name = "macd" =>
              WarmUp(name, p) = p.slow + p.signal /\ p.slow \in Nat /\ p.signal \in Nat
         /\ name \in {"dual_thrust", "pair_trading"} =>
              WarmUp(name, p) = p.lookback + 1 /\ p.lookback \in Nat
<1>1. CASE name = "bollinger"
  <2>1. p.window \in 2..400 /\ WarmUp(name, p) = p.window
    BY <1>1, Windows, WarmUps
  <2>. QED
    BY <1>1, <2>1
<1>2. CASE name = "macd"
  <2>1. p.slow \in 3..400 /\ p.signal \in 2..100 /\ WarmUp(name, p) = p.slow + p.signal
    BY <1>2, Windows, WarmUps
  <2>2. p.slow \in Nat /\ p.signal \in Nat
    BY <2>1
  <2>3. WarmUp(name, p) \in Nat
    BY <2>1, <2>2
  <2>. QED
    BY <1>2, <2>1, <2>2, <2>3
<1>3. CASE name = "dual_thrust"
  <2>1. p.lookback \in 2..200 /\ WarmUp(name, p) = p.lookback + 1
    BY <1>3, Windows, WarmUps
  <2>. QED
    BY <1>3, <2>1
<1>4. CASE name = "pair_trading"
  <2>1. p.lookback \in 10..500 /\ WarmUp(name, p) = p.lookback + 1
    BY <1>4, Windows, WarmUps
  <2>. QED
    BY <1>4, <2>1
<1>. QED
  BY <1>1, <1>2, <1>3, <1>4 DEF Specs

\* Before its warm-up is over a strategy decides nothing but to be flat.
LEMMA EarlyTargets ==
  ASSUME NEW name \in DOMAIN Specs, NEW p, Bounded(name, p),
         NEW x, Len(x) \in Nat, NEW i \in 1..Len(x), i < WarmUp(name, p),
         name = "pair_trading" =>
           \A j \in 1..Len(x) : j <= p.lookback => x[j] = Unseeded
  PROVE  TargetsOf(name, p, x)[i] = FLAT
<1>1. CASE name = "bollinger"
  <2>. DEFINE target == [j \in 1..Len(x) |-> BollingerTarget(p, x, j)]
  <2>1. \A j \in 1..i : target[j] = Undecided
    <3>. TAKE j \in 1..i
    <3>1. ~Full(j, p.window) /\ ~Full(j - 1, p.window)
      BY <1>1, WarmUpIs DEF Full
    <3>2. j \in 1..Len(x)
      OBVIOUS
    <3>. QED
      BY <3>1, <3>2 DEF BollingerTarget, AboveUpper, BelowLower, CrossedMiddle
  <2>2. TargetsOf(name, p, x) = Hold(target, Len(x))
    BY <1>1, TargetsCases
  <2>. HIDE DEF target
  <2>. QED
    BY <2>1, <2>2, UndecidedIsFlat
<1>2. CASE name = "macd"
  <2>. DEFINE histogram == Histogram(x, p.fast, p.slow, p.signal)
              line == MacdLine(x, p.fast, p.slow)
              target == [j \in 1..Len(x) |-> MacdTarget(p, histogram, line, j)]
  <2>1. \A j \in 1..i : target[j] = Undecided
    <3>. TAKE j \in 1..i
    <3>1. j - 1 \notin DOMAIN histogram
      BY <1>2, WarmUpIs, HistogramDomain
    <3>2. j \in 1..Len(x)
      OBVIOUS
    <3>. HIDE DEF histogram, line
    <3>. QED
      BY <3>1, <3>2 DEF MacdTarget
  <2>2. TargetsOf(name, p, x) = Hold(target, Len(x))
    BY <1>2, TargetsCases
  <2>. HIDE DEF target
  <2>. QED
    BY <2>1, <2>2, UndecidedIsFlat
<1>3. CASE name = "dual_thrust"
  <2>. DEFINE target == [j \in 1..Len(x) |-> DualThrustTarget(p, x, j)]
  <2>1. \A j \in 1..i : target[j] = Undecided
    <3>. TAKE j \in 1..i
    <3>1. ~Full(j - 1, p.lookback)
      BY <1>3, WarmUpIs DEF Full
    <3>2. j \in 1..Len(x)
      OBVIOUS
    <3>. QED
      BY <3>1, <3>2 DEF DualThrustTarget
  <2>2. TargetsOf(name, p, x) = Hold(target, Len(x))
    BY <1>3, TargetsCases
  <2>. HIDE DEF target
  <2>. QED
    BY <2>1, <2>2, UndecidedIsFlat
<1>4. CASE name = "pair_trading"
  <2>. DEFINE target == PairTargets(x, Len(x))
  <2>1. \A j \in 1..i : target[j] \in {Undecided, FLAT}
    <3>. TAKE j \in 1..i
    <3>1. j \in 1..Len(x) /\ j <= p.lookback
      BY <1>4, WarmUpIs
    <3>2. x[j] = Unseeded
      BY <1>4, <3>1
    <3>3. PairTarget(x[j]) = FLAT
      BY <3>2 DEF PairTarget, Usable, Unseeded
    <3>. QED
      BY <3>1, <3>3 DEF PairTargets
  <2>2. TargetsOf(name, p, x) = PairDirections(x, Len(x))
    BY <1>4, TargetsCases
  <2>. HIDE DEF target
  <2>3. Hold(target, Len(x))[i] = FLAT
    BY <2>1, UndecidedIsFlat
  <2>. QED
    BY <2>2, <2>3, PairDirectionsAre DEF target
<1>. QED
  BY <1>1, <1>2, <1>3, <1>4 DEF Specs

\* A strategy is flat until its declared warm-up is over, and there are no signals
\* of a series shorter than that (warmup_bars against generate_signals).
THEOREM FlatInWarmUp == Spec => []WarmUpFlat
<1>1. IInv => WarmUpFlat
  <2>. SUFFICES ASSUME IInv, output.directions # <<>> PROVE WarmUpFlat
    BY DEF WarmUpFlat
  <2>1. /\ strategy # None /\ strategy.name \in DOMAIN Specs
        /\ Bounded(strategy.name, strategy.parameters)
        /\ Len(bars) \in Nat
        /\ output.directions = TargetsOf(strategy.name, strategy.parameters, bars)
        /\ ~(Len(bars) < WarmUp(strategy.name, strategy.parameters))
    BY SignalsOf
  <2>2. WarmUp(strategy.name, strategy.parameters) \in Nat
    BY <2>1, WarmUpIs
  <2>3. strategy.name = "pair_trading" =>
          \A j \in 1..Len(bars) : j <= strategy.parameters.lookback => bars[j] = Unseeded
    BY <2>1 DEF IInv, BarsInv
  <2>4. \A i \in 1..Len(bars) : i < WarmUp(strategy.name, strategy.parameters)
                                  => output.directions[i] = FLAT
    BY <2>1, <2>3, EarlyTargets
  <2>. QED
    BY <2>1, <2>2, <2>4 DEF WarmUpFlat
<1>. QED
  BY <1>1, Invariance, PTL

-----------------------------------------------------------------------------
(* Pairs. *)

\* A position of a pair and the crossing it goes back to.
LEMMA PairEntry ==
  ASSUME NEW n \in Nat, NEW x, \A j \in 1..n : x[j] \in PairBars,
         NEW i \in 1..n, PairDirections(x, n)[i] # FLAT
  PROVE  \E j \in 1..i :
           /\ x[j].z = (IF PairDirections(x, n)[i] = LONG THEN "below_entry" ELSE "above_entry")
           /\ \A k \in CommonBars(x, i) \cap (j..i) : Usable(x[k]) /\ x[k].z # "inside_exit"
<1>. DEFINE target == PairTargets(x, n)
            d == PairDirections(x, n)[i]
<1>. USE ValueAssumption
<1>1. i \in CommonBars(x, n) /\ d = Hold(target, n)[i] /\ d # FLAT
  BY PairDirectionsAre
<1>2. \A j \in 1..n :
        target[j] = IF j \in CommonBars(x, n) THEN PairTarget(x[j]) ELSE Undecided
  BY DEF PairTargets
<1>. HIDE DEF target, d
<1>3. PICK j \in 1..i :
        /\ target[j] # Undecided /\ d = target[j]
        /\ \A k \in (j + 1)..i : target[k] = Undecided
  BY <1>1, HeldDecision
<1>4. j \in 1..n /\ j \in CommonBars(x, n) /\ d = PairTarget(x[j]) /\ x[j] \in PairBars
  BY <1>2, <1>3
<1>5. d \in {LONG, SHORT}
  BY <1>1, <1>3, <1>4, PairTargetCases DEF Directions
<1>6. /\ Usable(x[j]) /\ x[j].z \in {"below_entry", "above_entry"}
      /\ x[j].z = (IF d = LONG THEN "below_entry" ELSE "above_entry")
  <2>1. LONG # SHORT
    BY DEF LONG, SHORT
  <2>. QED
    BY <1>4, <1>5, <2>1, PairTargetCases
<1>7. \A k \in CommonBars(x, i) \cap (j..i) : Usable(x[k]) /\ x[k].z # "inside_exit"
  <2>. TAKE k \in CommonBars(x, i) \cap (j..i)
  <2>1. CASE k = j
    BY <1>6, <2>1
  <2>2. CASE k # j
    <3>1. k \in (j + 1)..i /\ k \in 1..n
      BY <2>2
    <3>2. k \in CommonBars(x, n)
      BY <3>1 DEF CommonBars
    <3>3. PairTarget(x[k]) = Undecided /\ x[k] \in PairBars
      BY <1>2, <1>3, <3>1, <3>2
    <3>4. Usable(x[k]) /\ x[k].z = "between"
      BY <3>3, PairTargetCases
    <3>. QED
      BY <3>4
  <2>. QED
    BY <2>1, <2>2
<1>. QED
  BY <1>3, <1>6, <1>7 DEF d

\* A pair position goes back to a bar on which the spread crossed the entry band,
\* with a usable reading on every common bar since (the forced flat of
\* pair_trading.py comes before the forward fill).
THEOREM EntriesAreFresh == Spec => []FreshEntries
<1>1. IInv => FreshEntries
  <2>. SUFFICES ASSUME IInv, Running("pair_trading") PROVE FreshEntries
    BY DEF FreshEntries
  <2>1. /\ strategy # None /\ strategy.name = "pair_trading" /\ Len(bars) \in Nat
        /\ output.directions = TargetsOf("pair_trading", strategy.parameters, bars)
    BY SignalsOf DEF Running
  <2>2. output.directions = PairDirections(bars, Len(bars))
    BY <2>1, TargetsCases
  <2>3. \A j \in 1..Len(bars) : bars[j] \in PairBars
    BY <2>1 DEF IInv, BarsInv
  <2>4. DOMAIN bars = 1..Len(bars)
    BY LenProperties DEF IInv, BarsInv
  <2>. QED
    BY <2>1, <2>2, <2>3, <2>4, PairEntry DEF FreshEntries
<1>. QED
  BY <1>1, Invariance, PTL

-----------------------------------------------------------------------------
(* Dual Thrust. *)

\* The decision of a bar depends on the completed bars before it, and on its own
\* open and close when the trigger is the close.
LEMMA ThrustReads ==
  ASSUME NEW p, p.lookback \in Nat, NEW x, NEW y, NEW i \in Nat,
         \A j \in 1..(i - 1) : y[j] = x[j],
         \/ y[i] = x[i]
         \/ /\ p.trigger_on = "close"
            /\ y[i].open = x[i].open /\ y[i].close = x[i].close
  PROVE  DualThrustTarget(p, y, i) = DualThrustTarget(p, x, i)
<1>1. CASE ~Full(i - 1, p.lookback)
  BY <1>1 DEF DualThrustTarget
<1>2. CASE Full(i - 1, p.lookback)
  <2>1. \A j \in Window(i - 1, p.lookback) : y[j] = x[j]
    BY <1>2 DEF Full, Window
  <2>2. \A field : Prior(y, i, p.lookback, field) = Prior(x, i, p.lookback, field)
    BY <2>1 DEF Prior
  <2>3. ThrustRange(y, i, p.lookback) = ThrustRange(x, i, p.lookback)
    <3>1. /\ Prior(y, i, p.lookback, "high") = Prior(x, i, p.lookback, "high")
          /\ Prior(y, i, p.lookback, "low") = Prior(x, i, p.lookback, "low")
          /\ Prior(y, i, p.lookback, "close") = Prior(x, i, p.lookback, "close")
      BY <2>2
    <3>. QED
      BY <3>1 DEF ThrustRange
  <2>4. /\ y[i].open = x[i].open
        /\ p.trigger_on = "close" => y[i].close = x[i].close
        /\ p.trigger_on # "close" => y[i] = x[i]
    OBVIOUS
  <2>. QED
    BY <2>3, <2>4 DEF DualThrustTarget
<1>. QED
  BY <1>1, <1>2

\* On close triggers no decision depends on the high and low of its own bar
\* (the shift(1) of dual_thrust.py).
THEOREM RangeIsOfThePast == Spec => []RangeFromCompletedBars
<1>1. IInv => RangeFromCompletedBars
  <2>. DEFINE n == Len(bars)
  <2>. SUFFICES ASSUME IInv, Running("dual_thrust"), strategy.parameters.trigger_on = "close",
                       NEW candle \in Candles,
                       candle.open = bars[n].open, candle.close = bars[n].close
                PROVE  Generate(strategy, pair, [bars EXCEPT ![n] = candle]).directions
                         = output.directions
    BY DEF RangeFromCompletedBars
  <2>1. /\ strategy # None /\ strategy.name = "dual_thrust"
        /\ n \in Nat /\ n > 0
        /\ output.directions = TargetsOf("dual_thrust", strategy.parameters, bars)
        /\ ~(n < WarmUp("dual_thrust", strategy.parameters))
        /\ strategy.parameters.lookback \in Nat
    <3>1. strategy.name = "dual_thrust" /\ output.directions # <<>>
      BY DEF Running
    <3>. QED
      BY <3>1, SignalsOf, WarmUpIs
  <2>. DEFINE p == strategy.parameters
              other == [bars EXCEPT ![n] = candle]
  <2>2. Len(other) = n /\ \A j \in 1..n : other[j] = IF j = n THEN candle ELSE bars[j]
    <3>1. bars \in Seq(AllBars)
      BY DEF IInv, BarsInv
    <3>2. candle \in AllBars
      BY DEF AllBars
    <3>3. n \in 1..Len(bars)
      BY <2>1
    <3>. QED
      BY <3>1, <3>2, <3>3, ExceptSeq
  <2>. HIDE DEF other
  <2>3. Generate(strategy, pair, other) = Signals(TargetsOf("dual_thrust", p, other))
    BY <2>1, <2>2 DEF Generate
  <2>4. \A i \in 1..n : DualThrustTarget(p, other, i) = DualThrustTarget(p, bars, i)
    <3>. TAKE i \in 1..n
    <3>1. \A j \in 1..(i - 1) : other[j] = bars[j]
      BY <2>1, <2>2
    <3>2. \/ other[i] = bars[i]
          \/ other[i].open = bars[i].open /\ other[i].close = bars[i].close
      BY <2>2
    <3>. QED
      BY <2>1, <3>1, <3>2, ThrustReads
  <2>5. TargetsOf("dual_thrust", p, other) = TargetsOf("dual_thrust", p, bars)
    <3>1. [i \in 1..n |-> DualThrustTarget(p, other, i)]
            = [i \in 1..n |-> DualThrustTarget(p, bars, i)]
      BY <2>4
    <3>2. /\ TargetsOf("dual_thrust", p, other)
               = Hold([i \in 1..Len(other) |-> DualThrustTarget(p, other, i)], Len(other))
          /\ TargetsOf("dual_thrust", p, bars)
               = Hold([i \in 1..n |-> DualThrustTarget(p, bars, i)], n)
      BY TargetsCases
    <3>. QED
      BY <2>2, <3>1, <3>2
  <2>. QED
    BY <2>1, <2>3, <2>5, SignalsFields DEF other
<1>. QED
  BY <1>1, Invariance, PTL

-----------------------------------------------------------------------------
(* Bollinger. *)

LEMMA FirstOne ==
  ASSUME NEW n \in Nat, NEW D, D \subseteq 1..n, D # {}
  PROVE  \E m \in D : \A k \in D : m <= k
<1>1. IsFiniteSet(1..n) /\ 1..n \subseteq Int
  BY FS_Interval
<1>2. IsFiniteSet(D) /\ D \subseteq Int
  BY <1>1, FS_Subset
<1>. QED
  BY <1>2, Least

\* A rolling sum is the sum over its window.
LEMMA RollingSumIs ==
  ASSUME NEW x, NEW i \in Int, NEW window \in Int
  PROVE  /\ RollingSum(x, i, window) = SumOver(x, Window(i, window))
         /\ IsFiniteSet(Window(i, window))
<1>1. RollingSum(x, i, window) = SumOver(x, Window(i, window))
  BY DEF RollingSum, SumOver
<1>2. i - window + 1 \in Int
  OBVIOUS
<1>3. IsFiniteSet(Window(i, window))
  BY <1>2, FS_Interval DEF Window
<1>. QED
  BY <1>1, <1>3

\* The sum of whole prices over a full window is whole.
LEMMA WholeSums ==
  ASSUME NEW x \in Seq(Int), NEW window \in Nat \ {0}, NEW i \in window..Len(x)
  PROVE  RollingSum(x, i, window) \in Int
<1>1. Len(x) \in Nat /\ \A j \in 1..Len(x) : x[j] \in Int
  BY LenProperties, ElementOfSeq
<1>2. i \in Int /\ window \in Int /\ \A j \in Window(i, window) : j \in 1..Len(x)
  BY <1>1 DEF Window
<1>. QED
  BY <1>1, <1>2, RollingSumIs, SumInt

\* A reversion trade is on its own side of the middle, or undecided on it, from
\* its entry on: the first bar on the far side would have been a crossing.
LEMMA ReversionSide ==
  ASSUME NEW p, p.window \in Nat \ {0}, p.exit_at_middle,
         NEW x \in Seq(Int), NEW i \in 1..Len(x),
         TargetsOf("bollinger", p, x)[i] # FLAT
  PROVE  TargetsOf("bollinger", p, x)[i] * Deviation(x, i, p.window) <= 0
<1>. USE ValueAssumption
<1>. DEFINE n == Len(x)
            target == [j \in 1..n |-> BollingerTarget(p, x, j)]
            d == TargetsOf("bollinger", p, x)[i]
            dev(j) == Deviation(x, j, p.window)
<1>1. n \in Nat /\ (\A j \in 1..n : x[j] \in Int)
  BY LenProperties, ElementOfSeq
<1>2. d = Hold(target, n)[i] /\ d # FLAT /\ \A j \in 1..n : target[j] = BollingerTarget(p, x, j)
  BY TargetsCases
<1>3. \A j \in p.window..n : dev(j) \in Int
  <2>. TAKE j \in p.window..n
  <2>1. RollingSum(x, j, p.window) \in Int /\ x[j] \in Int
    BY <1>1, WholeSums
  <2>. QED
    BY <2>1 DEF Deviation
<1>. HIDE DEF target, d, n
<1>4. PICK j \in 1..i :
        /\ target[j] # Undecided /\ d = target[j]
        /\ \A k \in (j + 1)..i : target[k] = Undecided
  BY <1>1, <1>2, HeldDecision DEF n
<1>5. j \in 1..n /\ i \in 1..n /\ d = BollingerTarget(p, x, j)
  BY <1>1, <1>2, <1>4 DEF n
<1>6. \/ d = LONG /\ BelowLower(x, j, p.window, p.num_std)
      \/ d = SHORT /\ AboveUpper(x, j, p.window, p.num_std)
  BY <1>2, <1>4, <1>5 DEF BollingerTarget
<1>7. /\ j >= p.window /\ d \in {1, -1}
      /\ d = 1 => dev(j) < 0
      /\ d = -1 => dev(j) > 0
  BY <1>6 DEF BelowLower, AboveUpper, Full, LONG, SHORT
<1>8. ASSUME NEW k \in (j + 1)..i,
             d = 1 => dev(k) > 0, d = -1 => dev(k) < 0,
             d = 1 => dev(k - 1) <= 0, d = -1 => dev(k - 1) >= 0
      PROVE  FALSE
  <2>1. /\ k \in 1..n /\ k - 1 >= p.window
        /\ dev(k) \in Int /\ dev(k - 1) \in Int
    BY <1>1, <1>3, <1>5, <1>7
  <2>2. d * dev(k - 1) <= 0 /\ d * dev(k) > 0
    BY <1>7, <1>8, <2>1
  <2>3. CrossedMiddle(x, k, p.window, d)
    BY <2>1, <2>2 DEF CrossedMiddle, Full
  <2>4. BollingerTarget(p, x, k) # Undecided
    BY <1>7, <2>3 DEF BollingerTarget, LONG, SHORT, FLAT, Undecided
  <2>. QED
    BY <1>2, <1>4, <2>1, <2>4
<1>. DEFINE far == {k \in j..i : (d = 1 /\ dev(k) > 0) \/ (d = -1 /\ dev(k) < 0)}
<1>9. far = {}
  <2>. SUFFICES ASSUME far # {} PROVE FALSE
    OBVIOUS
  <2>1. far \subseteq 1..n
    BY <1>1, <1>5
  <2>2. PICK m \in far : \A k \in far : m <= k
    <3>. HIDE DEF far
    <3>. QED
      BY <1>1, <2>1, FirstOne DEF n
  <2>3. m # j
    <3>1. j \in p.window..n /\ dev(j) \in Int
      BY <1>1, <1>3, <1>5, <1>7
    <3>. QED
      BY <1>7, <2>2, <3>1
  <2>4. m \in (j + 1)..i /\ m - 1 \in j..i /\ m - 1 \notin far
    BY <2>2, <2>3
  <2>5. m - 1 \in p.window..n /\ dev(m - 1) \in Int
    BY <1>1, <1>3, <1>5, <1>7, <2>4
  <2>6. (d = 1 => dev(m - 1) <= 0) /\ (d = -1 => dev(m - 1) >= 0)
    BY <2>4, <2>5
  <2>. QED
    BY <1>7, <1>8, <2>2, <2>4, <2>6
<1>10. /\ i \in p.window..n /\ dev(i) \in Int
       /\ d = 1 => dev(i) <= 0
       /\ d = -1 => dev(i) >= 0
  <2>1. i \in p.window..n /\ i \in j..i
    BY <1>1, <1>5, <1>7
  <2>2. dev(i) \in Int
    BY <1>3, <2>1
  <2>3. i \notin far
    BY <1>9
  <2>. QED
    BY <2>1, <2>2, <2>3
<1>11. d * dev(i) <= 0
  BY <1>7, <1>10
<1>. QED
  BY <1>11 DEF d

\* With exit_at_middle a reversion trade is never held on the far side of the
\* middle (bollinger.py), for any prices whose rolling sums are whole numbers.
THEOREM ReversionEnds == Spec => []ReversionHeld
<1>1. IInv => ReversionHeld
  <2>. SUFFICES ASSUME IInv, Running("bollinger"), strategy.parameters.exit_at_middle
                PROVE  ReversionHeld
    BY DEF ReversionHeld
  <2>1. /\ strategy # None /\ strategy.name = "bollinger"
        /\ output.directions = TargetsOf("bollinger", strategy.parameters, bars)
        /\ strategy.parameters.window \in Nat \ {0}
    <3>1. strategy.name = "bollinger" /\ output.directions # <<>>
      BY DEF Running
    <3>. QED
      BY <3>1, SignalsOf, WarmUpIs
  <2>2. bars \in Seq(Int) /\ DOMAIN bars = 1..Len(bars)
    <3>1. /\ Len(bars) \in Nat /\ bars \in [1..Len(bars) -> AllBars]
          /\ DOMAIN bars = 1..Len(bars)
      BY LenProperties DEF IInv, BarsInv
    <3>2. \A i \in 1..Len(bars) : bars[i] \in Int
      BY <2>1, ValueAssumption DEF IInv, BarsInv
    <3>3. bars \in [1..Len(bars) -> Int]
      BY <3>1, <3>2
    <3>. QED
      BY <3>1, <3>3, SeqDef
  <2>. QED
    BY <2>1, <2>2, ReversionSide DEF ReversionHeld
<1>. QED
  BY <1>1, Invariance, PTL

-----------------------------------------------------------------------------
(* No look-ahead. *)

\* A decision on a bar after these does not change what is held on them.
LEMMA HoldPrefix ==
  ASSUME NEW n \in Nat, NEW m \in Nat, n <= m, NEW target, NEW other,
         \A i \in 1..n : other[i] = target[i]
  PROVE  \A i \in 1..n : Hold(other, m)[i] = Hold(target, n)[i]
<1>. TAKE i \in 1..n
<1>1. {j \in 1..i : other[j] # Undecided} = {j \in 1..i : target[j] # Undecided}
  OBVIOUS
<1>2. /\ Hold(other, m)[i] = LET decided == {j \in 1..i : other[j] # Undecided}
                             IN IF decided = {} THEN FLAT ELSE other[Max(decided)]
      /\ Hold(target, n)[i] = LET decided == {j \in 1..i : target[j] # Undecided}
                              IN IF decided = {} THEN FLAT ELSE target[Max(decided)]
  BY DEF Hold
<1>. DEFINE decided == {j \in 1..i : target[j] # Undecided}
<1>3. decided # {} => Max(decided) \in 1..n
  <2>1. i \in Nat /\ decided \subseteq 1..i
    OBVIOUS
  <2>2. \A j \in decided : j \in 1..n
    OBVIOUS
  <2>. HIDE DEF decided
  <2>3. decided # {} => Max(decided) \in decided
    BY <2>1, LastOne
  <2>. QED
    BY <2>2, <2>3
<1>. QED
  BY <1>1, <1>2, <1>3

\* A sum over a window reads nothing outside it.
LEMMA WindowSums ==
  ASSUME NEW x, NEW y, NEW window \in Int, NEW i \in Int,
         \A j \in Window(i, window) : y[j] = x[j]
  PROVE  RollingSum(y, i, window) = RollingSum(x, i, window)
BY RollingSumIs, SumAgree

\* y goes on where x ends.
Continues(x, y) ==
  /\ Len(x) \in Nat /\ Len(y) \in Nat /\ Len(x) <= Len(y)
  /\ \A i \in 1..Len(x) : y[i] = x[i]

LEMMA BollingerReads ==
  ASSUME NEW p, p.window \in Nat \ {0},
         NEW x \in Seq(Int), NEW y \in Seq(Int), Continues(x, y), NEW i \in 1..Len(x)
  PROVE  BollingerTarget(p, y, i) = BollingerTarget(p, x, i)
<1>. DEFINE w == p.window
            square(z) == [j \in DOMAIN z |-> z[j] * z[j]]
<1>1. /\ Len(x) \in Nat /\ DOMAIN x = 1..Len(x) /\ (\A j \in 1..Len(x) : x[j] \in Int)
      /\ Len(y) \in Nat /\ DOMAIN y = 1..Len(y) /\ (\A j \in 1..Len(y) : y[j] \in Int)
  BY LenProperties, ElementOfSeq
<1>2. /\ square(x) \in Seq(Int) /\ Len(square(x)) = Len(x)
      /\ square(y) \in Seq(Int) /\ Len(square(y)) = Len(y)
  <2>1. square(x) \in [1..Len(x) -> Int] /\ square(y) \in [1..Len(y) -> Int]
    BY <1>1
  <2>2. square(x) \in Seq(Int) /\ square(y) \in Seq(Int)
    BY <1>1, <2>1, SeqDef
  <2>3. DOMAIN square(x) = 1..Len(x) /\ DOMAIN square(y) = 1..Len(y)
    BY <1>1
  <2>. HIDE DEF square
  <2>. QED
    BY <1>1, <2>2, <2>3, LenProperties
<1>3. \A j \in 1..Len(x) : square(y)[j] = square(x)[j] /\ y[j] = x[j]
  BY <1>1 DEF Continues
<1>. HIDE DEF square
<1>4. ASSUME NEW k \in w..Len(x)
      PROVE  /\ RollingSum(y, k, w) = RollingSum(x, k, w)
             /\ RollingSum(square(y), k, w) = RollingSum(square(x), k, w)
  <2>1. \A j \in Window(k, w) : j \in 1..Len(x)
    BY <1>1 DEF Window
  <2>2. k \in Int /\ w \in Int
    BY <1>1
  <2>. QED
    BY <1>3, <2>1, <2>2, WindowSums
<1>5. ASSUME NEW k \in w..Len(x)
      PROVE  /\ Deviation(y, k, w) = Deviation(x, k, w)
             /\ Dispersion(y, k, w) = Dispersion(x, k, w)
             /\ y[k] = x[k]
  <2>1. y[k] = x[k]
    BY <1>1, <1>3
  <2>. QED
    BY <1>4, <2>1 DEF Deviation, Dispersion, square
<1>6. Full(i, w) => i \in w..Len(x)
  BY <1>1 DEF Full
<1>7. Full(i - 1, w) => i \in w..Len(x) /\ i - 1 \in w..Len(x)
  BY <1>1 DEF Full
<1>8. /\ AboveUpper(y, i, w, p.num_std) = AboveUpper(x, i, w, p.num_std)
      /\ BelowLower(y, i, w, p.num_std) = BelowLower(x, i, w, p.num_std)
  BY <1>5, <1>6 DEF AboveUpper, BelowLower, Beyond
<1>9. \A sign : CrossedMiddle(y, i, w, sign) = CrossedMiddle(x, i, w, sign)
  BY <1>5, <1>7 DEF CrossedMiddle
<1>. QED
  BY <1>8, <1>9 DEF BollingerTarget

LEMMA PairReads ==
  ASSUME NEW x, NEW y, Continues(x, y), NEW i \in 1..Len(x)
  PROVE  PairDirections(y, Len(y))[i] = PairDirections(x, Len(x))[i]
<1>1. \A j \in 1..Len(x) : j \in 1..Len(y) /\ y[j] = x[j]
  BY DEF Continues
<1>2. \A j \in 1..Len(x) : j \in CommonBars(y, Len(y)) <=> j \in CommonBars(x, Len(x))
  BY <1>1 DEF CommonBars
<1>3. \A j \in 1..Len(x) : PairTargets(y, Len(y))[j] = PairTargets(x, Len(x))[j]
  BY <1>1, <1>2 DEF PairTargets
<1>4. Hold(PairTargets(y, Len(y)), Len(y))[i] = Hold(PairTargets(x, Len(x)), Len(x))[i]
  BY <1>3, HoldPrefix DEF Continues
<1>. QED
  BY <1>1, <1>2, <1>4, PairDirectionsAre

-----------------------------------------------------------------------------
(* The exponential averages are the one recursive definition: that there is *)
(* a function with the recursion is what each bar adds to the one before.   *)

AverageOf(x, first, span, e, i) ==
  IF i = first + span - 1 THEN RollingSum(x, i, span) \div span
  ELSE (2 * x[i] + (span - 1) * e[i - 1]) \div (span + 1)

IsAverage(x, first, last, span, e) ==
  e = [i \in (first + span - 1)..last |-> AverageOf(x, first, span, e, i)]

LEMMA AverageExists ==
  ASSUME NEW x, NEW first \in Int, NEW last \in Int, NEW span \in Int
  PROVE  \E e : IsAverage(x, first, last, span, e)
<1>. DEFINE seed == first + span - 1
            Good == {n \in seed..last : \E e : IsAverage(x, first, n, span, e)}
<1>1. seed \in Int
  OBVIOUS
<1>2. CASE ~(seed <= last)
  <2>. DEFINE e == [i \in seed..last |-> 0]
  <2>1. seed..last = {}
    BY <1>1, <1>2
  <2>2. e = [i \in seed..last |-> AverageOf(x, first, span, e, i)]
    BY <2>1
  <2>. HIDE DEF e
  <2>. QED
    BY <2>2 DEF IsAverage
<1>3. CASE seed <= last
  <2>1. seed \in Good
    <3>. DEFINE e == [i \in seed..seed |-> RollingSum(x, i, span) \div span]
    <3>1. \A i \in seed..seed : i = seed
      BY <1>1
    <3>2. e = [i \in seed..seed |-> AverageOf(x, first, span, e, i)]
      BY <3>1 DEF AverageOf
    <3>3. seed \in seed..last
      BY <1>1, <1>3
    <3>. HIDE DEF e
    <3>4. \E g : IsAverage(x, first, seed, span, g)
      BY <3>2 DEF IsAverage
    <3>. QED
      BY <3>3, <3>4
  <2>2. ASSUME NEW n \in seed..(last - 1), n \in Good
        PROVE  n + 1 \in Good
    <3>1. PICK e : IsAverage(x, first, n, span, e)
      BY <2>2
    <3>. DEFINE g == [i \in seed..(n + 1) |->
                        IF i = n + 1 THEN AverageOf(x, first, span, e, i) ELSE e[i]]
    <3>2. ASSUME NEW i \in seed..(n + 1) PROVE g[i] = AverageOf(x, first, span, g, i)
      <4>1. i # seed => i - 1 \in seed..(n + 1) /\ i - 1 # n + 1
        BY <1>1
      <4>2. i # seed => g[i - 1] = e[i - 1]
        BY <4>1
      <4>3. i # n + 1 => i \in seed..n
        BY <1>1
      <4>4. g[i] = AverageOf(x, first, span, e, i)
        <5>1. CASE i = n + 1
          BY <5>1
        <5>2. CASE i # n + 1
          BY <3>1, <4>3, <5>2 DEF IsAverage
        <5>. QED
          BY <5>1, <5>2
      <4>. HIDE DEF g
      <4>. QED
        BY <4>2, <4>4 DEF AverageOf
    <3>3. g = [i \in seed..(n + 1) |-> g[i]]
      OBVIOUS
    <3>. HIDE DEF g
    <3>4. g = [i \in seed..(n + 1) |-> AverageOf(x, first, span, g, i)]
      BY <3>2, <3>3
    <3>5. n + 1 \in seed..last
      BY <1>1
    <3>6. \E h : IsAverage(x, first, n + 1, span, h)
      BY <3>4 DEF IsAverage
    <3>. QED
      BY <3>5, <3>6
  <2>3. \A n \in seed..last : n \in Good
    <3>. HIDE DEF Good, seed
    <3>. QED
      BY <1>1, <2>1, <2>2, IntervalInduction
  <2>. QED
    BY <1>1, <1>3, <2>3
<1>. QED
  BY <1>2, <1>3

LEMMA EmaIs ==
  ASSUME NEW x, NEW first \in Int, NEW last \in Int, NEW span \in Int
  PROVE  IsAverage(x, first, last, span, Ema(x, first, last, span))
<1>1. Ema(x, first, last, span) = CHOOSE e : IsAverage(x, first, last, span, e)
  BY DEF Ema, IsAverage, AverageOf
<1>. QED
  BY <1>1, AverageExists

\* An average of values that go on where others end is theirs, on theirs.
Agree(x, y, first, last) == \A i \in first..last : y[i] = x[i]

LEMMA EmaReads ==
  ASSUME NEW x, NEW y, NEW first \in Int, NEW n \in Int, NEW m \in Int, n <= m,
         NEW span \in Int, span > 0, Agree(x, y, first, n),
         NEW seed \in Int, seed = first + span - 1
  PROVE  Agree(Ema(x, first, n, span), Ema(y, first, m, span), seed, n)
<1>. DEFINE f == Ema(x, first, n, span)
            g == Ema(y, first, m, span)
            Good == {i \in seed..n : g[i] = f[i]}
<1>1. seed \in Int /\ seed = first + span - 1
  OBVIOUS
<1>2. ASSUME NEW i \in seed..n
      PROVE  /\ f[i] = AverageOf(x, first, span, f, i)
             /\ g[i] = AverageOf(y, first, span, g, i)
  <2>1. i \in seed..m /\ i \in seed..n
    BY <1>1
  <2>2. IsAverage(x, first, n, span, f) /\ IsAverage(y, first, m, span, g)
    BY EmaIs
  <2>. HIDE DEF f, g
  <2>. QED
    BY <1>1, <2>1, <2>2 DEF IsAverage
<1>3. seed <= n => RollingSum(y, seed, span) = RollingSum(x, seed, span)
  <2>. HAVE seed <= n
  <2>1. \A j \in Window(seed, span) : j \in first..n
    BY <1>1 DEF Window
  <2>2. \A j \in first..n : y[j] = x[j]
    BY DEF Agree
  <2>. QED
    BY <1>1, <2>1, <2>2, WindowSums
<1>. HIDE DEF f, g
<1>4. seed <= n => seed \in Good
  <2>. HAVE seed <= n
  <2>1. seed \in seed..n
    BY <1>1
  <2>. QED
    BY <1>1, <1>2, <1>3, <2>1 DEF AverageOf
<1>5. ASSUME NEW i \in seed..(n - 1), i \in Good PROVE i + 1 \in Good
  <2>1. /\ i + 1 \in seed..n /\ i + 1 # seed /\ (i + 1) - 1 = i
        /\ i + 1 \in first..n
    BY <1>1
  <2>2. g[i + 1] = f[i + 1]
    BY <1>1, <1>2, <1>5, <2>1 DEF AverageOf, Agree
  <2>. QED
    BY <2>1, <2>2
<1>6. \A i \in seed..n : i \in Good
  <2>. HIDE DEF Good
  <2>. QED
    BY <1>1, <1>4, <1>5, IntervalInduction
<1>. QED
  BY <1>6 DEF Agree, f, g

MacdTargets(p, x) ==
  [j \in 1..Len(x) |-> MacdTarget(p, Histogram(x, p.fast, p.slow, p.signal),
                                  MacdLine(x, p.fast, p.slow), j)]

\* The MACD line and the histogram, on the bars there were.
LEMMA LinesRead ==
  ASSUME NEW fast \in Nat, NEW slow \in Nat, NEW signal \in Nat,
         0 < fast, fast < slow, 0 < signal, NEW x, NEW y, Continues(x, y)
  PROVE  /\ \A i \in slow..Len(x) : MacdLine(y, fast, slow)[i] = MacdLine(x, fast, slow)[i]
         /\ \A i \in (slow + signal - 1)..Len(x) :
              Histogram(y, fast, slow, signal)[i] = Histogram(x, fast, slow, signal)[i]
<1>. DEFINE n == Len(x)
            m == Len(y)
            scaled(z) == [i \in 1..Len(z) |-> Scale * z[i]]
            lx == MacdLine(x, fast, slow)
            ly == MacdLine(y, fast, slow)
<1>1. n \in Int /\ m \in Int /\ n <= m
  BY DEF Continues
<1>7. \A i \in 1..n : scaled(y)[i] = scaled(x)[i]
  BY DEF Continues
<1>2. /\ lx = [i \in slow..n |-> Ema(scaled(x), 1, n, fast)[i] - Ema(scaled(x), 1, n, slow)[i]]
      /\ ly = [i \in slow..m |-> Ema(scaled(y), 1, m, fast)[i] - Ema(scaled(y), 1, m, slow)[i]]
  BY DEF MacdLine
<1>. HIDE DEF n, m, scaled, lx, ly
<1>3. /\ \A i \in fast..n : Ema(scaled(y), 1, m, fast)[i] = Ema(scaled(x), 1, n, fast)[i]
      /\ \A i \in slow..n : Ema(scaled(y), 1, m, slow)[i] = Ema(scaled(x), 1, n, slow)[i]
  <2>. DEFINE sx == scaled(x)
              sy == scaled(y)
  <2>1. /\ slow > 0 /\ fast \in Int /\ slow \in Int /\ 1 \in Int
        /\ fast = 1 + fast - 1 /\ slow = 1 + slow - 1
    OBVIOUS
  <2>2. Agree(sx, sy, 1, n)
    BY <1>7 DEF Agree
  <2>. HIDE DEF sx, sy
  <2>3. Agree(Ema(sx, 1, n, fast), Ema(sy, 1, m, fast), fast, n)
    BY <1>1, <2>1, <2>2, EmaReads
  <2>4. Agree(Ema(sx, 1, n, slow), Ema(sy, 1, m, slow), slow, n)
    BY <1>1, <2>1, <2>2, EmaReads
  <2>. QED
    BY <2>3, <2>4 DEF Agree, sx, sy
<1>4. \A i \in slow..n : ly[i] = lx[i]
  <2>. TAKE i \in slow..n
  <2>1. i \in fast..n /\ i \in slow..m
    BY <1>1
  <2>. QED
    BY <1>2, <1>3, <2>1
<1>5. \A i \in (slow + signal - 1)..n : Ema(ly, slow, m, signal)[i] = Ema(lx, slow, n, signal)[i]
  <2>1. slow \in Int /\ signal \in Int
    OBVIOUS
  <2>. DEFINE seed == slow + signal - 1
  <2>2. seed = slow + signal - 1
    OBVIOUS
  <2>. HIDE DEF seed
  <2>3. Agree(lx, ly, slow, n) /\ seed \in Int
    BY <1>4, <2>1, <2>2 DEF Agree
  <2>4. Agree(Ema(lx, slow, n, signal), Ema(ly, slow, m, signal), seed, n)
    BY <1>1, <2>1, <2>2, <2>3, EmaReads
  <2>. QED
    BY <2>4 DEF Agree, seed
<1>6. \A i \in (slow + signal - 1)..n :
        Histogram(y, fast, slow, signal)[i] = Histogram(x, fast, slow, signal)[i]
  <2>. TAKE i \in (slow + signal - 1)..n
  <2>1. i \in slow..n /\ i \in (slow + signal - 1)..m
    BY <1>1
  <2>2. /\ Histogram(x, fast, slow, signal)
             = [k \in (slow + signal - 1)..n |-> lx[k] - Ema(lx, slow, n, signal)[k]]
        /\ Histogram(y, fast, slow, signal)
             = [k \in (slow + signal - 1)..m |-> ly[k] - Ema(ly, slow, m, signal)[k]]
    BY DEF Histogram, lx, ly, n, m
  <2>. QED
    BY <1>4, <1>5, <2>1, <2>2
<1>. QED
  BY <1>4, <1>6 DEF n, lx, ly

LEMMA MacdPeriods ==
  ASSUME NEW p, Bounded("macd", p), Consistent("macd", p)
  PROVE  /\ p.fast \in Nat /\ p.slow \in Nat /\ p.signal \in Nat
         /\ 0 < p.fast /\ p.fast < p.slow /\ 0 < p.signal
<1>1. "macd" \in DOMAIN Specs
  BY DEF Specs
<1>2. p.fast \in 2..200 /\ p.slow \in 3..400 /\ p.signal \in 2..100
  BY <1>1, Windows
<1>3. p.fast < p.slow
  BY DEF Consistent
<1>. QED
  BY <1>2, <1>3

LEMMA MacdReads ==
  ASSUME NEW p, Bounded("macd", p), Consistent("macd", p), NEW x, NEW y, Continues(x, y)
  PROVE  \A j \in 1..Len(x) : MacdTargets(p, y)[j] = MacdTargets(p, x)[j]
<1>. DEFINE n == Len(x)
            m == Len(y)
            lx == MacdLine(x, p.fast, p.slow)
            ly == MacdLine(y, p.fast, p.slow)
            hx == Histogram(x, p.fast, p.slow, p.signal)
            hy == Histogram(y, p.fast, p.slow, p.signal)
            first == p.slow
            seed == p.slow + p.signal - 1
<1>1. n \in Nat /\ m \in Nat /\ n <= m
  BY DEF Continues
<1>2. /\ \A i \in first..n : ly[i] = lx[i]
      /\ \A i \in seed..n : hy[i] = hx[i]
  BY MacdPeriods, LinesRead
<1>3. DOMAIN hx = seed..n /\ DOMAIN hy = seed..m
  BY HistogramDomain
<1>4. seed \in Int /\ first \in Int /\ first <= seed
  BY MacdPeriods
<1>5. /\ MacdTargets(p, x) = [j \in 1..n |-> MacdTarget(p, hx, lx, j)]
      /\ MacdTargets(p, y) = [j \in 1..m |-> MacdTarget(p, hy, ly, j)]
  BY DEF MacdTargets
<1>. HIDE DEF n, m, lx, ly, hx, hy, first, seed
<1>6. ASSUME NEW j \in 1..n PROVE MacdTargets(p, y)[j] = MacdTargets(p, x)[j]
  <2>1. /\ j \in DOMAIN hy <=> j \in DOMAIN hx
        /\ j - 1 \in DOMAIN hy <=> j - 1 \in DOMAIN hx
        /\ j \in DOMAIN hx => hy[j] = hx[j] /\ ly[j] = lx[j]
        /\ j - 1 \in DOMAIN hx => hy[j - 1] = hx[j - 1]
    BY <1>1, <1>2, <1>3, <1>4
  <2>2. MacdTarget(p, hy, ly, j) = MacdTarget(p, hx, lx, j)
    BY <2>1 DEF MacdTarget
  <2>3. j \in 1..m
    BY <1>1
  <2>. QED
    BY <1>5, <2>2, <2>3
<1>. QED
  BY <1>6 DEF n

-----------------------------------------------------------------------------
LEMMA TargetsRead ==
  ASSUME NEW name \in DOMAIN Specs, NEW p, Bounded(name, p), Consistent(name, p),
         NEW x, NEW y, Continues(x, y),
         name = "bollinger" => x \in Seq(Int) /\ y \in Seq(Int),
         NEW i \in 1..Len(x)
  PROVE  TargetsOf(name, p, y)[i] = TargetsOf(name, p, x)[i]
<1>1. Len(x) \in Nat /\ Len(y) \in Nat /\ Len(x) <= Len(y)
  BY DEF Continues
<1>2. CASE name = "bollinger"
  <2>. DEFINE target == [j \in 1..Len(x) |-> BollingerTarget(p, x, j)]
              other == [j \in 1..Len(y) |-> BollingerTarget(p, y, j)]
  <2>1. \A j \in 1..Len(x) : other[j] = target[j]
    <3>1. \A j \in 1..Len(x) : BollingerTarget(p, y, j) = BollingerTarget(p, x, j)
      BY <1>2, BollingerReads, WarmUpIs
    <3>. QED
      BY <1>1, <3>1
  <2>2. /\ TargetsOf(name, p, x) = Hold(target, Len(x))
        /\ TargetsOf(name, p, y) = Hold(other, Len(y))
    BY <1>2, TargetsCases
  <2>. HIDE DEF target, other
  <2>. QED
    BY <1>1, <2>1, <2>2, HoldPrefix
<1>3. CASE name = "dual_thrust"
  <2>. DEFINE target == [j \in 1..Len(x) |-> DualThrustTarget(p, x, j)]
              other == [j \in 1..Len(y) |-> DualThrustTarget(p, y, j)]
  <2>1. \A j \in 1..Len(x) : other[j] = target[j]
    <3>. TAKE j \in 1..Len(x)
    <3>1. /\ j \in Nat /\ j \in 1..Len(y) /\ p.lookback \in Nat
          /\ y[j] = x[j] /\ \A k \in 1..(j - 1) : y[k] = x[k]
      BY <1>1, <1>3, WarmUpIs DEF Continues
    <3>2. DualThrustTarget(p, y, j) = DualThrustTarget(p, x, j)
      BY <3>1, ThrustReads
    <3>. QED
      BY <3>1, <3>2
  <2>2. /\ TargetsOf(name, p, x) = Hold(target, Len(x))
        /\ TargetsOf(name, p, y) = Hold(other, Len(y))
    BY <1>3, TargetsCases
  <2>. HIDE DEF target, other
  <2>. QED
    BY <1>1, <2>1, <2>2, HoldPrefix
<1>4. CASE name = "pair_trading"
  <2>1. PairDirections(y, Len(y))[i] = PairDirections(x, Len(x))[i]
    BY PairReads
  <2>2. /\ TargetsOf(name, p, x) = PairDirections(x, Len(x))
        /\ TargetsOf(name, p, y) = PairDirections(y, Len(y))
    BY <1>4, TargetsCases
  <2>. QED
    BY <2>1, <2>2
<1>5. CASE name = "macd"
  <2>. DEFINE target == MacdTargets(p, x)
              other == MacdTargets(p, y)
  <2>1. \A j \in 1..Len(x) : other[j] = target[j]
    BY <1>5, MacdReads
  <2>2. /\ TargetsOf(name, p, x) = Hold(target, Len(x))
        /\ TargetsOf(name, p, y) = Hold(other, Len(y))
    BY <1>5, TargetsCases DEF MacdTargets
  <2>. HIDE DEF target, other
  <2>. QED
    BY <1>1, <2>1, <2>2, HoldPrefix
<1>. QED
  BY <1>2, <1>3, <1>4, <1>5 DEF Specs

\* A longer series is not refused when a shorter one had signals.
LEMMA StillGenerated ==
  ASSUME IInv, output.directions # <<>>, NEW y, Continues(bars, y)
  PROVE  Generate(strategy, pair, y)
           = Signals(TargetsOf(strategy.name, strategy.parameters, y))
<1>. DEFINE w == WarmUp(strategy.name, strategy.parameters)
<1>1. /\ output = Generate(strategy, pair, bars) /\ Len(bars) \in Nat
      /\ ~(Len(bars) < w) /\ w \in Nat
  BY SignalsOf, WarmUpIs
<1>2. strategy.name = "pair_trading" =>
        /\ pair # "" /\ pair # Primary
        /\ ~(Cardinality(CommonBars(bars, Len(bars))) < w)
  BY <1>1, RefusalFields DEF Generate
<1>3. /\ Cardinality(CommonBars(bars, Len(bars))) \in Nat
      /\ Cardinality(CommonBars(y, Len(y))) \in Nat
      /\ Cardinality(CommonBars(bars, Len(bars))) <= Cardinality(CommonBars(y, Len(y)))
  <2>1. CommonBars(bars, Len(bars)) \subseteq CommonBars(y, Len(y))
    BY DEF CommonBars, Continues
  <2>2. IsFiniteSet(CommonBars(y, Len(y)))
    <3>1. Len(y) \in Nat /\ CommonBars(y, Len(y)) \subseteq 1..Len(y)
      BY DEF CommonBars, Continues
    <3>2. IsFiniteSet(1..Len(y))
      BY <3>1, FS_Interval
    <3>. HIDE DEF Continues
    <3>. QED
      BY <3>1, <3>2, FS_Subset
  <2>. QED
    BY <2>1, <2>2, FS_Subset, FS_CardinalityType
<1>. HIDE DEF w
<1>4. ~(Len(y) < w)
  BY <1>1 DEF Continues
<1>5. strategy.name = "pair_trading" => ~(Cardinality(CommonBars(y, Len(y))) < w)
  <2>. DEFINE few == Cardinality(CommonBars(bars, Len(bars)))
              many == Cardinality(CommonBars(y, Len(y)))
  <2>1. /\ few \in Nat /\ many \in Nat /\ few <= many
        /\ strategy.name = "pair_trading" => ~(few < w)
    BY <1>2, <1>3 DEF w
  <2>. HIDE DEF few, many
  <2>2. strategy.name = "pair_trading" => ~(many < w)
    BY <1>1, <2>1
  <2>. QED
    BY <2>2 DEF many
<1>. QED
  BY <1>2, <1>4, <1>5 DEF Generate, w

\* Signals have a direction for each bar, in the state a step leads to as well.
LEMMA SignalsTyped ==
  IInv /\ output.directions # <<>> => output.directions \in [1..Len(bars) -> Directions]
BY TargetsTyped

LEMMA NextTyped ==
  (IInv /\ output.directions # <<>> => output.directions \in [1..Len(bars) -> Directions])'
BY SignalsTyped, PTL

LEMMA TargetsDomain ==
  ASSUME NEW name \in DOMAIN Specs, NEW p, NEW x
  PROVE  DOMAIN TargetsOf(name, p, x) = 1..Len(x)
<1>1. name \in {"bollinger", "macd", "dual_thrust", "pair_trading"}
  BY DEF Specs
<1>2. /\ \A target, n : DOMAIN Hold(target, n) = 1..n
      /\ DOMAIN PairDirections(x, Len(x)) = 1..Len(x)
  BY PairDirectionsAre DEF Hold
<1>3. CASE name = "pair_trading"
  <2>1. TargetsOf(name, p, x) = PairDirections(x, Len(x))
    BY <1>3, TargetsCases
  <2>. QED
    BY <1>2, <2>1
<1>4. CASE name # "pair_trading"
  <2>1. \E target : TargetsOf(name, p, x) = Hold(target, Len(x))
    BY <1>1, <1>4, TargetsCases
  <2>. QED
    BY <1>2, <2>1
<1>. QED
  BY <1>3, <1>4

\* A step leaves the signals of the bars there were.
LEMMA SignalsStay ==
  ASSUME IInv, IInv', Next, output.directions # <<>>
  PROVE  SubSeq(output'.directions, 1, Len(bars)) = output.directions
<1>. DEFINE p == strategy.parameters
            n == Len(bars)
<1>1. /\ strategy # None /\ bars # <<>> /\ strategy.name \in DOMAIN Specs
      /\ Bounded(strategy.name, p) /\ Consistent(strategy.name, p)
      /\ n \in Nat /\ n > 0
      /\ output.directions = TargetsOf(strategy.name, p, bars)
  BY SignalsOf DEF IInv, StrategyInv, OutputInv
<1>2. Extend
  BY <1>1 DEF Next, Create, Attach
<1>3. /\ UNCHANGED <<strategy, pair>> /\ output' = Generate(strategy, pair, bars')
      /\ \E bar : bars' = Append(bars, bar)
  BY <1>2 DEF Extend
<1>4. /\ bars' \in Seq(AllBars) /\ bars \in Seq(AllBars)
      /\ Len(bars') = n + 1 /\ \A i \in 1..n : bars'[i] = bars[i]
  <2>1. bars' \in Seq(AllBars) /\ bars \in Seq(AllBars)
    BY DEF IInv, BarsInv
  <2>2. PICK bar \in NextBars : bars' = Append(bars, bar)
    BY <1>2 DEF Extend
  <2>3. bars \in Seq(AllBars \cup {bar})
    BY <2>1, SeqMonotonic
  <2>. QED
    BY <2>1, <2>2, <2>3, AppendProperties
<1>5. Continues(bars, bars')
  BY <1>1, <1>4 DEF Continues
<1>6. output'.directions = TargetsOf(strategy.name, p, bars')
  BY <1>3, <1>5, StillGenerated, SignalsFields
<1>7. strategy.name = "bollinger" => bars \in Seq(Int) /\ bars' \in Seq(Int)
  <2>. SUFFICES ASSUME strategy.name = "bollinger"
                PROVE  bars \in Seq(Int) /\ bars' \in Seq(Int)
    OBVIOUS
  <2>1. /\ \A i \in 1..Len(bars) : bars[i] \in Int
        /\ \A i \in 1..Len(bars') : bars'[i] \in Int
    BY <1>1, <1>3, ValueAssumption DEF IInv, BarsInv
  <2>2. /\ bars \in [1..Len(bars) -> AllBars] /\ bars' \in [1..Len(bars') -> AllBars]
        /\ Len(bars) \in Nat /\ Len(bars') \in Nat
    BY <1>4, LenProperties
  <2>3. bars \in [1..Len(bars) -> Int] /\ bars' \in [1..Len(bars') -> Int]
    BY <2>1, <2>2
  <2>. QED
    BY <2>2, <2>3, SeqDef
<1>8. \A i \in 1..n : output'.directions[i] = output.directions[i]
  BY <1>1, <1>5, <1>6, <1>7, TargetsRead
<1>9. output.directions \in Seq(Directions) /\ Len(output.directions) = n
  <2>1. output.directions \in [1..n -> Directions]
    BY TargetsTyped
  <2>2. output.directions \in Seq(Directions) /\ DOMAIN output.directions = 1..n
    BY <1>1, <2>1, SeqDef
  <2>. QED
    BY <1>1, <2>2, LenProperties
<1>10. output'.directions \in Seq(Directions) /\ Len(output'.directions) = n + 1
  <2>1. output'.directions # <<>> => output'.directions \in [1..Len(bars') -> Directions]
    BY NextTyped
  <2>2. output'.directions # <<>>
    <3>1. DOMAIN output'.directions = 1..(n + 1)
      BY <1>1, <1>4, <1>6, TargetsDomain
    <3>2. 1 \in 1..(n + 1) /\ DOMAIN <<>> = {}
      BY <1>1
    <3>. QED
      BY <3>1, <3>2
  <2>3. n + 1 \in Nat /\ output'.directions \in [1..(n + 1) -> Directions]
    BY <1>1, <1>4, <2>1, <2>2
  <2>4. output'.directions \in Seq(Directions) /\ DOMAIN output'.directions = 1..(n + 1)
    BY <2>3, SeqDef
  <2>. QED
    BY <2>3, <2>4, LenProperties
<1>. QED
  BY <1>1, <1>8, <1>9, <1>10, SubSeqProperties, SeqEqual

\* No look-ahead, whatever the family: a bar that is added changes no signal of
\* the bars before it, those of the recursive averages of macd included.
THEOREM PastSignalsStand == Spec => NoLookAhead
<1>1. /\ IInv /\ [Next]_vars =>
        [output.directions # <<>>
           => SubSeq(output'.directions, 1, Len(bars)) = output.directions]_vars
  BY StepIInv, SignalsStay
<1>. QED
  BY <1>1, Invariance, PTL DEF Spec, NoLookAhead
=============================================================================
