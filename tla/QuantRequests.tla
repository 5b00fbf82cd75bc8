----------------------------- MODULE QuantRequests -----------------------------
(***************************************************************************)
(* One request to the quant service (services/quant/webapi/routes.py) that *)
(* is answered from downloaded prices: the bars of an instrument, a        *)
(* comparison of strategies, the risk report of a portfolio, or a          *)
(* reweighting of one.                                                     *)
(*                                                                         *)
(* A request downloads one symbol at a time, and what the provider sends   *)
(* may be anything, another thing each time it is asked, or nothing.  The  *)
(* service keeps nothing between requests.                                 *)
(*                                                                         *)
(* A strategy comes out of the engine with any curve of Simulate; what the *)
(* strategies and the engine do is the subject of Strategies and           *)
(* BacktestEngine.                                                         *)
(***************************************************************************)
EXTENDS Comparison, PortfolioRisk, SequencesExt

CONSTANTS
  Requests,     \* what callers ask for
  Downloads,    \* the frames the provider may send for each symbol
  Simulate(_),  \* [equity, trades, costs] an engine run over so many bars may give
  NoRequest,
  Pending,      \* the answer of a request in progress,
  Complete      \* and of one that came to its end, with what it gathered

Codes == {"invalid_request", "data_validation_failed", "data_unavailable"}

Operations == {"prices", "compare", "risk", "scenario"}

\* Every instrument has a name, and the provider answers for each of them.
ASSUME RequestAssumption ==
  /\ "" \notin Universe
  /\ Universe \subseteq DOMAIN Downloads
  /\ NoRequest \notin Requests
  /\ Pending # Complete /\ {Pending, Complete} \cap Codes = {}

\* A frame has typed rows, whatever is in them.
ASSUME FrameAssumption ==
  /\ IsFiniteSet(Universe)
  /\ \A symbol \in Universe : \A raw \in Downloads[symbol] : raw.rows \in Rows

\* What the routes parse of a request.  No strategy declares a warm-up below two
\* bars, the least its parameters allow.
ASSUME ParsedAssumption ==
  \A asked \in Requests :
    /\ asked.op \in Operations
    /\ asked.query.from \in Int /\ asked.query.to \in Int
    /\ asked.op = "compare" =>
         /\ asked.specs \in Seq([strategy: STRING, parameters: STRING, label: STRING,
                                creates: STRING, leg: STRING, warmup: Nat \ {0, 1}])
         /\ asked.riskFree \in Int
    /\ asked.op \in {"risk", "scenario"} =>
         /\ asked.holdings \in Seq([symbol: STRING, quantity: Field])
         /\ asked.riskFree \in Int
    /\ asked.op = "scenario" =>
         \A symbol \in DOMAIN asked.overrides : asked.overrides[symbol] \in Field

\* Of strings, numbering gives another one for every label and every number, and
\* None is no label.
ASSUME NumberingAssumption ==
  \A asked \in Requests : asked.op = "compare" =>
    \A i, j \in DOMAIN asked.specs, m, n \in 2..Len(asked.specs) :
      LET base  == DisplayLabel(asked.specs[i])
          other == DisplayLabel(asked.specs[j])
      IN /\ None \notin {base, Numbered(base, m)}
         /\ Numbered(base, m) = Numbered(other, n) => base = other /\ m = n

\* A run over two bars or more ends in whole amounts that are whole parts of the
\* initial capital, and the equity is positive until its last bar, where a return
\* could not be formed otherwise (see Metrics for both).
ASSUME OutcomeAssumption ==
  \A symbol \in Universe : \A raw \in Downloads[symbol] : \A n \in 2..Len(raw.rows) :
    \A outcome \in Simulate(n) :
      /\ outcome.equity \in Seq(Int)
      /\ \A i \in DOMAIN outcome.equity :
           i = 1 \/ i < Len(outcome.equity) => outcome.equity[i] > 0
      /\ outcome.trades \in Seq(Int)
      /\ outcome.costs \in Int
      /\ \A amount \in {outcome.costs} \cup {outcome.equity[i] : i \in DOMAIN outcome.equity} :
           (amount * One) % InitialCash = 0

VARIABLES
  request,
  frames,    \* the series kept for the request, by symbol
  leg,       \* the second leg attached to the strategy that is to run next
  attempts,  \* the strategies of a comparison that ran or failed, in order
  answer     \* the code of the error that ended the request, or one of the above

vars == <<request, frames, leg, attempts, answer>>

-----------------------------------------------------------------------------
(* Answers. *)

\* Faulty variant: an error reaches the caller under the name it has inside.
CodeUnmapped(error) == error

\* _service_error: a provider outage is retried, refused data is not, and
\* everything else is the caller's to correct.
Code(error) ==
  CASE error = "DataValidationError" -> "data_validation_failed"
    [] error = "ProviderError" -> "data_unavailable"
    [] OTHER -> "invalid_request"

Portfolios == {"risk", "scenario"}

\* What is refused before anything is downloaded.
Refusal(asked) ==
  CASE asked.op = "prices" -> ""
    [] asked.op = "compare" ->
         IF Len(asked.specs) < 2 \/ (\E i \in DOMAIN asked.specs : asked.specs[i].strategy = "")
         THEN "InvalidRequest" ELSE ""
    [] asked.op = "risk" -> PortfolioError(asked.holdings, asked.benchmark)
    [] asked.op = "scenario" ->
         LET error == PortfolioError(asked.holdings, asked.benchmark)
         IN IF error # "" THEN error ELSE OverridesError(asked.overrides)

\* The symbols whose history the analysis is over, holdings first.
Analysed(asked) ==
  LET held == [i \in DOMAIN asked.holdings |-> asked.holdings[i].symbol]
  IN IF asked.op = "risk" THEN held
     ELSE held \o SetToSeq(DOMAIN asked.overrides \ SymbolsOf(asked.holdings))

\* What is downloaded whatever the downloads turn out to be.
Wanted(asked) ==
  IF asked.op \in Portfolios THEN Append(Analysed(asked), asked.benchmark)
  ELSE <<asked.symbol>>

Missing == {i \in DOMAIN Wanted(request) : Wanted(request)[i] \notin DOMAIN frames}

-----------------------------------------------------------------------------
(* A comparison runs its strategies in order, over the one series. *)

Spec_ == request.specs[Len(attempts) + 1]

Bars == frames[request.symbol]

NoLeg == NoSeries("")

Running ==
  /\ request # NoRequest /\ answer = Pending
  /\ request.op = "compare"
  /\ Missing = {}
  /\ Len(attempts) < Len(request.specs)

\* The strategy is created and its second leg is still to be attached.
LegWanted ==
  /\ Running
  /\ Spec_.creates = ""
  /\ Spec_.leg \notin {"", request.symbol}
  /\ leg = NoLeg

\* Faulty variant: every strategy downloads its own second leg.
CachedNever(symbol) == FALSE

Cached(symbol) == symbol \in DOMAIN frames

\* Bars the strategy can use: for a pair, those of both legs.
Usable ==
  IF leg = NoLeg THEN DaysOf(Bars) ELSE DaysOf(Bars) \cap DaysOf(leg)

\* What keeps the strategy from running.
SpecError ==
  IF Spec_.creates # "" THEN Spec_.creates
  ELSE IF Spec_.leg = request.symbol THEN "InvalidRequest"
  ELSE IF Cardinality(Usable) < Spec_.warmup THEN "InsufficientData"
  ELSE ""

Attempt(error) ==
  [label |-> Label(request.specs, Len(attempts) + 1), error |-> error]

\* Faulty variant: a failure starts the comparison over.
RecordedOnceMore(attempt) == IF attempt.error = "" THEN Append(attempts, attempt) ELSE <<>>

\* The failure of a strategy is reported with the results of the others.
Recorded(attempt) == Append(attempts, attempt)

RunOf(outcome) ==
  [label   |-> Attempt("").label,
   error   |-> "",
   bars    |-> DataVersion(Bars),
   leg     |-> DataVersion(leg),
   outcome |-> outcome]

Runs == Chosen(attempts, {i \in DOMAIN attempts : attempts[i].error = ""})

Failures == Chosen(attempts, {i \in DOMAIN attempts : attempts[i].error # ""})

Entry(run) ==
  [label   |-> run.label,
   metrics |-> Compute(run.outcome.equity, run.outcome.trades, InitialCash,
                       run.outcome.costs, request.riskFree)]

NoResponse == [error |-> Code("InvalidRequest")]

CompareResponse ==
  LET entries == [i \in DOMAIN Runs |-> Entry(Runs[i])]
  IN IF Runs = <<>> THEN NoResponse
     ELSE [error        |-> "",
           data_version |-> DataVersion(Bars),
           entries      |-> entries,
           failures     |-> Failures,
           table        |-> MetricTable(entries),
           benchmark    |-> BuyAndHold(Bars.bars)]

-----------------------------------------------------------------------------
(* A portfolio is analysed over one window. *)

Window == LoadWindow(frames, Analysed(request), request.benchmark)

Report(weights) == Analyze(weights, Window, request.riskFree)

RiskResponse ==
  IF Window.error # "" THEN NoResponse
  ELSE [error |-> "", report |-> Report(MarketValues(request.holdings, Window))]

\* run_scenario, over the window of both the holdings and what is added.
ScenarioResponse ==
  LET base   == MarketValues(request.holdings, Window)
      usable == [symbol \in DOMAIN request.overrides \cap Window.kept |->
                   request.overrides[symbol]]
      target == Positive(Combined(base, usable))
      before == Report(base)
      after  == Report(target)
  IN IF Window.error # "" THEN NoResponse
     ELSE IF DOMAIN base = {} \/ OverridesError(usable) # "" \/ DOMAIN target = {}
     THEN NoResponse
     ELSE [error   |-> "",
           before  |-> before,
           after   |-> after,
           changes |-> Changes(base, target),
           deltas  |-> Deltas(before, after),
           ignored |-> DOMAIN request.overrides \ Window.kept]

-----------------------------------------------------------------------------
Init ==
  /\ request = NoRequest
  /\ frames = <<>>
  /\ leg = NoLeg
  /\ attempts = <<>>
  /\ answer = Pending

\* A caller asks; a request that makes no sense is answered at once.
Ask ==
  /\ request = NoRequest
  /\ request' \in Requests
  /\ answer' = IF Refusal(request') = "" THEN Pending ELSE Code(Refusal(request'))
  /\ UNCHANGED <<frames, leg, attempts>>

Queries == {asked.query : asked \in Requests}

\* What the downloads of a symbol of the universe may end in.
Loads ==
  [query \in Queries |-> [symbol \in DOMAIN Downloads |->
     {GetPrices(symbol, query, raw) : raw \in Downloads[symbol]}]]

\* The outcomes of get_prices for a symbol.
Loaded(symbol) ==
  LET refusal == RequestError(symbol, request.query)
  IN IF refusal # "" THEN {NoSeries(refusal)}
     ELSE Loads[request.query][symbol] \cup {NoSeries("ProviderError")}

\* What is kept, with one series more.
Keeping(symbol, series) ==
  [kept \in DOMAIN frames \cup {symbol} |-> IF kept = symbol THEN series ELSE frames[kept]]

\* The next symbol the request cannot do without is downloaded.
Download ==
  /\ request # NoRequest /\ answer = Pending
  /\ \E first \in Missing :
       /\ \A i \in Missing : first <= i
       /\ LET symbol == Wanted(request)[first]
          IN \E series \in Loaded(symbol) :
               \/ /\ series.error = ""
                  /\ frames' = Keeping(symbol, series)
                  /\ UNCHANGED answer
               \/ /\ series.error # ""
                  /\ answer' = Code(series.error)
                  /\ UNCHANGED frames
  /\ UNCHANGED <<request, leg, attempts>>

\* resolve_auxiliary_series: the second leg of a strategy.  One that cannot be
\* downloaded fails the strategy, and is asked for again by the next.
AttachLeg ==
  /\ LegWanted
  /\ \/ /\ Cached(Spec_.leg)
        /\ leg' = frames[Spec_.leg]
        /\ UNCHANGED <<frames, attempts>>
     \/ /\ ~Cached(Spec_.leg)
        /\ \E series \in Loaded(Spec_.leg) :
             \/ /\ series.error = ""
                /\ frames' = Keeping(Spec_.leg, series)
                /\ leg' = series
                /\ UNCHANGED attempts
             \/ /\ series.error # ""
                /\ attempts' = Recorded(Attempt(series.error))
                /\ UNCHANGED <<frames, leg>>
  /\ UNCHANGED <<request, answer>>

\* run_backtest_for_symbol, once the strategy has all it needs.
RunStrategy ==
  /\ Running /\ ~LegWanted
  /\ \/ /\ SpecError # ""
        /\ attempts' = Recorded(Attempt(SpecError))
     \/ /\ SpecError = ""
        /\ \E outcome \in Simulate(Len(Bars.bars)) : attempts' = Recorded(RunOf(outcome))
  /\ leg' = NoLeg
  /\ UNCHANGED <<request, frames, answer>>

\* Everything is there, and the request is answered.
Finish ==
  /\ request # NoRequest /\ answer = Pending
  /\ Missing = {} /\ ~Running
  /\ answer' = Complete
  /\ UNCHANGED <<request, frames, leg, attempts>>

\* The answer is sent, and nothing of the request is kept.
Send ==
  /\ answer # Pending
  /\ request' = NoRequest /\ frames' = <<>> /\ leg' = NoLeg
  /\ attempts' = <<>> /\ answer' = Pending

Work == Download \/ AttachLeg \/ RunStrategy \/ Finish

Next == Ask \/ Work \/ Send

\* A handler runs to its end once it is called, and every download ends, by an
\* answer of the provider or by its own timeout.
Spec == Init /\ [][Next]_vars /\ WF_vars(Work)

-----------------------------------------------------------------------------
(* Properties. *)

TypeOK ==
  /\ request \in Requests \cup {NoRequest}
  /\ DOMAIN frames \subseteq Universe
  /\ leg = NoLeg \/ \E symbol \in DOMAIN frames : leg = frames[symbol]
  /\ attempts # <<>> => request.op = "compare" /\ Len(attempts) <= Len(request.specs)
  /\ answer \in Codes \cup {Pending, Complete}

\* What a request that came to its end was answered, unless it was an error.
Answers(op, response) ==
  IF answer = Complete /\ request.op = op THEN {r \in {response} : r.error = ""} ELSE {}

Compared == Answers("compare", CompareResponse)
Assessed == Answers("risk", RiskResponse)
Reweighed == Answers("scenario", ScenarioResponse)

\* A series that was accepted is the sessions of one download that fall in the
\* requested range, both its ends included, each once and in order, at the closes
\* the provider adjusted, and with prices that a trade could have had:
\* normalize_frame sorts, get_prices trims and rescales, validate_prices refuses,
\* and only together do they keep a bar out of order or a split from looking like
\* a crash.
SoundSeries ==
  \A symbol \in DOMAIN frames :
    LET bars == frames[symbol].bars
    IN /\ \A i \in 1..(Len(bars) - 1) : bars[i].day < bars[i + 1].day
       /\ \A i \in DOMAIN bars :
            /\ 0 < bars[i].low /\ 0 <= bars[i].volume
            /\ bars[i].low <= bars[i].open /\ bars[i].open <= bars[i].high
            /\ bars[i].low <= bars[i].close /\ bars[i].close <= bars[i].high
       /\ \E raw \in Downloads[symbol] :
            LET close(i) == IF "adj" \in raw.columns THEN raw.rows[i].adj ELSE raw.rows[i].close
                sent == {<<raw.rows[i].day, close(i)>> : i \in DOMAIN raw.rows}
            IN {<<bars[i].day, bars[i].close>> : i \in DOMAIN bars}
                 = {quote \in sent : quote[1] \in request.query.from..request.query.to}

\* The strategies of a comparison run on the same bars, of the instrument and of
\* a second leg they share, even though the provider answers differently each
\* time and a download between two of them may fail ("every compared strategy
\* runs on byte-identical data"); the version reported is that of those bars.
SameBars ==
  LET ran == {i \in DOMAIN attempts : attempts[i].error = ""}
  IN /\ \A i, j \in ran :
          /\ attempts[i].bars = attempts[j].bars
          /\ attempts[i].leg[1] = attempts[j].leg[1] => attempts[i].leg = attempts[j].leg
     /\ \A response \in Compared, i \in ran : attempts[i].bars = response.data_version

\* "Labels that are guaranteed distinct. Labels key every map in the response. A
\* duplicate would silently overwrite a column and the user would see one fewer
\* strategy than they asked for" (_unique_labels).
LabelsDistinct ==
  \A response \in Compared :
    LET rows == response.entries \o response.failures
    IN \A k, l \in DOMAIN rows : rows[k].label = rows[l].label => k = l

\* A label that the caller gave is one that numbering makes of another.
Imitated(specs) ==
  \E i, j \in DOMAIN specs, n \in 2..Len(specs) :
    DisplayLabel(specs[i]) = Numbered(DisplayLabel(specs[j]), n)

\* Every strategy that was asked for is in the answer once, as a run or as a
\* failure, under its label; and the labels, which key the curves of the response,
\* are all different unless the caller imitated the numbering.
EntriesAccounted ==
  \A response \in Compared :
    LET rows == response.entries \o response.failures
    IN /\ Len(rows) = Len(request.specs)
       /\ \A i \in DOMAIN request.specs :
            \E k \in DOMAIN rows : rows[k].label = Label(request.specs, i)
       /\ \/ Imitated(request.specs)
          \/ \A k, l \in DOMAIN rows : rows[k].label = rows[l].label => k = l

\* What a recorded reason claims of a run, or of the returns of a portfolio.
TrueOf(reason, growth, trades) ==
  /\ reason = "too few returns" => Len(growth) < 2
  /\ reason = "no variance" => Len(growth) >= 2 /\ ~HasVariance(growth)
  /\ reason = "no downside" =>
       Len(growth) >= 2 /\ \A i \in DOMAIN growth : growth[i] >= One + request.riskFree
  /\ reason = "no trades" => trades = <<>>
  /\ reason = "no losing trades" => \A i \in DOMAIN trades : trades[i] >= 0
  /\ reason = "no winning trades" => \A i \in DOMAIN trades : trades[i] <= 0

\* A metric without a value has a reason, a metric with one has none, and the
\* reason is true of the run it stands beside: a ratio of a period too short to
\* measure is not said to lack variance, nor the other way round.
UnavailableExplained ==
  \A response \in Compared :
    \A i \in DOMAIN Runs :
      LET entry == response.entries[i]
      IN \A metric \in DOMAIN entry.metrics.values :
           /\ metric \in DOMAIN entry.metrics.unavailable
                <=> entry.metrics.values[metric] = None
           /\ metric \in DOMAIN entry.metrics.unavailable =>
                TrueOf(entry.metrics.unavailable[metric],
                       Growth(Runs[i].outcome.equity), Runs[i].outcome.trades)

\* The run marked best is one no other beats: nobody ends with more equity than
\* the best by final equity, which is also the best by return, or paid less than
\* the best by cost, or fell less far than the best by drawdown.  A strategy that
\* has no value of a metric neither wins nor lets another win alone.  A label is all
\* that marks a run, so this is for labels that do not imitate the numbering.
BestIsBest ==
  \A response \in Compared : Imitated(request.specs) \/
    LET best(metric) == response.table[metric]
        of(metric, i) == response.entries[i].metrics.values[metric]
        marked(metric) ==
          CHOOSE i \in DOMAIN response.entries : response.entries[i].label = best(metric)
        rivals(metric) == {i \in DOMAIN response.entries : of(metric, i) # None}
    IN /\ best("final_equity") = best("total_return")
       /\ best("total_costs") = best("cost_drag")
       /\ \A metric \in {"final_equity", "total_costs", "max_drawdown", "win_rate"} :
            best(metric) = None <=> Cardinality(rivals(metric)) < 2
       /\ \A metric \in {"final_equity", "max_drawdown", "win_rate"} : best(metric) # None =>
            \A i \in rivals(metric) : of(metric, i) <= of(metric, marked(metric))
       /\ best("total_costs") # None =>
            \A i \in DOMAIN response.entries :
              of("total_costs", i) >= of("total_costs", marked("total_costs"))

\* A report leaves nothing out unsaid.  Every holding is either weighed or named
\* as dropped; one that is weighed traded on nearly every session on which any
\* holding did, and on all of those that were measured; and the sectors add up to
\* the whole, what has no sector included.
Reported(report, symbols) ==
  LET sessions == UNION {DaysOf(frames[symbol]) : symbol \in symbols}
      common   == {day \in sessions :
                     \A symbol \in symbols \ DOMAIN report.dropped :
                       day \in DaysOf(frames[symbol])}
  IN /\ DOMAIN report.weights \cap DOMAIN report.dropped = {}
     /\ report.observations >= MinObservations
     /\ Cardinality(common) = report.observations + 1
     /\ \A symbol \in DOMAIN report.weights :
          10 * Cardinality(DaysOf(frames[symbol])) >= CoverageTenths * Cardinality(sessions)
     /\ MapThenSumSet(LAMBDA sector : report.sectors[sector], DOMAIN report.sectors)
          = Whole(report.weights)

KeptIsReported ==
  /\ \A response \in Assessed :
       /\ Reported(response.report, SymbolsOf(request.holdings))
       /\ SymbolsOf(request.holdings)
            = DOMAIN response.report.weights \cup DOMAIN response.report.dropped
  /\ \A response \in Reweighed :
       LET symbols == SymbolsOf(request.holdings) \cup DOMAIN request.overrides
       IN /\ Reported(response.before, symbols)
          /\ Reported(response.after, symbols)
          /\ symbols \cap DOMAIN response.before.dropped = DOMAIN response.after.dropped
          /\ response.ignored = DOMAIN request.overrides \cap DOMAIN response.before.dropped
          /\ SymbolsOf(request.holdings)
               \subseteq DOMAIN response.before.weights \cup DOMAIN response.before.dropped

\* A scenario moves only what it was told to move: what is not overridden keeps
\* its size relative to the other such holdings, and an override its size relative
\* to them, as the one normalisation of the combined weights gives; a weight of
\* zero is a removal, and a metric that one side does not have has no change.
ScenarioProportional ==
  \A response \in Reweighed :
    LET before == response.before.weights
        after  == response.after.weights
        moved  == DOMAIN request.overrides \ response.ignored
        stays  == DOMAIN before \ moved
    IN /\ DOMAIN after = stays \cup {symbol \in moved : request.overrides[symbol] > 0}
       /\ \A x, y \in stays : after[x] * before[y] = after[y] * before[x]
       /\ \A x \in moved, y \in stays : request.overrides[x] > 0 =>
            10 * after[x] * before[y] = request.overrides[x] * Whole(before) * after[y]
       /\ \A x \in DOMAIN response.changes :
            /\ response.changes[x] = "added" <=> x \in moved \ DOMAIN before
            /\ response.changes[x] = "removed" <=> x \in DOMAIN before \ DOMAIN after
       /\ \A metric \in DOMAIN response.deltas : response.deltas[metric] = None <=>
            metric \in DOMAIN response.before.unavailable \cup DOMAIN response.after.unavailable

\* A request is always answered: whatever fails on the way, a comparison moves on
\* to its next strategy and a portfolio to its next symbol.
RequestsEnd == (request # NoRequest /\ answer = Pending) ~> (answer # Pending)
=============================================================================
