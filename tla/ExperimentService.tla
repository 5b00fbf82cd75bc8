--------------------------- MODULE ExperimentService ---------------------------
(***************************************************************************)
(* Backtests and experiments behind the API: running a backtest, saving it *)
(* as an experiment (by promoting a backtest of this session or by running *)
(* one inline), rerunning an experiment and deleting it                    *)
(* (apps/api/internal/experiment/service.go, with the repository of        *)
(* storage/postgres/experiments.go).                                       *)
(*                                                                         *)
(* It composes the session's backtest store and the quant engine with the  *)
(* experiments table.  A request is one HTTP call; what it creates has its *)
(* identity.  Between the calls a request makes, other requests run, the   *)
(* provider revises history, a build is deployed or the API restarts.      *)
(***************************************************************************)
EXTENDS Naturals, FiniteSets, SequencesExt

CONSTANTS
  Requests, Capacity, MaxRestarts, NoResult,
  Strategies, Allowed, Unset, Default(_), Code(_), Metrics(_, _, _, _), NoConfig,
  Zero,    \* the zero of a Go type: no number, no text, no object
  Asked,   \* the settings the API asks for, a cost model or a rate perhaps Zero
  MaxRevision, MaxBuild

VARIABLES
  stage, answer, records, order, restarts,   \* the backtest store
  build, bars, job,                                          \* the quant engine
  table,   \* the experiments table: the saved results by ID
  call     \* where each request stands

storeVars == <<stage, answer, records, order, restarts>>
engineVars == <<build, bars, job>>
vars == <<storeVars, engineVars, table, call>>

Engine == INSTANCE QuantEngine WITH Callers <- Requests

ASSUME ServiceAssumption ==
  /\ Capacity \in Nat \ {0} /\ MaxRestarts \in Nat
  /\ Strategies \subseteq {"single", "pair"}
  /\ MaxRevision \in Nat /\ MaxBuild \in Nat

\* A run has capital, costs and an execution model: of what is not sent when it
\* is Zero, only the rate of a run may be.
ASSUME SettingsAssumption ==
  /\ {Zero, Unset} \cap (Allowed.initial_cash \cup Allowed.cost_model
                           \cup Allowed.execution_model) = {}
  /\ Unset \notin Allowed.allow_short \cup Allowed.liquidate_at_end
  /\ Unset \notin Allowed.risk_free_rate
  /\ \A b \in 0..MaxBuild : Default(b) \in Engine!Settings({})
  /\ Asked \subseteq
       [initial_cash:     Allowed.initial_cash,
        cost_model:       Allowed.cost_model \cup {Zero},
        execution_model:  Allowed.execution_model,
        allow_short:      Allowed.allow_short,
        liquidate_at_end: Allowed.liquidate_at_end,
        risk_free_rate:   Allowed.risk_free_rate \cup {Zero}]

ASSUME ResultAssumption == NoResult \notin Engine!Results

Store == INSTANCE BacktestStore
  WITH Ids <- Requests, Payloads <- Engine!Results, NoPayload <- NoResult

Open == {"new", "run", "inline", "insert", "rerun"}
Closed == {"ran", "saved", "reran", "deleted", "error", "lost"}

\* held is the result to insert or the experiment being rerun, got the result a
\* run or a rerun was answered with, of the backtest a save promotes or the
\* experiment a rerun or a delete is about.
Calls ==
  [step: Open \cup Closed, of: Requests,
   held: Engine!Results \cup {NoResult}, got: Engine!Results \cup {NoResult}]

TypeOK ==
  /\ Store!TypeOK
  /\ Engine!TypeOK
  /\ DOMAIN table \subseteq Requests
  /\ \A e \in DOMAIN table : table[e] \in Engine!Results
  /\ call \in [Requests -> Calls]

\* A request that holds nothing: one that has not started, or failed.
Bare(r, step) == [step |-> step, of |-> r, held |-> NoResult, got |-> NoResult]

Init ==
  /\ Store!Init
  /\ Engine!Init
  /\ table = <<>>
  /\ call = [r \in Requests |-> Bare(r, "new")]

Goes(r, from, to) ==
  /\ call[r].step = from
  /\ call' = [call EXCEPT ![r].step = to]

-----------------------------------------------------------------------------
(* What the client sends of a configuration. *)

Wanted == [strategy: Strategies, settings: Asked]

OmitEmpty(value) == IF value = Zero THEN Unset ELSE value

\* The JSON of quant.BacktestRequest: a field tagged omitempty is not in it when
\* its value is the zero of its type.
Encoded(config) ==
  LET wanted == config.settings
  IN [config EXCEPT !.settings =
        [initial_cash     |-> OmitEmpty(wanted.initial_cash),
         cost_model       |-> OmitEmpty(wanted.cost_model),
         execution_model  |-> OmitEmpty(wanted.execution_model),
         allow_short      |-> wanted.allow_short,
         liquidate_at_end |-> wanted.liquidate_at_end,
         risk_free_rate   |-> OmitEmpty(wanted.risk_free_rate)]]

-----------------------------------------------------------------------------
(* POST /api/backtests. *)

RunAsks(r, config) ==
  /\ Goes(r, "new", "run")
  /\ Store!StartRun(r)
  /\ Engine!Ask(r, Encoded(config))
  /\ UNCHANGED table

RunAnswered(r) ==
  /\ call[r].step = "run"
  /\ Engine!Complete(r)
  /\ Store!AnswerRun(r, Engine!Answer(r))
  /\ UNCHANGED <<table, call>>

\* The record is stored, and the response shows its result.
RunStored(r) ==
  /\ call[r].step = "run"
  /\ call' = [call EXCEPT ![r].step = "ran", ![r].got = answer[r]]
  /\ Store!StoreRun(r)
  /\ UNCHANGED <<engineVars, table>>

RunFails(r) ==
  /\ Goes(r, "run", "error")
  /\ Store!FailRun(r)
  /\ Engine!Fail(r)
  /\ UNCHANGED table

-----------------------------------------------------------------------------
(* POST /api/experiments. *)

\* Faulty variant: the stored record is saved in place of its result.
PromoteRecord(r, id) ==
  /\ call[r].step = "new"
  /\ call' = [call EXCEPT ![r] =
                IF id \in DOMAIN records
                THEN [@ EXCEPT !.step = "insert", !.of = id, !.held = records[id]]
                ELSE [@ EXCEPT !.step = "error"]]
  /\ UNCHANGED <<storeVars, engineVars, table>>

\* The backtest is found in the session's store, or it is no longer there.
Promote(r, id) ==
  /\ call[r].step = "new"
  /\ call' = [call EXCEPT ![r] =
                IF id \in DOMAIN records
                THEN [@ EXCEPT !.step = "insert", !.of = id,
                                     !.held = records[id].result]
                ELSE [@ EXCEPT !.step = "error"]]
  /\ UNCHANGED <<storeVars, engineVars, table>>

InlineAsks(r, config) ==
  /\ Goes(r, "new", "inline")
  /\ Engine!Ask(r, Encoded(config))
  /\ UNCHANGED <<storeVars, table>>

InlineAnswered(r) ==
  /\ call[r].step = "inline"
  /\ Engine!Complete(r)
  /\ call' = [call EXCEPT ![r].step = "insert", ![r].held = Engine!Answer(r)]
  /\ UNCHANGED <<storeVars, table>>

WithRow(e, result) ==
  [x \in DOMAIN table \cup {e} |-> IF x = e THEN result ELSE table[x]]

\* Faulty variant: the error of the insert is dropped.
InsertErrorDropped(r) ==
  /\ Goes(r, "insert", "saved")
  /\ \/ table' = WithRow(r, call[r].held)
     \/ UNCHANGED table
  /\ UNCHANGED <<storeVars, engineVars>>

Insert(r) ==
  /\ Goes(r, "insert", "saved")
  /\ table' = WithRow(r, call[r].held)
  /\ UNCHANGED <<storeVars, engineVars>>

\* The database refuses the row, or it commits and the connection breaks before
\* the API hears of it.
InsertErrs(r) ==
  /\ call[r].step = "insert"
  /\ call' = [call EXCEPT ![r] = Bare(r, "error")]
  /\ \/ table' = WithRow(r, call[r].held)
     \/ UNCHANGED table
  /\ UNCHANGED <<storeVars, engineVars>>

-----------------------------------------------------------------------------
(* POST /api/experiments/{id}/rerun. *)

\* Faulty variant: the stored cost model is not applied.
ReplayedWithoutCosts(saved) == [saved.config EXCEPT !.settings.cost_model = Zero]

\* Faulty variant: a run is closed out whatever the stored setting says.
ReplayedClosingOut(saved) == [saved.config EXCEPT !.settings.liquidate_at_end = TRUE]

\* applyStoredConfig: the settings the saved result reports.  One it does not
\* report is left at its zero, but for the close-out.
Replayed(saved) ==
  LET stored == saved.config.settings
      or(field, otherwise) == IF field \in DOMAIN stored THEN stored[field] ELSE otherwise
  IN [strategy |-> saved.config.strategy,
      settings |-> [initial_cash     |-> or("initial_cash", Zero),
                    cost_model       |-> or("cost_model", Zero),
                    execution_model  |-> or("execution_model", Zero),
                    allow_short      |-> or("allow_short", FALSE),
                    liquidate_at_end |-> or("liquidate_at_end", TRUE),
                    risk_free_rate   |-> or("risk_free_rate", Zero)]]

RerunAsks(r, e) ==
  /\ call[r].step = "new"
  /\ e \in DOMAIN table
  /\ call' = [call EXCEPT ![r] = [@ EXCEPT !.step = "rerun", !.of = e, !.held = table[e]]]
  /\ Engine!Ask(r, Encoded(Replayed(table[e])))
  /\ UNCHANGED <<storeVars, table>>

RerunAnswered(r) ==
  /\ call[r].step = "rerun"
  /\ Engine!Complete(r)
  /\ call' = [call EXCEPT ![r].step = "reran", ![r].got = Engine!Answer(r)]
  /\ UNCHANGED <<storeVars, table>>

\* compareRuns: the two verdicts a rerun reports about a saved result.
DataVersionMatches(saved, rerun) == saved.data_version = rerun.data_version
MetricsMatch(saved, rerun) == saved.metrics = rerun.metrics

-----------------------------------------------------------------------------
(* DELETE /api/experiments/{id}, and any request for an unknown experiment. *)

Delete(r, e) ==
  /\ call[r].step = "new"
  /\ e \in DOMAIN table
  /\ call' = [call EXCEPT ![r] = [@ EXCEPT !.step = "deleted", !.of = e]]
  /\ table' = [x \in DOMAIN table \ {e} |-> table[x]]
  /\ UNCHANGED <<storeVars, engineVars>>

NotFound(r, e) ==
  /\ Goes(r, "new", "error")
  /\ e \notin DOMAIN table
  /\ UNCHANGED <<storeVars, engineVars, table>>

-----------------------------------------------------------------------------
\* An inline run or a rerun gets an error from the engine's client.
EngineErrs(r) ==
  /\ call[r].step \in {"inline", "rerun"}
  /\ call' = [call EXCEPT ![r] = Bare(r, "error")]
  /\ Engine!Fail(r)
  /\ UNCHANGED <<storeVars, table>>

EngineWorks(r) ==
  /\ Engine!FetchPrimary(r) \/ Engine!FetchSecond(r)
  /\ UNCHANGED <<storeVars, table, call>>

HistoryRevised(leg) ==
  /\ Engine!Revise(leg)
  /\ UNCHANGED <<storeVars, table, call>>

BuildDeployed ==
  /\ Engine!Deploy
  /\ UNCHANGED <<storeVars, table, call>>

\* The API process restarts: its requests are cut off and the session's store is
\* empty; the table is in the database.
ApiRestarts ==
  /\ Store!Restart
  /\ call' = [r \in Requests |->
                IF call[r].step \in Open \ {"new"}
                THEN Bare(r, "lost") ELSE call[r]]
  /\ job' = [r \in Requests |-> Engine!Idle]
  /\ UNCHANGED <<build, bars, table>>

-----------------------------------------------------------------------------
Proceeds(r) ==
  \/ RunAnswered(r) \/ RunStored(r) \/ RunFails(r)
  \/ InlineAnswered(r) \/ Insert(r) \/ InsertErrs(r)
  \/ RerunAnswered(r)
  \/ EngineErrs(r) \/ EngineWorks(r)

Starts(r) ==
  \/ \E config \in Wanted : RunAsks(r, config) \/ InlineAsks(r, config)
  \/ \E x \in Requests \ {r} :
       Promote(r, x) \/ RerunAsks(r, x) \/ Delete(r, x) \/ NotFound(r, x)

Next ==
  \/ \E r \in Requests : Starts(r) \/ Proceeds(r)
  \/ \E leg \in Engine!Legs : HistoryRevised(leg)
  \/ BuildDeployed
  \/ ApiRestarts

Spec == Init /\ [][Next]_vars

-----------------------------------------------------------------------------
\* A rerun that reports the same source data and different metrics.
Blames(r) ==
  /\ call[r].step = "reran"
  /\ DataVersionMatches(call[r].held, call[r].got)
  /\ ~MetricsMatch(call[r].held, call[r].got)

\* The rate that a stored zero stands for.
RateMoved(saved, rerun) ==
  /\ saved.config.settings.risk_free_rate = Zero
  /\ Default(rerun.build).risk_free_rate # Zero

\* What can be behind such a rerun: another version of the code, a revision of the
\* second leg of a pair, or a rate of zero where the default no longer is.  Not a
\* change of any other default, nor a revision of the instrument itself, however
\* runs, saves, reruns and deletes interleave with them.
VerdictExplained ==
  \A r \in Requests :
    Blames(r) =>
      LET saved == call[r].held
          rerun == call[r].got
      IN \/ Code(saved.build) # Code(rerun.build)
         \/ saved.config.strategy = "pair" /\ saved.second # rerun.second
         \/ RateMoved(saved, rerun)

\* A rerun runs with the configuration that its experiment reports and not with
\* today's defaults, whatever builds were deployed in between.  Of "replayed verbatim"
\* (Rerun) the one exception is a rate of zero: the client does not send it, and the
\* build that reruns takes its own default for it.
StoredConfigReplayed ==
  \A r \in Requests :
    call[r].step = "reran" =>
      LET saved == call[r].held
          rerun == call[r].got
      IN rerun.config =
           [saved.config EXCEPT !.settings.risk_free_rate =
              IF @ = Zero THEN Default(rerun.build).risk_free_rate ELSE @]

\* What the explanation of such a rerun tells its user: "That points at a change
\* in the engine or the strategy, not at the data" (explain, and the third row of
\* the verdict table of docs/api.md).
RegressionMeansNewBuild ==
  \A r \in Requests : Blames(r) => call[r].held.build # call[r].got.build

\* A save that was acknowledged is in the table, as it was computed, until a
\* delete: across restarts, deployments, revisions and evictions of the backtest
\* it was promoted from; and what was promoted is what its run was answered with.
AcknowledgedSavesLast ==
  \A r \in Requests :
    call[r].step = "saved" =>
      /\ \/ r \in DOMAIN table /\ table[r] = call[r].held
         \/ \E d \in Requests : call[d].step = "deleted" /\ call[d].of = r
      /\ call[r].of # r => call[call[r].of].got = call[r].held
=============================================================================
