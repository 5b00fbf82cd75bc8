------------------------------ MODULE QuantEngine ------------------------------
(***************************************************************************)
(* One backtest as the quant service runs it for a caller                  *)
(* (run_backtest_for_symbol in services/quant/backtest/runner.py): fetch   *)
(* the bars of the instrument, fetch those of a second leg if the strategy *)
(* declares one, compute, and answer with the result contract              *)
(* (build_result in result.py).                                            *)
(*                                                                         *)
(* The provider may revise history at any time, and a new build of the     *)
(* service may be deployed, which cuts off the jobs in progress.  Bars are *)
(* identified by their revision, and metrics are a function of all they    *)
(* are computed from.  A build may differ from the one before it in its    *)
(* code, in its defaults, or in both.                                      *)
(***************************************************************************)
EXTENDS Naturals

CONSTANTS
  Callers,
  Strategies,          \* of {"single", "pair"}: a pair strategy has a second leg
  Allowed,             \* what each setting of a backtest may be
  Unset,               \* a setting that a request leaves out
  Default(_),          \* the settings a build uses for those left out
  Code(_),             \* the version of the engine and the strategies in a build
  Metrics(_, _, _, _), \* of that version, the settings and the bars of both legs
  NoConfig,
  MaxRevision,         \* bound: revisions of each leg's history
  MaxBuild             \* bound: builds deployed

Builds == 0..MaxBuild
Revisions == 0..MaxRevision
Legs == {"primary", "second"}

VARIABLES
  build,   \* the build that is deployed
  bars,    \* the revision of each leg that the provider serves
  job      \* the job of each caller

engineVars == <<build, bars, job>>

Settings(absent) ==
  [initial_cash:     Allowed.initial_cash \cup absent,
   cost_model:       Allowed.cost_model \cup absent,
   execution_model:  Allowed.execution_model \cup absent,
   allow_short:      Allowed.allow_short \cup absent,
   liquidate_at_end: Allowed.liquidate_at_end \cup absent,
   risk_free_rate:   Allowed.risk_free_rate \cup absent]

\* The configuration of a run, and what a request has of one.
Configs == [strategy: Strategies, settings: Settings({})]
Requested == [strategy: Strategies, settings: Settings({Unset})]

\* The revision fetched of the second leg is no part of the result contract; it
\* is kept here only to say what a result was computed from.
Result(config, primary, second) ==
  [config       |-> config,
   data_version |-> primary,
   metrics      |-> Metrics(Code(build), config.settings, primary, second),
   build        |-> build,
   second       |-> second]

Results ==
  {[config |-> config, data_version |-> primary, build |-> b, second |-> second,
    metrics |-> Metrics(Code(b), config.settings, primary, second)] :
     config \in Configs, primary \in Revisions, b \in Builds, second \in Revisions}

Idle == [stage |-> "idle", config |-> NoConfig, primary |-> 0, second |-> 0]

Jobs ==
  {Idle, [Idle EXCEPT !.stage = "failed"]} \cup
  [stage: {"primary", "second", "compute"}, config: Requested,
   primary: Revisions, second: Revisions]

TypeOK ==
  /\ build \in Builds
  /\ bars \in [Legs -> Revisions]
  /\ job \in [Callers -> Jobs]

Init ==
  /\ build = 0
  /\ bars = [leg \in Legs |-> 0]
  /\ job = [c \in Callers |-> Idle]

-----------------------------------------------------------------------------
Ask(c, config) ==
  /\ job[c] = Idle
  /\ job' = [job EXCEPT ![c] =
               [stage |-> "primary", config |-> config, primary |-> 0, second |-> 0]]
  /\ UNCHANGED <<build, bars>>

FetchPrimary(c) ==
  /\ job[c].stage = "primary"
  /\ job' = [job EXCEPT ![c].primary = bars["primary"],
                        ![c].stage = IF job[c].config.strategy = "pair"
                                     THEN "second" ELSE "compute"]
  /\ UNCHANGED <<build, bars>>

\* resolve_auxiliary_series: the second leg is a fetch of its own.
FetchSecond(c) ==
  /\ job[c].stage = "second"
  /\ job' = [job EXCEPT ![c].second = bars["second"], ![c].stage = "compute"]
  /\ UNCHANGED <<build, bars>>

\* What is left out takes the default of the build that runs.
Filled(settings, default) ==
  LET value(field) == IF settings[field] = Unset THEN default[field] ELSE settings[field]
  IN [initial_cash     |-> value("initial_cash"),
      cost_model       |-> value("cost_model"),
      execution_model  |-> value("execution_model"),
      allow_short      |-> value("allow_short"),
      liquidate_at_end |-> value("liquidate_at_end"),
      risk_free_rate   |-> value("risk_free_rate")]

Resolved(config) == [config EXCEPT !.settings = Filled(@, Default(build))]

Answer(c) == Result(Resolved(job[c].config), job[c].primary, job[c].second)

\* The caller receives Answer(c).
Complete(c) ==
  /\ job[c].stage = "compute"
  /\ job' = [job EXCEPT ![c] = Idle]
  /\ UNCHANGED <<build, bars>>

\* The caller receives an error: the request is rejected, the provider or the
\* data validation fails, the service is unreachable, or the client times out.
Fail(c) ==
  /\ job[c] # Idle
  /\ job' = [job EXCEPT ![c] = Idle]
  /\ UNCHANGED <<build, bars>>

\* The provider revises the history of a leg.
Revise(leg) ==
  /\ bars[leg] < MaxRevision
  /\ bars' = [bars EXCEPT ![leg] = @ + 1]
  /\ UNCHANGED <<build, job>>

\* A new build replaces the process.
Deploy ==
  /\ build < MaxBuild
  /\ build' = build + 1
  /\ job' = [c \in Callers |->
               IF job[c] = Idle THEN Idle ELSE [Idle EXCEPT !.stage = "failed"]]
  /\ UNCHANGED bars
=============================================================================
