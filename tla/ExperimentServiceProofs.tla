------------------------ MODULE ExperimentServiceProofs ------------------------
(***************************************************************************)
(* Theorems about backtests and experiments, for any number of requests,   *)
(* capacity, restarts, revisions and builds: the session's store works     *)
(* inside the service as it does alone, an acknowledged save is not lost,  *)
(* a rerun replays what was stored, and one that blames the engine has the *)
(* explanations listed.                                                    *)
(***************************************************************************)
EXTENDS ExperimentService, TLAPS

\* What is proved of the session's store by itself.
Kept == INSTANCE BacktestStoreProofs
  WITH Ids <- Requests, Payloads <- Engine!Results, NoPayload <- NoResult

-----------------------------------------------------------------------------
(* The inductive invariant.  Results are sound wherever they are: in a job, *)
(* in the store, in the table or in the hands of a request.                 *)

Working == {"primary", "second", "compute"}

\* Without a second leg nothing was fetched of it.
Sound(result) ==
  /\ result \in Engine!Results
  /\ result.config.strategy # "pair" => result.second = 0

JobInv ==
  \A r \in Requests :
    job[r].stage \in Working =>
      IF job[r].config.strategy = "pair" THEN TRUE
      ELSE job[r].second = 0 /\ job[r].stage # "second"

SoundInv ==
  /\ \A e \in DOMAIN table : e \in Requests /\ Sound(table[e])
  /\ \A id \in DOMAIN records : Sound(records[id].result)
  /\ \A id \in Requests : stage[id] = "answered" => Sound(answer[id])

WithRate(settings, rate) ==
  [initial_cash     |-> settings.initial_cash,
   cost_model       |-> settings.cost_model,
   execution_model  |-> settings.execution_model,
   allow_short      |-> settings.allow_short,
   liquidate_at_end |-> settings.liquidate_at_end,
   risk_free_rate   |-> rate]

RateRun(settings, b) ==
  IF settings.risk_free_rate = Zero THEN Default(b).risk_free_rate ELSE settings.risk_free_rate

\* A rerun is of the saved configuration, but that a rate of zero becomes the one
\* the build takes for a rate it is not sent.
SameButRate(saved, rerun) ==
  rerun.config =
    [saved.config EXCEPT !.settings = WithRate(@, RateRun(@, rerun.build))]

\* What a request holds, and what its job computes for it.
Holds(c, j) ==
  /\ c.step = "insert" => Sound(c.held)
  /\ c.step = "rerun" =>
       /\ Sound(c.held)
       /\ j.stage \in Working => j.config = Encoded(Replayed(c.held))
  /\ c.step = "reran" =>
       Sound(c.held) /\ Sound(c.got) /\ SameButRate(c.held, c.got)

CallInv ==
  /\ call \in [Requests -> Calls]
  /\ \A r \in Requests : Holds(call[r], job[r])

\* A record in the session's store is what its run was answered with, and what was
\* promoted from it still is when the record is gone.
ShownInv ==
  /\ \A id \in DOMAIN records :
       call[id].step = "ran" /\ records[id].result = call[id].got
  /\ \A r \in Requests :
       /\ call[r].step \in {"new", "inline"} => call[r].of = r
       /\ call[r].step \in {"insert", "saved"} /\ call[r].of # r =>
            call[call[r].of].step = "ran" /\ call[call[r].of].got = call[r].held

RowsInv ==
  \A r \in Requests :
    call[r].step = "saved" =>
      \/ r \in DOMAIN table /\ table[r] = call[r].held
      \/ \E d \in Requests : call[d].step = "deleted" /\ call[d].of = r

IInv ==
  /\ Kept!IInv
  /\ Engine!TypeOK
  /\ JobInv
  /\ SoundInv
  /\ CallInv
  /\ ShownInv
  /\ RowsInv

-----------------------------------------------------------------------------
(* The store, inside the service. *)

LEMMA StoreConstants == Kept!StoreAssumption
BY ServiceAssumption, ResultAssumption DEF Kept!StoreAssumption

LEMMA StoreTyped ==
  ASSUME Kept!IInv PROVE Store!TypeOK
BY DEF Kept!IInv, Kept!TypeOK, Store!TypeOK, Kept!Stages, Store!Stages, Kept!Records, Store!Records

(* What is sent of a configuration, and what a build makes of it. *)

LEMMA FilledTyped ==
  ASSUME NEW settings \in Engine!Settings({Unset}), build \in Engine!Builds
  PROVE  Engine!Filled(settings, Default(build)) \in Engine!Settings({})
<1>1. Default(build) \in Engine!Settings({})
  BY SettingsAssumption DEF Engine!Builds
<1>. QED
  BY <1>1 DEF Engine!Filled, Engine!Settings

LEMMA WantedSent ==
  ASSUME NEW config \in Wanted
  PROVE  Encoded(config) \in Engine!Requested
<1>1. /\ config.strategy \in Strategies /\ config.settings \in Asked
      /\ config = [strategy |-> config.strategy, settings |-> config.settings]
  BY DEF Wanted
<1>. QED
  BY <1>1, SettingsAssumption DEF Encoded, OmitEmpty, Engine!Requested, Engine!Settings

\* A rerun sends the saved settings as they are, but for a rate of zero.
LEMMA ReplaySent ==
  ASSUME NEW saved \in Engine!Results
  PROVE  /\ Encoded(Replayed(saved)) \in Engine!Requested
         /\ Encoded(Replayed(saved)) =
              [saved.config EXCEPT
                 !.settings = WithRate(@, OmitEmpty(saved.config.settings.risk_free_rate))]
<1>. DEFINE stored == saved.config.settings
            sent == WithRate(stored, OmitEmpty(stored.risk_free_rate))
<1>1. saved.config \in Engine!Configs
  BY DEF Engine!Results
<1>2. stored \in Engine!Settings({})
  BY <1>1 DEF Engine!Configs
<1>3. Replayed(saved).settings = WithRate(stored, stored.risk_free_rate)
  BY <1>2 DEF Replayed, Engine!Settings, WithRate
<1>4. Replayed(saved).strategy = saved.config.strategy /\ Replayed(saved).settings = stored
  BY <1>2, <1>3 DEF Replayed, Engine!Settings, WithRate
<1>5. Replayed(saved) = saved.config
  BY <1>1, <1>4 DEF Replayed, Engine!Configs
<1>6. Encoded(saved.config) = [saved.config EXCEPT !.settings = sent]
  BY <1>2, SettingsAssumption DEF Encoded, OmitEmpty, WithRate, Engine!Settings
<1>7. sent \in Engine!Settings({Unset})
  BY <1>2 DEF Engine!Settings, WithRate, OmitEmpty
<1>. HIDE DEF sent
<1>8. [saved.config EXCEPT !.settings = sent] \in Engine!Requested
  BY <1>1, <1>7 DEF Engine!Configs, Engine!Requested
<1>. QED
  BY <1>5, <1>6, <1>8 DEF sent

LEMMA ReplayRuns ==
  ASSUME NEW saved \in Engine!Results
  PROVE  Engine!Resolved(Encoded(Replayed(saved))) =
           [saved.config EXCEPT !.settings = WithRate(@, RateRun(@, build))]
<1>. DEFINE stored == saved.config.settings
            sent == WithRate(stored, OmitEmpty(stored.risk_free_rate))
<1>1. saved.config \in Engine!Configs /\ stored \in Engine!Settings({})
  BY DEF Engine!Results, Engine!Configs
<1>2. Engine!Filled(sent, Default(build)) = WithRate(stored, RateRun(stored, build))
  BY <1>1, SettingsAssumption
     DEF Engine!Filled, WithRate, RateRun, OmitEmpty, Engine!Settings
<1>. HIDE DEF sent
<1>3. Engine!Resolved([saved.config EXCEPT !.settings = sent]) =
        [saved.config EXCEPT !.settings = Engine!Filled(sent, Default(build))]
  BY <1>1 DEF Engine!Resolved, Engine!Configs
<1>. QED
  BY <1>2, <1>3, ReplaySent DEF sent

\* A result a job ends with is sound, and is about what was asked for with the
\* rest taken from the build that ran it.
LEMMA AnswerSound ==
  ASSUME IInv, NEW r \in Requests, job[r].stage = "compute"
  PROVE  /\ Sound(Engine!Answer(r))
         /\ Engine!Answer(r).config = Engine!Resolved(job[r].config)
         /\ Engine!Answer(r).build = build
<1>1. /\ job[r].config \in Engine!Requested
      /\ job[r].primary \in Engine!Revisions /\ job[r].second \in Engine!Revisions
      /\ build \in Engine!Builds
  BY DEF IInv, Engine!TypeOK, Engine!Jobs, Engine!Idle
<1>2. job[r].config.strategy # "pair" => job[r].second = 0
  BY DEF IInv, JobInv, Working
<1>. DEFINE config == Engine!Resolved(job[r].config)
<1>3. /\ config \in Engine!Configs
      /\ config.strategy = job[r].config.strategy
  BY <1>1, FilledTyped DEF Engine!Resolved, Engine!Requested, Engine!Configs
<1>4. Engine!Answer(r) = Engine!Result(config, job[r].primary, job[r].second)
  BY DEF Engine!Answer
<1>. HIDE DEF config
<1>5. Engine!Answer(r) \in Engine!Results
  BY <1>1, <1>3, <1>4 DEF Engine!Result, Engine!Results
<1>. QED
  BY <1>2, <1>3, <1>4, <1>5 DEF Sound, Engine!Result, config

\* Every step of the service is a step of the store or leaves the store alone.
LEMMA StepIsOfTheStore ==
  ASSUME IInv, [Next]_vars
  PROVE  [Kept!Next]_storeVars
<1>1. ASSUME NEW r \in Requests, RunAnswered(r) PROVE Kept!Next
  <2>1. Engine!Answer(r) \in Engine!Results
    BY <1>1, AnswerSound DEF RunAnswered, Engine!Complete, Sound
  <2>. QED
    BY <1>1, <2>1 DEF RunAnswered, Store!AnswerRun, Kept!AnswerRun, Kept!Next
<1>2. ASSUME NEW r \in Requests,
             \/ \E config \in Wanted : RunAsks(r, config)
             \/ RunStored(r) \/ RunFails(r)
      PROVE  Kept!Next
  BY <1>2 DEF RunAsks, RunStored, RunFails, Store!StartRun, Store!StoreRun, Store!FailRun,
              Kept!StartRun, Kept!StoreRun, Kept!FailRun, Kept!Next, Store!Save, Kept!Save,
              Store!Listed, Kept!Listed, Store!Shortened, Kept!Shortened,
              Store!Evicted, Kept!Evicted
<1>3. CASE ApiRestarts
  BY <1>3 DEF ApiRestarts, Store!Restart, Kept!Restart, Kept!Next
<1>4. ASSUME NEW r \in Requests, NEW x \in Requests,
             \/ \E config \in Wanted : InlineAsks(r, config)
             \/ Promote(r, x) \/ RerunAsks(r, x) \/ Delete(r, x) \/ NotFound(r, x)
             \/ InlineAnswered(r) \/ Insert(r) \/ InsertErrs(r) \/ RerunAnswered(r)
             \/ EngineErrs(r) \/ EngineWorks(r)
      PROVE  UNCHANGED storeVars
  BY <1>4 DEF InlineAsks, Promote, RerunAsks, Delete, NotFound, InlineAnswered, Insert,
              InsertErrs, RerunAnswered, EngineErrs, EngineWorks
<1>5. ASSUME (\E leg \in Engine!Legs : HistoryRevised(leg)) \/ BuildDeployed \/ UNCHANGED vars
      PROVE  UNCHANGED storeVars
  BY <1>5 DEF HistoryRevised, BuildDeployed, vars
<1>. QED
  BY <1>1, <1>2, <1>3, <1>4, <1>5 DEF Next, Starts, Proceeds

LEMMA StoreKept ==
  ASSUME IInv, [Next]_vars
  PROVE  Kept!IInv'
<1>1. [Kept!Next]_(Kept!storeVars)
  BY StepIsOfTheStore DEF storeVars, Kept!storeVars
<1>. QED
  BY <1>1, StoreConstants, Kept!StepIInv DEF IInv

-----------------------------------------------------------------------------
(* The engine's jobs. *)

\* What the steps of the service do to the engine, one disjunct per operation.
EngineStep ==
  \/ \E r \in Requests, config \in Engine!Requested :
       Engine!Ask(r, config)
  \/ \E r \in Requests :
       \/ Engine!FetchPrimary(r) \/ Engine!FetchSecond(r)
       \/ Engine!Complete(r) \/ Engine!Fail(r)
  \/ \E leg \in Engine!Legs : Engine!Revise(leg)
  \/ Engine!Deploy
  \/ UNCHANGED <<build, bars>> /\ job' = [r \in Requests |-> Engine!Idle]
  \/ UNCHANGED engineVars

LEMMA StepIsOfTheEngine ==
  ASSUME IInv, [Next]_vars
  PROVE  EngineStep
<1>1. ASSUME NEW r \in Requests, NEW config \in Wanted,
             RunAsks(r, config) \/ InlineAsks(r, config)
      PROVE  EngineStep
  BY <1>1, WantedSent DEF RunAsks, InlineAsks, EngineStep
<1>2. ASSUME NEW r \in Requests, NEW e \in Requests, RerunAsks(r, e) PROVE EngineStep
  <2>1. Encoded(Replayed(table[e])) \in Engine!Requested
    BY <1>2, ReplaySent DEF RerunAsks, IInv, SoundInv, Sound
  <2>. QED
    BY <1>2, <2>1 DEF RerunAsks, EngineStep
<1>3. ASSUME NEW r \in Requests,
             RunAnswered(r) \/ InlineAnswered(r) \/ RerunAnswered(r) \/ RunFails(r)
               \/ EngineErrs(r) \/ EngineWorks(r)
      PROVE  EngineStep
  BY <1>3 DEF RunAnswered, InlineAnswered, RerunAnswered, RunFails, EngineErrs, EngineWorks,
              EngineStep
<1>4. CASE ApiRestarts
  BY <1>4 DEF ApiRestarts, EngineStep
<1>5. ASSUME (\E leg \in Engine!Legs : HistoryRevised(leg)) \/ BuildDeployed PROVE EngineStep
  BY <1>5 DEF HistoryRevised, BuildDeployed, EngineStep
<1>6. ASSUME NEW r \in Requests, NEW x \in Requests,
             \/ Promote(r, x) \/ Delete(r, x) \/ NotFound(r, x)
             \/ RunStored(r) \/ Insert(r) \/ InsertErrs(r)
      PROVE  UNCHANGED engineVars
  BY <1>6 DEF Promote, Delete, NotFound, RunStored, Insert, InsertErrs, engineVars
<1>7. CASE UNCHANGED vars
  BY <1>7 DEF vars, engineVars, EngineStep
<1>. QED
  BY <1>1, <1>2, <1>3, <1>4, <1>5, <1>6, <1>7 DEF Next, Starts, Proceeds, EngineStep

\* No step changes the configuration of a job that is under way.
LEMMA EngineKept ==
  ASSUME Engine!TypeOK, JobInv, EngineStep
  PROVE  /\ Engine!TypeOK' /\ JobInv'
         /\ \A r \in Requests :
              job[r] # Engine!Idle /\ job'[r].stage \in Working =>
                job[r].stage \in Working /\ job'[r].config = job[r].config
<1>. USE ServiceAssumption DEF Engine!TypeOK, Engine!Jobs, Engine!Idle, JobInv, Working
<1>1. ASSUME NEW r \in Requests, NEW config \in Engine!Requested,
             Engine!Ask(r, config)
      PROVE  /\ Engine!TypeOK' /\ JobInv'
             /\ \A q \in Requests : job[q] # Engine!Idle => job'[q] = job[q]
  BY <1>1 DEF Engine!Ask, Engine!Revisions
<1>2. ASSUME NEW r \in Requests, Engine!FetchPrimary(r) \/ Engine!FetchSecond(r)
      PROVE  /\ Engine!TypeOK' /\ JobInv'
             /\ \A q \in Requests :
                  /\ job'[q].config = job[q].config
                  /\ job'[q].stage \in Working => job[q].stage \in Working
  <2>1. /\ job[r] \in [stage: Working, config: Engine!Requested,
                       primary: Engine!Revisions, second: Engine!Revisions]
        /\ bars["primary"] \in Engine!Revisions /\ bars["second"] \in Engine!Revisions
    BY <1>2 DEF Engine!FetchPrimary, Engine!FetchSecond, Engine!Legs
  <2>2. /\ build' = build /\ bars' = bars /\ job' \in [Requests -> Engine!Jobs]
        /\ \A q \in Requests \ {r} : job'[q] = job[q]
        /\ job'[r].config = job[r].config
    BY <1>2, <2>1 DEF Engine!FetchPrimary, Engine!FetchSecond
  <2>3. IF job'[r].config.strategy = "pair" THEN TRUE
        ELSE job'[r].second = 0 /\ job'[r].stage # "second"
    BY <1>2, <2>1, <2>2 DEF Engine!FetchPrimary, Engine!FetchSecond
  <2>. QED
    BY <2>1, <2>2, <2>3
<1>3. ASSUME NEW r \in Requests, Engine!Complete(r) \/ Engine!Fail(r)
      PROVE  /\ Engine!TypeOK' /\ JobInv'
             /\ \A q \in Requests : job'[q] = job[q] \/ job'[q] = Engine!Idle
  BY <1>3 DEF Engine!Complete, Engine!Fail
<1>4. ASSUME NEW leg \in Engine!Legs, Engine!Revise(leg)
      PROVE  Engine!TypeOK' /\ JobInv' /\ job' = job
  BY <1>4 DEF Engine!Revise, Engine!Revisions
<1>5. ASSUME Engine!Deploy
      PROVE  /\ Engine!TypeOK' /\ JobInv'
             /\ \A q \in Requests : job'[q].stage \notin Working
  BY <1>5 DEF Engine!Deploy, Engine!Builds
<1>6. ASSUME UNCHANGED <<build, bars>>, job' = [r \in Requests |-> Engine!Idle]
      PROVE  /\ Engine!TypeOK' /\ JobInv'
             /\ \A q \in Requests : job'[q].stage \notin Working
  BY <1>6
<1>7. CASE UNCHANGED engineVars
  BY <1>7 DEF engineVars
<1>. QED
  BY <1>1, <1>2, <1>3, <1>4, <1>5, <1>6, <1>7 DEF EngineStep
-----------------------------------------------------------------------------
(* What the requests hold. *)

\* A request's own step: the other requests and their jobs stay as they are.
Own(r) ==
  \A q \in Requests \ {r} : call'[q] = call[q] /\ job'[q] = job[q]

\* The fields of a request are set one by one.
LEMMA StepSet ==
  ASSUME NEW c \in Calls, NEW step \in Open \cup Closed
  PROVE  [c EXCEPT !.step = step] \in Calls /\ [c EXCEPT !.step = step].step = step
BY DEF Calls

LEMMA ResultSet ==
  ASSUME NEW c \in Calls, NEW step \in Open \cup Closed, NEW result \in Engine!Results
  PROVE  /\ [c EXCEPT !.step = step, !.held = result] \in Calls
         /\ [c EXCEPT !.step = step, !.got = result] \in Calls
BY DEF Calls

LEMMA BareTyped ==
  ASSUME NEW r \in Requests, NEW step \in Open \cup Closed
  PROVE  Bare(r, step) \in Calls /\ Bare(r, step).step = step
BY DEF Bare, Calls

LEMMA OwnStepHolds ==
  ASSUME CallInv, NEW r \in Requests, Own(r),
         call' \in [Requests -> Calls], Holds(call'[r], job'[r])
  PROVE  CallInv'
BY DEF CallInv, Own

LEMMA CallKept ==
  ASSUME IInv, [Next]_vars
  PROVE  CallInv'
<1>1. /\ CallInv /\ call \in [Requests -> Calls]
      /\ \A r \in Requests : Holds(call[r], job[r])
      /\ Engine!TypeOK /\ JobInv /\ job \in [Requests -> Engine!Jobs]
  BY DEF IInv, CallInv, Engine!TypeOK
<1>2. \A r \in Requests :
        job[r] # Engine!Idle /\ job'[r].stage \in Working =>
          job[r].stage \in Working /\ job'[r].config = job[r].config
  BY <1>1, StepIsOfTheEngine, EngineKept
<1>3. ASSUME NEW r \in Requests, NEW config \in Wanted,
             RunAsks(r, config) \/ InlineAsks(r, config)
      PROVE  CallInv'
  <2>1. PICK step \in {"run", "inline"} : call' = [call EXCEPT ![r].step = step]
    BY <1>3 DEF RunAsks, InlineAsks, Goes
  <2>2. Own(r)
    BY <1>1, <1>3, <2>1 DEF RunAsks, InlineAsks, Engine!Ask, Own
  <2>3. step \in Open \cup Closed /\ call[r] \in Calls
    BY <1>1 DEF Open
  <2>4. call' \in [Requests -> Calls] /\ call'[r].step \in {"run", "inline"}
    BY <1>1, <2>1, <2>3, StepSet
  <2>. QED
    BY <1>1, <2>2, <2>4, OwnStepHolds DEF Holds
<1>4. ASSUME NEW r \in Requests, NEW id \in Requests, Promote(r, id) PROVE CallInv'
  <2>1. Own(r) /\ call[r] \in Calls
    BY <1>1, <1>4 DEF Promote, Own, engineVars
  <2>2. CASE id \in DOMAIN records
    <3>1. Sound(records[id].result)
      BY <2>2 DEF IInv, SoundInv
    <3>2. call' = [call EXCEPT ![r] = [call[r] EXCEPT !.step = "insert", !.of = id,
                                                     !.held = records[id].result]]
      BY <1>4, <2>2 DEF Promote
    <3>. DEFINE shown == records[id].result
                made == [call[r] EXCEPT !.step = "insert", !.of = id, !.held = shown]
    <3>. HIDE DEF shown
    <3>3. made \in Calls /\ made.step = "insert" /\ made.held = shown
      <4>1. call[r] \in Calls /\ id \in Requests /\ shown \in Engine!Results
        BY <1>4, <2>1, <3>1 DEF Sound, shown
      <4>. QED
        BY <4>1 DEF Calls, Open
    <3>. HIDE DEF made
    <3>4. call' = [call EXCEPT ![r] = made]
      BY <3>2 DEF made, shown
    <3>5. /\ call' \in [Requests -> Calls] /\ call'[r].step = "insert"
          /\ call'[r].held = records[id].result
      BY <1>1, <3>3, <3>4 DEF shown
    <3>. QED
      BY <1>1, <2>1, <3>1, <3>5, OwnStepHolds DEF Holds
  <2>3. CASE id \notin DOMAIN records
    <3>1. call' = [call EXCEPT ![r] = [call[r] EXCEPT !.step = "error"]]
      BY <1>4, <2>3 DEF Promote
    <3>2. call' \in [Requests -> Calls] /\ call'[r].step = "error"
      BY <1>1, <2>1, <3>1, StepSet DEF Closed
    <3>. QED
      BY <1>1, <2>1, <3>2, OwnStepHolds DEF Holds
  <2>. QED
    BY <2>2, <2>3
<1>5. ASSUME NEW r \in Requests, NEW e \in Requests, RerunAsks(r, e) PROVE CallInv'
  <2>1. Sound(table[e])
    BY <1>5 DEF RerunAsks, IInv, SoundInv
  <2>2. Own(r) /\ call' \in [Requests -> Calls]
    BY <1>1, <1>5, <2>1 DEF RerunAsks, Engine!Ask, Own, Sound, Calls, Open, Closed
  <2>3. /\ call'[r].step = "rerun" /\ call'[r].held = table[e]
        /\ job'[r].config = Encoded(Replayed(table[e]))
    BY <1>1, <1>5 DEF RerunAsks, Engine!Ask, Calls
  <2>. QED
    BY <1>1, <2>1, <2>2, <2>3, OwnStepHolds DEF Holds
<1>6. ASSUME NEW r \in Requests, InlineAnswered(r) \/ RerunAnswered(r) PROVE CallInv'
  <2>. DEFINE result == Engine!Answer(r)
  <2>1. job[r].stage = "compute"
    BY <1>6 DEF InlineAnswered, RerunAnswered, Engine!Complete
  <2>2. /\ Sound(result) /\ result.build = build
        /\ result.config = Engine!Resolved(job[r].config)
    BY <2>1, AnswerSound
  <2>. HIDE DEF result
  <2>3. Own(r)
    BY <1>1, <1>6 DEF InlineAnswered, RerunAnswered, Engine!Complete, Own
  <2>4. call' \in [Requests -> Calls]
    <3>1. \/ call' = [call EXCEPT ![r] = [@ EXCEPT !.step = "insert", !.held = result]]
          \/ call' = [call EXCEPT ![r] = [@ EXCEPT !.step = "reran", !.got = result]]
      BY <1>1, <1>6 DEF InlineAnswered, RerunAnswered, result
    <3>2. /\ [call[r] EXCEPT !.step = "insert", !.held = result] \in Calls
          /\ [call[r] EXCEPT !.step = "reran", !.got = result] \in Calls
      BY <1>1, <2>2, ResultSet DEF Sound, Open, Closed
    <3>. QED
      BY <1>1, <3>1, <3>2
  <2>5. CASE call[r].step = "inline"
    <3>1. call'[r].step = "insert" /\ call'[r].held = result
      BY <1>1, <1>6, <2>5 DEF InlineAnswered, RerunAnswered, Calls, result
    <3>. QED
      BY <1>1, <2>2, <2>3, <2>4, <3>1, OwnStepHolds DEF Holds
  <2>6. CASE call[r].step = "rerun"
    <3>1. /\ call'[r].step = "reran" /\ call'[r].held = call[r].held
          /\ call'[r].got = result
      BY <1>1, <1>6, <2>6 DEF InlineAnswered, RerunAnswered, Calls, result
    <3>2. Sound(call[r].held) /\ job[r].config = Encoded(Replayed(call[r].held))
      BY <1>1, <2>1, <2>6 DEF Holds, Working
    <3>3. SameButRate(call[r].held, result)
      BY <2>2, <3>2, ReplayRuns DEF Sound, SameButRate
    <3>. QED
      BY <1>1, <2>2, <2>3, <2>4, <3>1, <3>2, <3>3, OwnStepHolds DEF Holds
  <2>. QED
    BY <1>6, <2>5, <2>6 DEF InlineAnswered, RerunAnswered
<1>7. ASSUME NEW r \in Requests,
             \/ RunFails(r) \/ Insert(r) \/ InsertErrs(r) \/ EngineErrs(r)
             \/ \E e \in Requests : Delete(r, e) \/ NotFound(r, e)
      PROVE  CallInv'
  <2>1. Own(r)
    <3>1. \/ job' = job
          \/ job' = [job EXCEPT ![r] = Engine!Idle]
      BY <1>7 DEF RunFails, Insert, InsertErrs, EngineErrs, Delete, NotFound, Engine!Fail,
                  engineVars
    <3>2. \A q \in Requests \ {r} : call'[q] = call[q]
      BY <1>1, <1>7 DEF RunFails, Insert, InsertErrs, EngineErrs, Delete, NotFound, Goes
    <3>. QED
      BY <1>1, <3>1, <3>2 DEF Own
  <2>2. PICK step \in {"error", "saved", "deleted"} :
          \/ call' = [call EXCEPT ![r].step = step]
          \/ call' = [call EXCEPT ![r] = Bare(r, step)]
          \/ \E e \in Requests : call' = [call EXCEPT ![r] = [@ EXCEPT !.step = step, !.of = e]]
    BY <1>7 DEF RunFails, Insert, InsertErrs, EngineErrs, Delete, NotFound, Goes
  <2>3. step \in Open \cup Closed /\ call[r] \in Calls
    BY <1>1 DEF Open, Closed
  <2>4. CASE call' = [call EXCEPT ![r] = Bare(r, step)]
    <3>1. call' \in [Requests -> Calls] /\ call'[r].step = step
      BY <1>1, <2>3, <2>4, BareTyped
    <3>. QED
      BY <1>1, <2>1, <3>1, OwnStepHolds DEF Holds
  <2>5. CASE call' = [call EXCEPT ![r].step = step]
    <3>1. call' \in [Requests -> Calls] /\ call'[r].step = step
      BY <1>1, <2>3, <2>5, StepSet
    <3>. QED
      BY <1>1, <2>1, <3>1, OwnStepHolds DEF Holds
  <2>6. ASSUME NEW e \in Requests,
               call' = [call EXCEPT ![r] = [@ EXCEPT !.step = step, !.of = e]]
        PROVE  CallInv'
    <3>1. /\ [call[r] EXCEPT !.step = step, !.of = e] \in Calls
          /\ [call[r] EXCEPT !.step = step, !.of = e].step = step
      BY <2>3 DEF Calls
    <3>2. call' \in [Requests -> Calls] /\ call'[r].step = step
      BY <1>1, <2>6, <3>1
    <3>. QED
      BY <1>1, <2>1, <3>2, OwnStepHolds DEF Holds
  <2>. QED
    BY <2>2, <2>4, <2>5, <2>6
<1>8. ASSUME NEW r \in Requests, RunAnswered(r) \/ EngineWorks(r) PROVE CallInv'
  <2>1. call' = call /\ Own(r) /\ job[r] # Engine!Idle
    BY <1>1, <1>8 DEF RunAnswered, EngineWorks, Engine!Complete, Engine!FetchPrimary,
                      Engine!FetchSecond, Engine!Idle, Own
  <2>2. Holds(call[r], job'[r])
    BY <1>1, <1>2, <2>1 DEF Holds
  <2>. QED
    BY <1>1, <2>1, <2>2, OwnStepHolds
<1>9. CASE (\E leg \in Engine!Legs : HistoryRevised(leg)) \/ UNCHANGED vars
  BY <1>1, <1>9 DEF HistoryRevised, Engine!Revise, vars, engineVars, CallInv
<1>10. CASE BuildDeployed
  <2>1. call' = call /\ \A r \in Requests : job'[r].stage \notin Working
    BY <1>10 DEF BuildDeployed, Engine!Deploy, Engine!Idle, Working
  <2>. QED
    BY <1>1, <2>1 DEF CallInv, Holds
<1>11. CASE ApiRestarts
  <2>1. /\ call' \in [Requests -> Calls]
        /\ \A r \in Requests : /\ call'[r] = call[r] \/ call'[r].step = "lost"
                               /\ job'[r].stage \notin Working
    BY <1>1, <1>11 DEF ApiRestarts, Engine!Idle, Working, Bare, Calls, Open, Closed
  <2>. QED
    BY <1>1, <2>1 DEF CallInv, Holds
<1>12. ASSUME NEW r \in Requests, RunStored(r) PROVE CallInv'
  <2>1. Own(r)
    BY <1>1, <1>12 DEF RunStored, Own, engineVars
  <2>2. answer[r] \in Engine!Results /\ call[r] \in Calls
    BY <1>1, <1>12 DEF RunStored, Store!StoreRun, IInv, SoundInv, Sound
  <2>3. call' = [call EXCEPT ![r] = [call[r] EXCEPT !.step = "ran", !.got = answer[r]]]
    BY <1>1, <1>12 DEF RunStored
  <2>. DEFINE done == [call[r] EXCEPT !.step = "ran", !.got = answer[r]]
  <2>4. done \in Calls /\ done.step = "ran"
    BY <2>2, ResultSet DEF Closed, Calls
  <2>. HIDE DEF done
  <2>5. call' \in [Requests -> Calls] /\ call'[r].step = "ran"
    BY <1>1, <2>3, <2>4 DEF done
  <2>. QED
    BY <1>1, <2>1, <2>5, OwnStepHolds DEF Holds
<1>. QED
  BY <1>3, <1>4, <1>5, <1>6, <1>7, <1>8, <1>9, <1>10, <1>11, <1>12 DEF Next, Starts, Proceeds

-----------------------------------------------------------------------------
(* The saved results. *)

\* What a request that is over says stays as it is.
LEMMA ClosedStay ==
  ASSUME IInv, [Next]_vars, NEW q \in Requests, call[q].step \in Closed
  PROVE  call'[q] = call[q]
<1>1. call \in [Requests -> Calls]
  BY DEF IInv, CallInv
<1>2. ASSUME NEW r \in Requests, Starts(r) PROVE call[r].step = "new" /\ call'[q] = call[q]
  <2>1. call[r].step = "new"
    BY <1>2 DEF Starts, RunAsks, InlineAsks, Promote, RerunAsks, Delete, NotFound, Goes
  <2>2. \A p \in Requests \ {r} : call'[p] = call[p]
    BY <1>1, <1>2 DEF Starts, RunAsks, InlineAsks, Promote, RerunAsks, Delete, NotFound, Goes
  <2>. QED
    BY <2>1, <2>2 DEF Closed
<1>3. ASSUME NEW r \in Requests, Proceeds(r) PROVE call'[q] = call[q]
  <2>1. call' = call \/ call[r].step \in {"run", "inline", "insert", "rerun"}
    BY <1>3 DEF Proceeds, RunAnswered, RunStored, RunFails, InlineAnswered, Insert, InsertErrs,
                RerunAnswered, EngineErrs, EngineWorks, Goes
  <2>2. \A p \in Requests \ {r} : call'[p] = call[p]
    BY <1>1, <1>3 DEF Proceeds, RunAnswered, RunStored, RunFails, InlineAnswered, Insert,
                      InsertErrs, RerunAnswered, EngineErrs, EngineWorks, Goes
  <2>. QED
    BY <2>1, <2>2 DEF Closed
<1>4. CASE ApiRestarts
  BY <1>1, <1>4 DEF ApiRestarts, Open, Closed
<1>5. CASE (\E leg \in Engine!Legs : HistoryRevised(leg)) \/ BuildDeployed \/ UNCHANGED vars
  BY <1>5 DEF HistoryRevised, BuildDeployed, vars
<1>. QED
  BY <1>2, <1>3, <1>4, <1>5 DEF Next

LEMMA SoundKept ==
  ASSUME IInv, [Next]_vars
  PROVE  SoundInv'
<1>1. /\ SoundInv /\ Store!TypeOK /\ call \in [Requests -> Calls]
      /\ \A r \in Requests : Holds(call[r], job[r])
  BY StoreTyped DEF IInv, CallInv
<1>2. ASSUME NEW r \in Requests, Insert(r) \/ InsertErrs(r) PROVE SoundInv'
  <2>1. /\ Sound(call[r].held) /\ UNCHANGED storeVars
        /\ table' = WithRow(r, call[r].held) \/ table' = table
    BY <1>1, <1>2 DEF Insert, InsertErrs, Goes, Holds
  <2>. QED
    BY <1>1, <2>1 DEF SoundInv, WithRow, storeVars
<1>3. ASSUME NEW r \in Requests, NEW e \in Requests, Delete(r, e) PROVE SoundInv'
  BY <1>1, <1>3 DEF Delete, SoundInv, storeVars
<1>4. ASSUME NEW r \in Requests, RunAnswered(r) PROVE SoundInv'
  <2>1. Sound(Engine!Answer(r))
    BY <1>4, AnswerSound DEF RunAnswered, Engine!Complete
  <2>. QED
    BY <1>1, <1>4, <2>1 DEF RunAnswered, Store!AnswerRun, Store!TypeOK, SoundInv
<1>5. ASSUME NEW r \in Requests, RunStored(r) PROVE SoundInv'
  <2>1. /\ table' = table /\ Sound(answer[r])
        /\ DOMAIN records' \subseteq DOMAIN records \cup {r}
        /\ \A id \in DOMAIN records' :
             records'[id] = IF id = r THEN [id |-> r, result |-> answer[r]] ELSE records[id]
        /\ \A id \in Requests : stage'[id] = "answered" =>
                                  stage[id] = "answered" /\ answer'[id] = answer[id]
    BY <1>1, <1>5 DEF RunStored, Store!StoreRun, Store!Save, Store!TypeOK, SoundInv
  <2>. QED
    BY <1>1, <2>1 DEF SoundInv
<1>6. ASSUME NEW r \in Requests,
             (\E config \in Wanted : RunAsks(r, config)) \/ RunFails(r)
      PROVE  SoundInv'
  BY <1>1, <1>6 DEF RunAsks, RunFails, Store!StartRun, Store!FailRun, Store!TypeOK, SoundInv
<1>7. CASE ApiRestarts
  BY <1>1, <1>7 DEF ApiRestarts, Store!Restart, SoundInv
<1>8. ASSUME NEW r \in Requests, NEW x \in Requests,
             \/ \E config \in Wanted : InlineAsks(r, config)
             \/ Promote(r, x) \/ RerunAsks(r, x) \/ NotFound(r, x)
             \/ InlineAnswered(r) \/ RerunAnswered(r) \/ EngineErrs(r) \/ EngineWorks(r)
      PROVE  SoundInv'
  BY <1>1, <1>8 DEF InlineAsks, Promote, RerunAsks, NotFound, InlineAnswered, RerunAnswered,
                    EngineErrs, EngineWorks, SoundInv, storeVars
<1>9. CASE (\E leg \in Engine!Legs : HistoryRevised(leg)) \/ BuildDeployed \/ UNCHANGED vars
  BY <1>1, <1>9 DEF HistoryRevised, BuildDeployed, vars, SoundInv, storeVars
<1>. QED
  BY <1>2, <1>3, <1>4, <1>5, <1>6, <1>7, <1>8, <1>9 DEF Next, Starts, Proceeds

\* A record enters the store with the answer of its run.
LEMMA ShownKept ==
  ASSUME IInv, [Next]_vars
  PROVE  ShownInv'
<1>1. /\ ShownInv /\ call \in [Requests -> Calls] /\ DOMAIN records \subseteq Requests
      /\ call' \in [Requests -> Calls]
  BY StoreTyped, CallKept DEF IInv, CallInv, Store!TypeOK
<1>2. \A q \in Requests : call[q].step \in Closed => call'[q] = call[q]
  BY ClosedStay
<1>3. ASSUME NEW r \in Requests, RunStored(r) PROVE ShownInv'
  <2>1. /\ call'[r].step = "ran" /\ call'[r].got = answer[r]
        /\ \A q \in Requests \ {r} : call'[q] = call[q]
    BY <1>1, <1>3 DEF RunStored, Calls
  <2>2. /\ DOMAIN records' \subseteq DOMAIN records \cup {r}
        /\ \A id \in DOMAIN records' :
             records'[id] = IF id = r THEN [id |-> r, result |-> answer[r]] ELSE records[id]
    BY <1>1, <1>3, StoreTyped DEF RunStored, Store!StoreRun, Store!Save, Store!TypeOK, IInv
  <2>. QED
    BY <1>1, <1>2, <2>1, <2>2 DEF ShownInv, Closed, Calls
\* In every other step the store keeps the records it has or loses them.
<1>4. ASSUME records' = records \/ DOMAIN records' = {},
             \A q \in Requests :
               \/ call'[q] = call[q]
               \/ call'[q].step = "inline" /\ call[q].step = "new" /\ call'[q].of = call[q].of
               \/ call'[q].step = "insert" /\ call[q].step = "inline" /\ call'[q].of = call[q].of
               \/ /\ call'[q].step = "saved" /\ call[q].step = "insert"
                  /\ call'[q].of = call[q].of /\ call'[q].held = call[q].held
               \/ call'[q].step \notin {"new", "inline", "insert", "saved"}
      PROVE  ShownInv'
  <2>1. \A id \in DOMAIN records' :
          call'[id].step = "ran" /\ records'[id].result = call'[id].got
    BY <1>1, <1>2, <1>4 DEF ShownInv, Closed
  <2>2. ASSUME NEW q \in Requests, call'[q].step \in {"insert", "saved"}, call'[q].of # q
        PROVE  call'[call'[q].of].step = "ran" /\ call'[call'[q].of].got = call'[q].held
    <3>1. /\ call[q].step \in {"insert", "saved"} /\ call'[q].of = call[q].of
          /\ call'[q].held = call[q].held
      BY <1>1, <1>4, <2>2 DEF ShownInv
    <3>2. call[q].of \in Requests
      BY <1>1 DEF Calls
    <3>. QED
      BY <1>1, <1>2, <2>2, <3>1, <3>2 DEF ShownInv, Closed
  <2>3. \A q \in Requests : call'[q].step \in {"new", "inline"} => call'[q].of = q
    BY <1>1, <1>4 DEF ShownInv
  <2>. QED
    BY <2>1, <2>2, <2>3 DEF ShownInv
<1>5. ASSUME NEW r \in Requests, NEW id \in Requests, Promote(r, id) PROVE ShownInv'
  <2>1. /\ call[r].step = "new" /\ records' = records
        /\ \A q \in Requests \ {r} : call'[q] = call[q]
    BY <1>1, <1>5 DEF Promote, storeVars
  <2>2. CASE id \notin DOMAIN records
    <3>1. call'[r].step = "error"
      BY <1>1, <1>5, <2>2 DEF Promote, Calls
    <3>. QED
      BY <1>4, <2>1, <3>1
  <2>3. CASE id \in DOMAIN records
    <3>1. /\ call'[r].step = "insert" /\ call'[r].of = id
          /\ call'[r].held = records[id].result
      BY <1>1, <1>5, <2>3 DEF Promote, Calls
    <3>2. /\ call'[id] = call[id] /\ call[id].step = "ran"
          /\ records[id].result = call[id].got
      BY <1>1, <1>2, <2>3 DEF ShownInv, Closed
    <3>. QED
      BY <1>1, <1>2, <2>1, <3>1, <3>2 DEF ShownInv, Closed, Calls
  <2>. QED
    BY <2>2, <2>3
<1>6. ASSUME NEW r \in Requests, NEW x \in Requests,
             \/ \E config \in Wanted : RunAsks(r, config) \/ InlineAsks(r, config)
             \/ RerunAsks(r, x) \/ Delete(r, x) \/ NotFound(r, x)
      PROVE  ShownInv'
  <2>1. /\ \A q \in Requests \ {r} : call'[q] = call[q]
        /\ \/ /\ call'[r].step = "inline" /\ call[r].step = "new"
              /\ call'[r].of = call[r].of
           \/ call'[r].step \in {"run", "rerun", "deleted", "error"}
    <3>1. CASE \E config \in Wanted : RunAsks(r, config) \/ InlineAsks(r, config)
      BY <1>1, <3>1 DEF RunAsks, InlineAsks, Goes, Calls
    <3>2. CASE RerunAsks(r, x)
      BY <1>1, <3>2 DEF RerunAsks, Calls
    <3>3. CASE Delete(r, x)
      BY <1>1, <3>3 DEF Delete, Calls
    <3>4. CASE NotFound(r, x)
      BY <1>1, <3>4 DEF NotFound, Goes, Calls
    <3>. QED
      BY <1>6, <3>1, <3>2, <3>3, <3>4
  <2>2. records' = records
    BY <1>6 DEF RunAsks, InlineAsks, RerunAsks, Delete, NotFound, Store!StartRun, storeVars
  <2>. QED
    BY <1>4, <2>1, <2>2
<1>7. ASSUME NEW r \in Requests,
             \/ RunAnswered(r) \/ RunFails(r) \/ InlineAnswered(r) \/ Insert(r)
             \/ InsertErrs(r) \/ RerunAnswered(r) \/ EngineErrs(r) \/ EngineWorks(r)
      PROVE  ShownInv'
  <2>1. records' = records
    BY <1>7 DEF RunAnswered, RunFails, InlineAnswered, Insert, InsertErrs, RerunAnswered,
                EngineErrs, EngineWorks, Store!AnswerRun, Store!FailRun, storeVars
  <2>2. CASE RunAnswered(r) \/ EngineWorks(r)
    BY <1>4, <2>1, <2>2 DEF RunAnswered, EngineWorks
  <2>3. CASE InlineAnswered(r)
    <3>1. /\ call[r].step = "inline" /\ call'[r].step = "insert" /\ call'[r].of = call[r].of
          /\ \A q \in Requests \ {r} : call'[q] = call[q]
      BY <1>1, <2>3 DEF InlineAnswered, Calls
    <3>. QED
      BY <1>4, <2>1, <3>1
  <2>4. CASE Insert(r)
    <3>1. /\ call[r].step = "insert" /\ call'[r].step = "saved"
          /\ call'[r].of = call[r].of /\ call'[r].held = call[r].held
          /\ \A q \in Requests \ {r} : call'[q] = call[q]
      BY <1>1, <2>4 DEF Insert, Goes, Calls
    <3>. QED
      BY <1>4, <2>1, <3>1
  <2>5. CASE RunFails(r) \/ InsertErrs(r) \/ EngineErrs(r) \/ RerunAnswered(r)
    <3>1. /\ call'[r].step \in {"error", "reran"}
          /\ \A q \in Requests \ {r} : call'[q] = call[q]
      BY <1>1, <2>5 DEF RunFails, InsertErrs, EngineErrs, RerunAnswered, Goes, Bare, Calls
    <3>. QED
      BY <1>4, <2>1, <3>1
  <2>. QED
    BY <1>7, <2>2, <2>3, <2>4, <2>5
<1>8. CASE ApiRestarts
  <2>1. DOMAIN records' = {}
    BY <1>8 DEF ApiRestarts, Store!Restart
  <2>2. \A q \in Requests : call'[q] = call[q] \/ call'[q].step = "lost"
    BY <1>1, <1>8 DEF ApiRestarts, Bare
  <2>. QED
    BY <1>4, <2>1, <2>2
<1>9. CASE (\E leg \in Engine!Legs : HistoryRevised(leg)) \/ BuildDeployed \/ UNCHANGED vars
  BY <1>4, <1>9 DEF HistoryRevised, BuildDeployed, vars, storeVars
<1>. QED
  BY <1>3, <1>5, <1>6, <1>7, <1>8, <1>9 DEF Next, Starts, Proceeds

\* The rows of the table change at an insert and at a delete only.
LEMMA RowsKept ==
  ASSUME IInv, [Next]_vars
  PROVE  RowsInv'
<1>1. RowsInv /\ call \in [Requests -> Calls]
  BY DEF IInv, CallInv
<1>2. ASSUME NEW r \in Requests,
             Insert(r) \/ (InsertErrs(r) /\ table' = WithRow(r, call[r].held))
      PROVE  RowsInv'
  <2>1. /\ call[r].step = "insert" /\ table' = WithRow(r, call[r].held)
        /\ \A q \in Requests \ {r} : call'[q] = call[q]
        /\ call'[r].step \in {"saved", "error"}
        /\ call'[r].step = "saved" => call'[r].held = call[r].held
    BY <1>1, <1>2 DEF Insert, InsertErrs, Goes, Bare, Calls
  <2>2. /\ r \in DOMAIN table' /\ table'[r] = call[r].held
        /\ \A e \in DOMAIN table \ {r} : e \in DOMAIN table' /\ table'[e] = table[e]
    BY <2>1 DEF WithRow
  <2>. QED
    BY <1>1, <2>1, <2>2 DEF RowsInv
<1>3. ASSUME NEW r \in Requests, NEW e \in Requests, Delete(r, e)
      PROVE  RowsInv'
  <2>1. /\ call[r].step = "new" /\ call'[r].step = "deleted" /\ call'[r].of = e
        /\ \A q \in Requests \ {r} : call'[q] = call[q]
        /\ \A x \in DOMAIN table \ {e} : x \in DOMAIN table' /\ table'[x] = table[x]
    BY <1>1, <1>3 DEF Delete, Calls
  <2>. QED
    BY <1>1, <2>1 DEF RowsInv
\* Every other step leaves the table alone, saves nothing and ends no delete.
<1>4. ASSUME table' = table,
             \A q \in Requests :
               \/ call'[q] = call[q]
               \/ call[q].step \notin {"saved", "deleted"} /\ call'[q].step # "saved"
      PROVE  RowsInv'
  BY <1>1, <1>4 DEF RowsInv
<1>5. ASSUME NEW r \in Requests, NEW x \in Requests,
             \/ \E config \in Wanted : RunAsks(r, config) \/ InlineAsks(r, config)
             \/ Promote(r, x) \/ RerunAsks(r, x) \/ NotFound(r, x)
      PROVE  RowsInv'
  <2>1. table' = table /\ call[r].step = "new"
    BY <1>5 DEF RunAsks, InlineAsks, Promote, RerunAsks, NotFound, Goes
  <2>2. \A q \in Requests \ {r} : call'[q] = call[q]
    BY <1>1, <1>5 DEF RunAsks, InlineAsks, Promote, RerunAsks, NotFound, Goes
  <2>3. call'[r].step \in {"run", "inline", "insert", "error", "rerun"}
    <3>1. CASE \E config \in Wanted : RunAsks(r, config) \/ InlineAsks(r, config)
      BY <1>1, <3>1 DEF RunAsks, InlineAsks, Goes, Calls
    <3>2. CASE Promote(r, x)
      BY <1>1, <3>2 DEF Promote, Calls
    <3>3. CASE RerunAsks(r, x)
      BY <1>1, <3>3 DEF RerunAsks, Calls
    <3>4. CASE NotFound(r, x)
      BY <1>1, <3>4 DEF NotFound, Goes, Calls
    <3>. QED
      BY <1>5, <3>1, <3>2, <3>3, <3>4
  <2>. QED
    BY <1>1, <1>4, <2>1, <2>2, <2>3
<1>6. ASSUME NEW r \in Requests,
             \/ RunAnswered(r) \/ RunStored(r) \/ RunFails(r) \/ InlineAnswered(r)
             \/ InsertErrs(r) /\ table' = table
             \/ RerunAnswered(r) \/ EngineErrs(r) \/ EngineWorks(r)
      PROVE  RowsInv'
  BY <1>1, <1>4, <1>6 DEF RunAnswered, RunStored, RunFails, InlineAnswered, InsertErrs,
       RerunAnswered, EngineErrs, EngineWorks, Goes, Bare, Calls
<1>7. CASE ApiRestarts
  BY <1>1, <1>4, <1>7 DEF ApiRestarts, Bare, Open
<1>8. CASE (\E leg \in Engine!Legs : HistoryRevised(leg)) \/ BuildDeployed \/ UNCHANGED vars
  BY <1>1, <1>4, <1>8 DEF HistoryRevised, BuildDeployed, vars
<1>. QED
  BY <1>2, <1>3, <1>5, <1>6, <1>7, <1>8 DEF Next, Starts, Proceeds, InsertErrs

-----------------------------------------------------------------------------
(* The invariant is inductive. *)

LEMMA InitIInv == Init => IInv
<1>. SUFFICES ASSUME Init PROVE IInv
  OBVIOUS
<1>. USE ServiceAssumption
<1>1. Kept!IInv
  BY StoreConstants, Kept!InitIInv DEF Init, Store!Init, Kept!Init
<1>2. Engine!TypeOK /\ JobInv
  BY DEF Init, Engine!Init, Engine!TypeOK, Engine!Jobs, Engine!Idle, Engine!Builds,
         Engine!Revisions, JobInv, Working
<1>3. SoundInv
  BY DEF Init, Store!Init, SoundInv
<1>4. CallInv /\ ShownInv /\ RowsInv
  BY DEF Init, Store!Init, CallInv, Holds, ShownInv, RowsInv, Bare, Calls, Open
<1>. QED
  BY <1>1, <1>2, <1>3, <1>4 DEF IInv

LEMMA StepIInv == IInv /\ [Next]_vars => IInv'
<1>. SUFFICES ASSUME IInv, [Next]_vars PROVE IInv'
  OBVIOUS
<1>1. Engine!TypeOK' /\ JobInv'
  BY StepIsOfTheEngine, EngineKept DEF IInv
<1>. QED
  BY <1>1, StoreKept, CallKept, SoundKept, ShownKept, RowsKept DEF IInv

\* The inductive invariant holds in every state the service can reach.
LEMMA Invariance == Spec => []IInv
BY InitIInv, StepIInv, PTL DEF Spec

-----------------------------------------------------------------------------
(* The theorems. *)

\* Type correctness of the store, the engine, the table and the requests.
THEOREM TypeCorrect == Spec => []TypeOK
<1>1. IInv => TypeOK
  BY StoreTyped DEF IInv, SoundInv, CallInv, Sound, TypeOK
<1>. QED
  BY <1>1, Invariance, PTL

\* Inside the service the backtest store behaves as it does by itself, so what is
\* proved of it by itself holds here (service.go calls it in no other way).
THEOREM UsesTheStore == Spec => Store!Spec
<1>1. Init => Store!Init
  BY DEF Init
<1>2. IInv /\ [Next]_vars => [Store!Next]_(Store!storeVars)
  <2>. SUFFICES ASSUME IInv, [Next]_vars PROVE [Store!Next]_(Store!storeVars)
    OBVIOUS
  <2>1. [Kept!Next]_storeVars
    BY StepIsOfTheStore
  <2>2. Kept!Next => Store!Next
    BY DEF Kept!Next, Store!Next, Kept!StartRun, Store!StartRun, Kept!FailRun, Store!FailRun,
           Kept!StoreRun, Store!StoreRun, Kept!AnswerRun, Store!AnswerRun, Kept!Restart,
           Store!Restart, Kept!Save, Store!Save, Kept!Listed, Store!Listed,
           Kept!Shortened, Store!Shortened, Kept!Evicted, Store!Evicted
  <2>. QED
    BY <2>1, <2>2 DEF storeVars, Store!storeVars
<1>. QED
  BY <1>1, <1>2, Invariance, PTL DEF Spec, Store!Spec

\* A save that was acknowledged is in the table as it was computed until a delete,
\* across restarts, deployments, revisions and evictions, and one promoted from the
\* session is what its run was answered with (experiment/service.go).
THEOREM SavesLast == Spec => []AcknowledgedSavesLast
<1>1. IInv => AcknowledgedSavesLast
  BY DEF IInv, ShownInv, RowsInv, AcknowledgedSavesLast
<1>. QED
  BY <1>1, Invariance, PTL

\* A rerun runs with the configuration that its experiment reports, whatever the
\* defaults of the build that runs it: but for a rate of zero, which is that build's
\* default (applyStoredConfig, and the JSON of the client).
THEOREM Replays == Spec => []StoredConfigReplayed
<1>1. IInv => StoredConfigReplayed
  <2>. SUFFICES ASSUME IInv, NEW r \in Requests, call[r].step = "reran",
                       NEW saved, saved = call[r].held, NEW rerun, rerun = call[r].got
                PROVE  rerun.config =
                         [saved.config EXCEPT !.settings.risk_free_rate =
                            IF @ = Zero THEN Default(rerun.build).risk_free_rate ELSE @]
    BY DEF StoredConfigReplayed
  <2>1. Sound(saved) /\ SameButRate(saved, rerun)
    BY DEF IInv, CallInv, Holds
  <2>2. saved.config \in Engine!Configs
    BY <2>1 DEF Sound, Engine!Results
  <2>3. WithRate(saved.config.settings, RateRun(saved.config.settings, rerun.build)) =
          [saved.config.settings EXCEPT !.risk_free_rate =
             RateRun(saved.config.settings, rerun.build)]
    BY <2>2 DEF Engine!Configs, Engine!Settings, WithRate
  <2>. QED
    BY <2>1, <2>2, <2>3 DEF SameButRate, RateRun, Engine!Configs, Engine!Settings
<1>. QED
  BY <1>1, Invariance, PTL

\* A rerun that reports the same source data and different metrics ran other code,
\* or its second leg was revised, or a rate of zero was saved and the default is
\* another one now: no change of any other default and no revision of the
\* instrument itself can be behind it (applyStoredConfig, compareRuns).
THEOREM Explained == Spec => []VerdictExplained
<1>1. IInv => VerdictExplained
  <2>. SUFFICES ASSUME IInv, NEW r \in Requests, Blames(r),
                       Code(call[r].held.build) = Code(call[r].got.build),
                       ~RateMoved(call[r].held, call[r].got)
                PROVE  /\ call[r].held.config.strategy = "pair"
                       /\ call[r].held.second # call[r].got.second
    BY DEF VerdictExplained
  <2>. DEFINE saved == call[r].held
              rerun == call[r].got
              settings == saved.config.settings
  <2>1. /\ Sound(saved) /\ Sound(rerun) /\ SameButRate(saved, rerun)
        /\ saved.data_version = rerun.data_version /\ saved.metrics # rerun.metrics
    BY DEF IInv, CallInv, Holds, Blames, DataVersionMatches, MetricsMatch
  <2>2. ~RateMoved(saved, rerun) /\ Code(saved.build) = Code(rerun.build)
    OBVIOUS
  <2>. HIDE DEF saved, rerun
  <2>3. saved.config \in Engine!Configs
    BY <2>1 DEF Sound, Engine!Results
  <2>4. WithRate(settings, RateRun(settings, rerun.build)) = settings
    <3>1. RateRun(settings, rerun.build) = settings.risk_free_rate
      BY <2>2 DEF RateMoved, RateRun
    <3>. QED
      BY <2>3, <3>1 DEF Engine!Configs, Engine!Settings, WithRate
  <2>5. rerun.config = saved.config
    BY <2>1, <2>3, <2>4 DEF SameButRate, Engine!Configs
  <2>6. /\ saved.metrics = Metrics(Code(saved.build), settings, saved.data_version,
                                   saved.second)
        /\ rerun.metrics = Metrics(Code(rerun.build), rerun.config.settings,
                                   rerun.data_version, rerun.second)
    BY <2>1 DEF Sound, Engine!Results
  <2>7. saved.second # rerun.second
    BY <2>1, <2>2, <2>5, <2>6
  <2>8. saved.config.strategy = "pair"
    BY <2>1, <2>5, <2>7 DEF Sound
  <2>. QED
    BY <2>7, <2>8 DEF saved, rerun
<1>. QED
  BY <1>1, Invariance, PTL
=============================================================================
