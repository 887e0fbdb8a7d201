----------------------------- MODULE EvaluationRun -----------------------------
(***************************************************************************)
(* One evaluation of a checkpoint, from the request to the completed row:  *)
(* evaluate_run_validation_checkpoint (evaluation/service.py),             *)
(* run_ppo_evaluation (evaluation/runner.py) and the row transitions of    *)
(* evaluation/persistence.py, composed of the split that trained the       *)
(* checkpoint, the trading environment, the selector, the metrics and the  *)
(* table's constraints.                                                    *)
(*                                                                         *)
(* A request holds the archived configuration of the source run            *)
(* (request.config), the rows of its data, the definition of the           *)
(* evaluation, the time of the first observed bar, and the prices and the  *)
(* distances of bars (gaps) the market may show.  The market is not fixed  *)
(* in advance: every step chooses the next bar, and the probabilities the  *)
(* policy answers with.  Failures from outside (a crash, a lost            *)
(* connection) are modelled in TrainingRun.                                *)
(***************************************************************************)
EXTENDS RunStart

ASSUME MarketAssumption ==
    /\ Unit \in Nat \ {0}
    /\ \A r \in Requests :
        LET environment == r.config.environment
        IN  /\ r.prices \subseteq Nat \ {0} /\ \A p \in r.prices : Unit % p = 0
            /\ r.gaps \subseteq Nat \ {0}
            /\ r.first \in Int /\ environment.swapTime \in 0 .. DayTicks - 1
            /\ {"position_side", "fee", "swapLong", "swapShort", "swapTime", "forceClose"}
                 \subseteq DOMAIN environment
            /\ {environment.fee, environment.swapLong, environment.swapShort,
                environment.profitMult, environment.lossMult, environment.scale,
                environment.exposurePenalty, environment.turnoverPenalty,
                environment.drawdownPenalty} \subseteq Int
            /\ r.data_scope \in DataScopes /\ r.evaluation.policy_mode \in PolicyModes

ASSUME CatalogAssumption ==
    \A r \in Requests : Table!CheckpointsAllowed(r.catalog.checkpoints, r.catalog.runs)

Scores == INSTANCE EvaluationMetrics

VARIABLES row,          \* the evaluations row, NoValue before its commit
          frame,        \* the bars known so far, by local row number
          agent, always_long, always_short,  \* the three environments
          trace         \* the sequences run_ppo_evaluation collects

environments == <<agent, always_long, always_short>>

evaluationVars == <<row, frame, environments, trace>>

inputs == <<request, store, reader, catalog, start, run, ppoVars>>

vars == <<startVars, evaluationVars>>

-----------------------------------------------------------------------------
(* Mutant: only the rows are counted.                                      *)
SourceRowsMatch ==
    reader.frame.rows =
        IF Null(run.window_metadata) THEN run.train_rows + run.validation_rows
                                     ELSE run.window_metadata.data_rows

(* _load_source_market_data: the dataset of today is the one of the run.   *)
SourceDataMatches ==
    /\ reader.entry.sha256 = run.data_sha256
    /\ IF Null(run.window_metadata)
       THEN /\ reader.frame.rows = run.train_rows + run.validation_rows
            /\ run.split_index = run.train_rows
       ELSE reader.frame.rows = run.window_metadata.data_rows

(* The scored range [start, end) of the request's scope.                   *)
EvaluationRange ==
    IF request.data_scope = "run_training"
    THEN IF ~Null(run.window_metadata) THEN run.window_metadata.train
         ELSE [start |-> Lookback + ((run.split_index - Lookback) % Batch),
               end |-> run.split_index]
    ELSE IF ~Null(request.range) THEN request.range
    ELSE IF ~Null(run.window_metadata) THEN run.window_metadata.validation
    ELSE [start |-> run.split_index, end |-> reader.frame.rows]

(* The combinations of scope and range the service answers.                *)
ScopeAccepted ==
    /\ request.data_scope = "run_training" => Null(request.range)
    /\ ~Null(request.range) => request.data_scope # "run_validation"
    /\ request.data_scope # "run_training" /\ Null(request.range) /\ SplitByTime =>
           ~Null(request.config.data.validation_range)

RangeAccepted ==
    /\ 0 < EvaluationRange.start
    /\ EvaluationRange.start < EvaluationRange.end
    /\ EvaluationRange.end <= reader.frame.rows
    /\ EvaluationRange.start >= Lookback

(* _threshold_fields of persistence.py, before the row is built.           *)
DefinitionAccepted ==
    Config!PolicyFieldsValid(request.evaluation, ProbabilityUnit)

PendingRow ==
    [status |-> "pending", started |-> FALSE, finished |-> FALSE, error |-> FALSE,
     policy_mode |-> request.evaluation.policy_mode,
     threshold_action |-> request.evaluation.threshold_action,
     probability_threshold |-> request.evaluation.probability_threshold,
     data_scope |-> request.data_scope, data_sha256 |-> run.data_sha256,
     data_rows |-> reader.frame.rows,
     evaluation_start_index |-> EvaluationRange.start,
     evaluation_end_index |-> EvaluationRange.end,
     lookback_rows |-> Lookback,
     steps_expected |-> EvaluationRange.end - EvaluationRange.start,
     steps_completed |-> 0,
     metrics |-> NoValue]

RequestAccepted ==
    ScopeAccepted /\ RangeAccepted /\ DefinitionAccepted /\ RowAllowed(PendingRow)

-----------------------------------------------------------------------------
EmptyTrace ==
    [execution_indices |-> <<>>, agent_equity |-> <<>>, always_long_equity |-> <<>>,
     always_short_equity |-> <<>>, positions |-> <<>>, shaped_rewards |-> <<>>,
     step_swap_costs |-> <<>>, step_swap_events |-> <<>>, drawdowns |-> <<>>]

Init ==
    /\ StartInit
    /\ row = NoValue
    /\ frame = <<>>
    /\ agent = NoValue /\ always_long = NoValue /\ always_short = NoValue
    /\ trace = EmptyTrace

Start == StartNext /\ UNCHANGED evaluationVars

(* An error before the row is committed leaves nothing behind.             *)
Unreadable ==
    /\ phase = "requested"
    /\ reader.stage = "refused" \/ (reader.stage = "loaded" /\ ~SourceDataMatches)
    /\ phase' = "unreadable"
    /\ UNCHANGED <<inputs, evaluationVars>>

Answered(accepted) ==
    /\ phase = "requested"
    /\ reader.stage = "loaded" /\ SourceDataMatches
    /\ RequestAccepted = accepted
    /\ UNCHANGED inputs

Refuse ==
    /\ Answered(FALSE)
    /\ phase' = "refused"
    /\ UNCHANGED evaluationVars

(* create_pending_evaluation.                                              *)
CreatePending ==
    /\ Answered(TRUE)
    /\ phase' = "pending"
    /\ row' = PendingRow
    /\ UNCHANGED <<frame, environments, trace>>

(* mark_evaluation_running.                                                *)
MarkRunning ==
    /\ phase = "pending"
    /\ row.status = "pending"
    /\ phase' = "running"
    /\ row' = [row EXCEPT !.status = "running", !.started = TRUE]
    /\ UNCHANGED <<inputs, frame, environments, trace>>

(* The slice the three environments run on.                                *)
LocalRows == row.lookback_rows + row.steps_expected

LocalObservation == row.lookback_rows - 1

RunnerPrepares ==
    /\ model.spaces = Spaces(Environment)
    /\ AcceptsStart(LocalRows, LocalObservation, Lookback)
    /\ SelectorAccepts(row.policy_mode, Len(PositionTargets(Environment.position_side)),
                       row.threshold_action, row.probability_threshold)

(* run_ppo_evaluation up to its loop.                                      *)
Prepare ==
    /\ phase = "running"
    /\ RunnerPrepares
    /\ phase' = "stepping"
    /\ frame' = [i \in {LocalObservation} |-> [t |-> request.first, open |-> 1, close |-> 1]]
    /\ agent' = ResetState(LocalObservation)
    /\ always_long' = ResetState(LocalObservation)
    /\ always_short' = ResetState(LocalObservation)
    /\ UNCHANGED <<inputs, row, trace>>

(* fail_evaluation, called for any exception after the row was committed.  *)
Failed == [row EXCEPT !.status = "failed", !.started = TRUE, !.finished = TRUE, !.error = TRUE]

Fail ==
    /\ phase' = "failed"
    /\ row' = Failed
    /\ UNCHANGED <<inputs, frame, environments, trace>>

PrepareFails == phase = "running" /\ ~RunnerPrepares /\ Fail

-----------------------------------------------------------------------------
StepsDone == Len(trace.agent_equity)

(* What the loop checks after each step, for the agent a and the benchmarks *)
(* l and s.                                                                *)
RunnerAccepts(a, l, s) ==
    LET index == LocalObservation + StepsDone + 1
        last  == StepsDone + 1 = row.steps_expected
        local == row.evaluation_start_index - row.lookback_rows
    IN  /\ \A i \in {a.info, l.info, s.info} :
               /\ i.terminated = last
               /\ i.execution_index = index
        /\ local + a.info.execution_index = row.evaluation_start_index + StepsDone
        /\ a.info.execution_timestamp = l.info.execution_timestamp
        /\ l.info.execution_timestamp = s.info.execution_timestamp
        /\ l.info.execution_price = s.info.execution_price
        /\ l.info.close_price = s.info.close_price
        /\ l.info.fee_cost = s.info.fee_cost
        /\ l.info.swap_cost = Environment.swapLong * l.info.swap_events_on_step
        /\ s.info.swap_cost = Environment.swapShort * s.info.swap_events_on_step
        /\ Environment.swapLong > 0 /\ Environment.swapShort > 0 =>
               l.info.swap_events_on_step = s.info.swap_events_on_step

Recorded(a, l, s) ==
    [execution_indices |-> Append(trace.execution_indices,
         row.evaluation_start_index - row.lookback_rows + a.info.execution_index),
     agent_equity |-> Append(trace.agent_equity, a.info.equity),
     always_long_equity |-> Append(trace.always_long_equity, l.info.equity),
     always_short_equity |-> Append(trace.always_short_equity, s.info.equity),
     positions |-> Append(trace.positions, a.info.position_during_bar),
     shaped_rewards |-> Append(trace.shaped_rewards, a.info.reward),
     step_swap_costs |-> Append(trace.step_swap_costs, a.info.swap_cost),
     step_swap_events |-> Append(trace.step_swap_events, a.info.swap_events_on_step),
     drawdowns |-> Append(trace.drawdowns, a.info.drawdown)]

WithBar(bar) ==
    [i \in DOMAIN frame \cup {agent.current_index + 1} |->
        IF i \in DOMAIN frame THEN frame[i] ELSE bar]

(* One turn of the loop: the policy selects on the current observation,    *)
(* then the next bar is seen and the three environments step on it.        *)
StepOn(bar, action) ==
    LET market == WithBar(bar)
        side(name) == [Environment EXCEPT !.position_side = name]
        a == StepCore(agent, Environment, market, LocalRows, action)
        l == StepCore(always_long, side("long_only"), market, LocalRows, 1)
        s == StepCore(always_short, side("short_only"), market, LocalRows, 1)
    IN  IF RunnerAccepts(a, l, s)
        THEN /\ frame' = market
             /\ agent' = a.environment
             /\ always_long' = l.environment
             /\ always_short' = s.environment
             /\ trace' = Recorded(a, l, s)
             /\ UNCHANGED <<startVars, row>>
        ELSE Fail

Step ==
    /\ phase = "stepping"
    /\ StepsDone < row.steps_expected
    /\ \E d \in Distributions(Len(PositionTargets(Environment.position_side))) :
       \E action \in Selected(row.policy_mode, d, row.probability_threshold) :
       \E open, close \in request.prices, gap \in request.gaps :
           StepOn([t |-> frame[agent.current_index].t + gap, open |-> open, close |-> close],
                  action)

-----------------------------------------------------------------------------
(* calculate_evaluation_metrics and complete_evaluation.                   *)
Collected ==
    [agent_equity |-> trace.agent_equity,
     always_long_equity |-> trace.always_long_equity,
     always_short_equity |-> trace.always_short_equity,
     positions |-> trace.positions, shaped_rewards |-> trace.shaped_rewards,
     step_swap_costs |-> trace.step_swap_costs,
     step_swap_events |-> trace.step_swap_events,
     trade_events |-> agent.trade_events,
     open_position_return_at_end |->
         UnrealizedReturn(agent, frame[agent.current_index].close)]

CompletedRow ==
    [row EXCEPT !.status = "completed", !.finished = TRUE,
                !.steps_completed = StepsDone,
                !.metrics = Scores!Metrics(Collected)]

ResultAccepted == Scores!Accepted(Collected) /\ RowAllowed(CompletedRow)

Finish ==
    /\ phase = "stepping"
    /\ StepsDone = row.steps_expected
    /\ IF row.status = "running" /\ ResultAccepted
       THEN /\ phase' = "completed"
            /\ row' = CompletedRow
            /\ UNCHANGED <<inputs, frame, environments, trace>>
       ELSE Fail

Next ==
    \/ Start
    \/ Unreadable
    \/ Refuse
    \/ CreatePending
    \/ MarkRunning
    \/ Prepare
    \/ PrepareFails
    \/ Step
    \/ Finish

Spec == Init /\ [][Next]_vars

-----------------------------------------------------------------------------
(* Properties.                                                             *)

TradeEvents == IF StepsDone = 0 THEN <<>> ELSE agent.trade_events

ClosedTrades == Scores!Closes(TradeEvents)

SumOver(op(_), s) == MapThenSumSet(LAMBDA k : op(s[k]), DOMAIN s)

NetReturn(trades) == SumOver(LAMBDA ev : ev.net_return, trades)

TradeCost(trades) == SumOver(LAMBDA ev : ev.entry_fee + ev.close_fee + ev.swap_cost, trades)

(* The equity is what the closed trades netted, plus what the open position *)
(* would gross, less the fee and the rollovers it has paid; the benchmarks *)
(* trade once and pay the same fee; and the completed row says the same of *)
(* the whole evaluation in its own columns.                                *)
Reconciles ==
    LET open == IF agent.position = 0 THEN 0
                ELSE UnrealizedReturn(agent, frame[agent.current_index].close)
                     - agent.entry_fee_paid - agent.position_swap_cost
        m == row.metrics
    IN  /\ StepsDone > 0 =>
            /\ trace.agent_equity[StepsDone] = NetReturn(ClosedTrades) + open
            /\ Len(Scores!Opens(always_long.trade_events)) = 1
            /\ Environment.swapLong = 0 /\ Environment.swapShort = 0 =>
                 trace.always_long_equity[StepsDone] + trace.always_short_equity[StepsDone]
                   = - 2 * Environment.fee * Len(always_long.trade_events)
        /\ phase = "completed" =>
            /\ m.agent_return = m.net_profit_return + m.open_position_return_at_end
                 - (m.total_cost_return - TradeCost(ClosedTrades))
            /\ m.agent_max_drawdown = - Max({trace.drawdowns[k] : k \in 1 .. StepsDone})

(* A position pays for the rollovers after the bar that opened it, up to   *)
(* the bar that closed it, at the rate of its side, and the bars it is     *)
(* said to have been held are those it was exposed on.                     *)
ChargedExactly ==
    \A ev \in {ClosedTrades[k] : k \in DOMAIN ClosedTrades} :
        LET rate  == SwapRate(Environment, ev.position_before)
            ticks == (frame[ev.entry_index].t + 1) .. frame[ev.index].t
        IN  /\ ev.swap_cost =
                 rate * Cardinality({x \in ticks : SwapMinutes(x) = Environment.swapTime})
            /\ ev.swap_events * rate = ev.swap_cost
            /\ ev.bars_held = Cardinality(
                 {i \in ev.entry_index .. ev.index :
                    trace.positions[i - LocalObservation] = ev.position_before})

(* The books balance after every step and in the completed row, and every  *)
(* position has paid for exactly the rollovers it was held across, wherever *)
(* bars are missing.                                                       *)
Accounted == Reconciles /\ ChargedExactly

(* The checkpoint to continue from is no longer the file that was saved.   *)
SourceDamaged == ~Null(start.source) /\ ~Ppo!ArtifactVerified(start.source, request.files)

(* What the components accept agrees: whatever passes the validators of    *)
(* the configuration, the manifest, the split and create_pending_run       *)
(* satisfies the constraints of runs and trains; and the evaluation        *)
(* service, its runner, its metrics and the constraints of evaluations     *)
(* refuse nothing about such a run for a definition the validators accept, *)
(* whatever the market and the policy do.  An initial probability given to *)
(* LONG is that of an action which goes long.                              *)
EvaluationCompletes ==
    /\ phase = "creating" => Table!RunAllowed(PendingRun)
    /\ ~Null(run) => Trainable /\ Table!RunAllowed(run)
    /\ ~Null(model) /\ ~Null(model.favoured) =>
           PositionTargets(Environment.position_side)[model.favoured + 1] = 1
    /\ ~Null(row) => RowAllowed(row)
    /\ ~Null(run) /\ DefinitionAccepted /\ ScopeAccepted /\ Null(request.range)
          /\ Config!ActionSpaceValid(request.evaluation, Environment.position_side) =>
              (phase \in {"refused", "failed"} => SourceDamaged)

(* The rows of the dataset that training has executed.                     *)
Trained ==
    LET offset == IF SplitByTime THEN run.window_metadata.train.start - Lookback ELSE 0
    IN  {offset + r : r \in {x \in DOMAIN training.executed : training.executed[x] > 0}}

(* The rows an observation is computed from that the slice does not have.  *)
Missing ==
    ObservationRows(Environment.context, Environment.window, agent.current_index)
        \ (0 .. agent.current_index)

(* An evaluation of TRAIN scores only rows of TRAIN and, when training     *)
(* made a whole pass, the very rows it executed, whichever way the split   *)
(* was made; one of VALIDATION scores only later rows, up to the last; no  *)
(* observation reaches a row that does not exist yet or lies before the    *)
(* slice, but the first one when its window is the whole lookback: then    *)
(* the volume before the window is missing (required_history_rows counts   *)
(* the window itself, contexts.py:111, and vol_chg looks one row back).    *)
ScoredRows ==
    LET executed == {trace.execution_indices[k] : k \in DOMAIN trace.execution_indices}
    IN  /\ phase = "completed" /\ request.data_scope = "run_training" =>
               /\ Trained \subseteq executed
               /\ executed # Trained =>
                      run.training_steps_completed < run.steps_per_data_epoch
        /\ phase = "completed" /\ request.data_scope = "run_validation" =>
               /\ \A r \in executed, t \in Trained : t < r
               /\ ~SplitByTime => Rows - 1 \in executed
        /\ phase = "stepping" =>
               /\ Missing \subseteq {-1}
               /\ Missing # {} => StepsDone = 0 /\ Environment.window = Lookback

(* A run executes exactly the steps its row asks for, in rollouts of whole  *)
(* batches, however the boundaries of its schedule cut them: the passes    *)
(* over TRAIN go on across the boundaries, so no row is executed more than *)
(* once more than another, and a duration of n data epochs executes each   *)
(* row n times.  Every boundary leaves one checkpoint, and every interval  *)
(* of the metrics one snapshot within a rollout of it.                     *)
(* A run that fails before it trains continued a file that was damaged     *)
(* since: a source the configuration may resume has a model of the run's   *)
(* own observations and actions.                                           *)
TrainsExactly ==
    /\ ~Null(training) =>
         LET t      == training
             rows   == (t.start_index + 1) .. (t.rows - 1)
             visits == {t.executed[r] : r \in rows}
         IN  /\ \A k \in DOMAIN t.rollout_sizes :
                    /\ t.rollout_sizes[k] \in 1 .. request.config.ppo.n_steps
                    /\ t.rollout_sizes[k] % Batch = 0
             /\ SumOver(LAMBDA n : n, t.executed) = t.completed_steps + t.segment_steps
             /\ \A v, w \in visits : v - w <= 1
             /\ \A r \in DOMAIN t.executed \ rows : t.executed[r] = 0
             /\ Table!MetricsAllowed(t.metrics)
    /\ ~Null(run) /\ run.status = "completed" =>
         LET t     == training
             every == t.metrics_every
         IN  /\ SumOver(LAMBDA n : n, t.executed) = run.training_steps_requested
             /\ model.num_timesteps = run.training_steps_requested
                    + (IF Null(start.source) THEN 0 ELSE start.source.model_step)
             /\ run.duration_unit = "data_epochs" =>
                    \A r \in (t.start_index + 1) .. (t.rows - 1) :
                        t.executed[r] = run.duration_amount
             /\ {c.run_step : c \in t.checkpoints} = Ppo!EventSteps(Schedule)
             /\ Table!CheckpointsAllowed(t.checkpoints, {[id |-> 0]})
             /\ ~Null(every) =>
                    /\ \E m \in t.metrics : m.run_step = run.training_steps_requested
                    /\ \A due \in {n \in 1 .. run.training_steps_requested : n % every = 0} :
                          \E m \in t.metrics :
                              m.run_step \in due .. (due + request.config.ppo.n_steps - 1)
    /\ ~Null(run) /\ run.status = "failed" => SourceDamaged

(* The rows a process has loaded are those of the release whose SHA-256 it *)
(* has in hand, whenever the file and the manifest are replaced; and an    *)
(* evaluation scores the very release its run was trained on and names, or *)
(* nothing.                                                                *)
SameData ==
    /\ reader.stage = "loaded" => Data!Matches(reader.frame, reader.entry)
    /\ ~Null(row) => reader.frame = start.data /\ run.data_sha256 = reader.frame.sha256

(* What early stopping keeps of a source run: the first of its own best    *)
(* evaluations.                                                            *)
KeptBest(r) ==
    CHOOSE e \in Scored(r) :
        \A f \in Scored(r) : e.balanced_score > f.balanced_score
                           \/ (e.balanced_score = f.balanced_score /\ e.id <= f.id)

(* A resumed run continues a checkpoint that still exists, of the run its  *)
(* configuration names, from the very model it saved, and with the         *)
(* observations and actions of that policy; "best" is a checkpoint no      *)
(* completed validation of the source beats, and the one its early         *)
(* stopping kept when none of them ties.                                   *)
ResumeSound ==
    ~Null(run) /\ run.continuation_mode = "resume" =>
        \E r \in SourceRuns, c \in catalog.checkpoints :
            LET own    == {e \in Scored(r) : e.checkpoint_id = c.id}
                source == r.config.environment
            IN  /\ c.id = run.source_checkpoint_id /\ c.run_id = r.id
                /\ r.name # run.name
                /\ ~Null(model) => model.origin = c.sha256 /\ model.policy = r.config.ppo.policy
                /\ PositionTargets(source.position_side)
                      = PositionTargets(Environment.position_side)
                /\ RequiredHistoryRows(source.context, source.window) = Lookback
                /\ Continuation.checkpoint.by = "best" =>
                     /\ \A f \in Scored(r) : \E e \in own : e.balanced_score >= f.balanced_score
                     /\ (\A e, f \in Scored(r) : e.balanced_score = f.balanced_score => e = f)
                          => KeptBest(r).checkpoint_id = c.id

(* The calendar the agent sees agrees with the market: a bar outside       *)
(* trading hours lies in the one maximal closed span between a close and   *)
(* an open, across nights, weekends and date changes; and the warning      *)
(* before a rollover is on exactly when one is due within its window.      *)
CalendarSound ==
    \A t \in {frame[i].t : i \in DOMAIN frame} :
        LET span == OvernightSpan(t)
            swapTime == Environment.swapTime
        IN  /\ ~InRth(t) =>
                   /\ span.start < t /\ t < span.end
                   /\ InRth(span.start) /\ InRth(span.end)
                   /\ \A x \in (span.start + 1) .. (span.end - 1) : ~InRth(x)
            /\ PreSwapActive(t, swapTime) <=>
                   \E x \in t .. (t + PreSwapTicks) : SwapMinutes(x) = swapTime
            /\ PreSwapActive(t, swapTime) =>
                   SwapMinutes(t + PreSwapTicks - PreSwapElapsed(t, swapTime)) = swapTime
=============================================================================
