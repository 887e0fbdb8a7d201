--------------------------- MODULE MCEvaluationRun ---------------------------
(***************************************************************************)
(* A small instance of EvaluationRun: days of six ticks, two prices, and   *)
(* families of requests that each explore one part of a run's way from its *)
(* configuration to the scored row.                                        *)
(***************************************************************************)
EXTENDS EvaluationRun

NoRange == NoValue

Contexts ==
    {[horizons |-> {}, window_features |-> {"direction"}, rolling_features |-> {},
      include_time_features |-> FALSE],
     [horizons |-> {1, 2}, window_features |-> {"direction", "vol_chg"},
      rolling_features |-> {"log_return", "close_vs_sma"}, include_time_features |-> TRUE]}

Plain == CHOOSE ctx \in Contexts : ctx.horizons = {}

Deep == CHOOSE ctx \in Contexts : ctx.horizons # {}

EnvironmentOf(side, ctx, swapLong, swapShort, swapTime, forceClose) ==
    [position_side |-> side, context |-> ctx, window |-> 1, fee |-> 1,
     swapLong |-> swapLong, swapShort |-> swapShort, swapTime |-> swapTime,
     forceClose |-> forceClose, profitMult |-> 1, lossMult |-> 2, scale |-> 1,
     exposurePenalty |-> 1, turnoverPenalty |-> 0, drawdownPenalty |-> 1]

Policy(mode, action, threshold) ==
    [policy_mode |-> mode, threshold_action |-> action, probability_threshold |-> threshold,
     training_mode |-> "none", checkpoint_every_steps |-> 9, eval_every_steps |-> 9]

Sampled == Policy("stochastic_sample", NoValue, NoValue)

DataByRatio(ratio) ==
    [path |-> "nq", alignment |-> "trim_start",
     train_ratio |-> ratio, train_range |-> NoValue, validation_range |-> NoValue]

DataByTime(train, validation) ==
    [path |-> "nq", alignment |-> "trim_start",
     train_ratio |-> NoValue, train_range |-> train, validation_range |-> validation]

(* A release of the dataset: the file and the manifest that names it.      *)
Content(sha, rows) ==
    [sha256 |-> sha, size_bytes |-> rows, rows |-> rows, first |-> 0, last |-> 5 * rows,
     schema |-> TRUE]

Accepting(accepted, mode, at) ==
    [required |-> accepted # NoValue, accepted |-> accepted, mode |-> mode, accepted_at |-> at]

Manifest(content, warnings, acceptance) ==
    [structural_error_count |-> 0, warning_event_count |-> warnings,
     warning_counts |-> [gap |-> warnings, spike |-> 0],
     status |-> IF warnings = 0 THEN "published" ELSE "published_with_warnings",
     validation |-> IF warnings = 0 THEN "passed" ELSE "passed_with_warnings",
     acceptance |-> acceptance,
     files |-> {[path |-> "nq", interval |-> 5, approved |-> TRUE, sha256 |-> content.sha256,
                 size_bytes |-> content.size_bytes, rows |-> content.rows,
                 first |-> content.first, last |-> content.last]}]

Clean(content) == Manifest(content, 0, Accepting(NoValue, "not_required", NoValue))

Store(content, manifest) == [files |-> [p \in {"nq"} |-> content], manifest |-> manifest]

Published(rows) == Store(Content("a", rows), Clean(Content("a", rows)))

Release(content) == [content |-> content, manifest |-> Clean(content)]

NoRuns == [runs |-> {}, checkpoints |-> {}, evaluations |-> {}]

Market(prices, gaps) == [prices |-> prices, gaps |-> gaps]

Moving == Market({1, 2}, {1, 5})

Quiet == Market({1}, {1})

Fresh == [mode |-> "fresh"]

Epoch == [duration_unit |-> "data_epochs", duration_amount |-> 1]

ConfigOf(name, continuation, duration, data, batch, environment) ==
    [run |-> [name |-> name], continuation |-> continuation, training |-> duration,
     data |-> data, environment |-> environment,
     ppo |-> [n_steps |-> batch, batch_size |-> batch, policy |-> "mlp",
              initial_long_probability |-> NoValue],
     training_metrics |-> NoValue,
     evaluation |-> [Sampled EXCEPT !.training_mode =
         IF data.train_range # NoValue /\ data.validation_range = NoValue
         THEN "none" ELSE "final_only"]]

Request(rows, data, batch, environment, evaluation, scope, range, first, market) ==
    [config |-> ConfigOf("new", Fresh, Epoch, data, batch, environment),
     store |-> Published(rows), release |-> NoValue, catalog |-> NoRuns, cleaned |-> FALSE,
     files |-> <<>>,
     data_scope |-> scope, range |-> range, first |-> first,
     prices |-> market.prices, gaps |-> market.gaps, evaluation |-> evaluation]

(* Three validation steps under every side, end and rate.                  *)
Trades ==
    {Request(6, DataByRatio(<<1, 2>>), 2,
             EnvironmentOf(side, Plain, 1, 0, 1, forceClose), Sampled,
             "run_validation", NoRange, 5, Moving)
        : side \in {"short_only", "long_short"}, forceClose \in BOOLEAN}
    \cup {Request(6, DataByRatio(<<1, 2>>), 2,
             EnvironmentOf("long_only", Plain, 0, 0, 1, forceClose), Sampled,
             "run_validation", NoRange, 5, Moving) : forceClose \in BOOLEAN}

(* Every tick of a week and its neighbours as the first bar, one step.     *)
Calendar ==
    {Request(6, DataByRatio(<<5, 6>>), 2,
             EnvironmentOf("short_only", Deep, 1, 1, swapTime, FALSE),
             Policy("deterministic_argmax", NoValue, NoValue),
             "run_validation", NoRange, first, Market({1, 2}, {1, 15}))
        : first \in 0 .. (8 * DayTicks), swapTime \in {0, 4}}

(* Splits, scopes and selectors, those the program refuses included.       *)
Splits ==
    {DataByRatio(<<2, 3>>), DataByRatio(<<5, 7>>), DataByRatio(<<1, 7>>),
     DataByTime([start |-> 0, end |-> 5], [start |-> 5, end |-> 7]),
     DataByTime([start |-> 3, end |-> 6], NoValue)}

Definitions ==
    {Request(7, [data EXCEPT !.alignment = alignment], batch,
             EnvironmentOf("long_only", ctx, 1, 1, 1, FALSE),
             Policy("deterministic_argmax", NoValue, NoValue), scope, range, 0, Quiet)
        : data \in Splits, batch \in {2, 3}, ctx \in Contexts,
          scope \in {"run_validation", "run_training", "custom_range"},
          range \in {NoValue, [start |-> 4, end |-> 6]},
          alignment \in {"trim_start", "prepend"}}

Selectors ==
    {Request(7, DataByRatio(<<5, 6>>), 2, EnvironmentOf(side, Deep, 1, 1, 1, TRUE),
             Policy("probability_threshold", action, threshold),
             "run_validation", NoRange, 0, Moving)
        : side \in Sides, action \in {NoValue, 1}, threshold \in {NoValue, 0, 1, 2}}

Simple ==
    Request(6, DataByRatio(<<1, 2>>), 2, EnvironmentOf("long_only", Plain, 1, 1, 1, FALSE),
            Policy("deterministic_argmax", NoValue, NoValue), "run_validation", NoRange, 0, Quiet)

(* A new release with as many rows, with more, or with none of the first   *)
(* half, imported at any moment, for either split.                         *)
Imports ==
    {[Simple EXCEPT !.release = Release(content), !.config.data = data]
        : content \in {Content("b", 6), [Content("b", 6) EXCEPT !.size_bytes = 7],
                       Content("b", 7), Content("b", 3)},
          data \in {DataByRatio(<<1, 2>>),
                    DataByTime([start |-> 0, end |-> 4], [start |-> 4, end |-> 9])}}

(* Manifests that approve the file, and others.                            *)
Manifests ==
    LET content == Content("a", 6)
        settled == Manifest(content, 2, Accepting(TRUE, "cli_flag", 1))
    IN  {[Simple EXCEPT !.store = Store(content, m)] : m \in
            {settled,
             Manifest(content, 2, Accepting(FALSE, "interactive", 1)),
             Manifest(content, 2, Accepting(NoValue, "not_required", NoValue)),
             Manifest(content, 0, Accepting(TRUE, "cli_flag", 1)),
             [settled EXCEPT !.warning_event_count = 1],
             [settled EXCEPT !.structural_error_count = 1],
             [settled EXCEPT !.files = {}],
             [settled EXCEPT !.files = {[e EXCEPT !.approved = FALSE] : e \in @}],
             [settled EXCEPT !.files = @ \cup {[e EXCEPT !.rows = 5] : e \in @}],
             [settled EXCEPT !.files = {[e EXCEPT !.last = 31] : e \in @}],
             [settled EXCEPT !.files = {[e EXCEPT !.path = "es"] : e \in @}],
             [settled EXCEPT !.files = {[e EXCEPT !.rows = 5] : e \in @}]}}

(* Durations around a batch of two, and names.                             *)
Durations ==
    {[Simple EXCEPT !.config.training = [duration_unit |-> unit, duration_amount |-> amount],
                    !.config.run.name = name,
                    !.catalog.runs = {[id |-> 1, name |-> "old", config |-> Simple.config]}]
        : unit \in {"data_epochs", "timesteps"}, amount \in 0 .. 3, name \in {"new", "old"}}
    \cup {[Simple EXCEPT !.config.environment = environment] : environment \in
            {[Simple.config.environment EXCEPT !.swapLong = -1],
             [Simple.config.environment EXCEPT !.scale = 0]}}

(* Runs that continue a checkpoint of the run "old", which has two         *)
(* periodic ones and a final one, evaluated in that order; the first is    *)
(* also evaluated by hand, and another run has a checkpoint of its own.    *)
Checkpoint(id, owner, step, reason) ==
    [id |-> id, run_id |-> owner, run_step |-> step, model_step |-> step, save_reason |-> reason,
     sha256 |-> id, size_bytes |-> 1]

(* The files of the four checkpoints: whole, cold or damaged.              *)
Saved ==
    [id \in 1 .. 4 |-> [sha256 |-> id, size_bytes |-> 1, zip |-> TRUE, policy |-> "mlp",
                        spaces |-> Spaces(EnvironmentOf("long_only", Plain, 1, 1, 1, FALSE)),
                        num_timesteps |-> <<2, 4, 6, 6>>[id]]]

Damages ==
    {Saved, [id \in {1, 4} |-> Saved[id]], [Saved EXCEPT ![2].size_bytes = 2],
     [Saved EXCEPT ![2].sha256 = 9]}

Evaluated(id, checkpoint, scope, status, score, finished) ==
    [id |-> id, checkpoint_id |-> checkpoint, data_scope |-> scope, status |-> status,
     balanced_score |-> score, finished_at |-> finished]

OldConfig(side) ==
    LET config == ConfigOf("old", Fresh, Epoch, DataByRatio(<<1, 2>>), 2,
                           EnvironmentOf(side, Plain, 1, 1, 1, FALSE))
        common == (DOMAIN config.environment \ {"swapLong", "swapShort"}) \cup {"swap"}
    IN  [config EXCEPT !.environment =
            [f \in common |-> IF f = "swap" THEN 1 ELSE config.environment[f]]]

Catalog(side, first, second, last) ==
    [runs |-> {[id |-> 1, name |-> "old", config |-> OldConfig(side)],
               [id |-> 2, name |-> "other", config |-> [OldConfig(side) EXCEPT !.run.name = "other"]]},
     checkpoints |-> {Checkpoint(1, 1, 2, "periodic"), Checkpoint(2, 1, 4, "periodic"),
                      Checkpoint(3, 1, 6, "final"), Checkpoint(4, 2, 6, "final")},
     evaluations |-> {Evaluated(1, 1, "run_validation", "completed", first, 1),
                      Evaluated(2, 2, "run_validation", "completed", second, 2),
                      Evaluated(3, 3, "run_validation", "completed", last, 3),
                      Evaluated(4, 3, "run_validation", "failed", NoValue, 4),
                      Evaluated(5, 1, "run_training", "completed", 9, 4),
                      Evaluated(6, 4, "run_validation", "completed", 9, 5)}]

Selector(by) == [by |-> by]

Resumes ==
    {[Simple EXCEPT
        !.config.continuation = [mode |-> "resume", source_run |-> source, checkpoint |-> selector],
        !.catalog = Catalog(side, first, second, last),
        !.cleaned = TRUE,
        !.files = Saved]
        : source \in {"old", "gone"}, side \in {"long_only", "short_only"},
          selector \in {Selector("best"), Selector("final"), Selector("latest"),
                        [by |-> "id", id |-> 2], [by |-> "id", id |-> 4]},
          first \in {1, 2}, second \in {1, 2}, last \in {0, 1}}

(* The second checkpoint continued from whatever file there is, and with   *)
(* other observations and actions.                                         *)
Continued ==
    {[Simple EXCEPT
        !.config.continuation = [mode |-> "resume", source_run |-> "old",
                                 checkpoint |-> [by |-> "id", id |-> 2]],
        !.config.ppo.n_steps = n_steps,
        !.catalog = Catalog("long_only", 1, 2, 0),
        !.files = files] : files \in Damages, n_steps \in {2, 4}}
    \cup {[Simple EXCEPT
        !.config.continuation = [mode |-> "resume", source_run |-> "old",
                                 checkpoint |-> [by |-> "id", id |-> 2]],
        !.store = Published(8), !.config.data = DataByRatio(<<3, 4>>),
        !.config.environment = [EnvironmentOf(side, ctx, 1, 1, 1, FALSE) EXCEPT !.window = window],
        !.catalog = Catalog("long_only", 1, 2, 0),
        !.files = Saved] : side \in Sides, ctx \in Contexts, window \in {1, 2}}

(* Passes over six of eight rows cut by every schedule, with and without   *)
(* metrics, and too short intervals.                                       *)
Schedules ==
    {[Simple EXCEPT
        !.store = Published(9),
        !.data_scope = scope,
        !.config.data = data,
        !.config.training = duration,
        !.config.ppo.n_steps = 4,
        !.config.ppo.initial_long_probability = 1,
        !.config.training_metrics = metrics,
        !.config.evaluation.training_mode = mode,
        !.config.evaluation.checkpoint_every_steps = checkpointEvery,
        !.config.evaluation.eval_every_steps = evalEvery]
        : data \in {DataByRatio(<<8, 9>>), DataByTime([start |-> 0, end |-> 8], [start |-> 8, end |-> 9])},
          duration \in {[duration_unit |-> "data_epochs", duration_amount |-> 3],
                        [duration_unit |-> "timesteps", duration_amount |-> 11],
                        [duration_unit |-> "timesteps", duration_amount |-> 5]},
          scope \in {"run_training", "run_validation"},
          metrics \in {NoValue, 3, 5}, mode \in {"final_only", "scheduled"},
          checkpointEvery \in {3, 4, 9}, evalEvery \in {5, 8}}

(* A window as long as the history of every horizon, and around it.        *)
LongWindows ==
    {[Simple EXCEPT !.store = Published(9), !.config.data = DataByRatio(<<8, 9>>),
                    !.config.environment.context = Deep,
                    !.config.environment.window = window] : window \in {2, 3, 4}}

MCRequests ==
    Trades \cup Calendar \cup Definitions \cup Selectors \cup Imports \cup Manifests
        \cup Durations \cup Resumes \cup Continued \cup Schedules \cup LongWindows
=============================================================================
