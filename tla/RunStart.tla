------------------------------- MODULE RunStart -------------------------------
(***************************************************************************)
(* How a training run comes to be: train_ppo_run (training/service.py)     *)
(* from the configuration file to the committed row, with the two readings *)
(* of the dataset on the way, the split, the checkpoint a resumed run      *)
(* continues from, and create_pending_run (training/persistence.py).       *)
(* Meanwhile a new release of the dataset may be imported and the source   *)
(* run may be cleaned away.                                                *)
(*                                                                         *)
(* The run then trains (PPOTraining) to its final checkpoint, without      *)
(* evaluations, early stopping or failures, which TrainingRun has.  The    *)
(* git state, the device requirements, the replay plan of the critic       *)
(* experiment and the fields of a walk-forward stage are left out.         *)
(***************************************************************************)
EXTENDS TradingEnvironment, EvaluationRow, MarketDataSplit

CONSTANT Requests       \* what is asked for, and of which database and disk

VARIABLES request,      \* [config, store, release, catalog, cleaned, ...]
          phase,        \* where train_ppo_run, and later the evaluation, is
          store, reader,    \* the disk and the reading of it: see MarketData
          catalog,      \* the rows of other runs: [runs, checkpoints, evaluations]
          start,        \* the locals of train_ppo_run: [entry, data, source]
          run,          \* the row of the new run, NoValue before its commit
          model, training   \* the model and its training loop: see PPOTraining

ppoVars == <<model, training>>

startVars == <<request, phase, store, reader, catalog, start, run, ppoVars>>

Config == INSTANCE RunConfig

Data == INSTANCE MarketData

Table == INSTANCE RunTables

Ppo == INSTANCE PPOTraining

(* Contents with one SHA-256 are one content, and a file with the one of a *)
(* checkpoint is the model its run saved.  Names are unique among runs,    *)
(* and a completed evaluation has its score (constraints of its table).    *)
ASSUME RequestAssumption ==
    \A r \in Requests :
        /\ r.store = [manifest |-> r.store.manifest, files |-> r.store.files]
        /\ ~Null(r.release) =>
               \A path \in DOMAIN r.store.files :
                   r.release.content.sha256 = r.store.files[path].sha256 =>
                       r.release.content = r.store.files[path]
        /\ \A q, s \in r.catalog.runs : q.name = s.name => q = s
        /\ \A s \in r.catalog.runs :
               {"window", "context", "position_side"} \subseteq DOMAIN s.config.environment
        /\ \A c \in r.catalog.checkpoints :
               /\ ~Null(c)
               /\ Ppo!ArtifactVerified(c, r.files) =>
                      LET file == r.files[c.id]
                      IN  /\ file.zip /\ file.num_timesteps = c.model_step
                          /\ \A s \in r.catalog.runs : c.run_id = s.id =>
                                 /\ file.policy = s.config.ppo.policy
                                 /\ file.spaces = Spaces(s.config.environment)
        /\ \A e \in r.catalog.evaluations :
               e.status = "completed" => {e.id, e.balanced_score} \subseteq Int

(* null is no range, no window, no number, no fraction and no kind of streak. *)
ASSUME NullAssumption ==
    LET Ranges  == [start : Int, end : Int]
        Windows == [data_rows : Int, train : Ranges, validation : Ranges \cup {NoValue}]
    IN  NoValue \notin Ranges \cup Windows \cup Int \cup (Int \X Int) \cup StreakTypes

(* Fields that are numbers, choices and names in any configuration that was *)
(* read, counts and names on the disk and in the tables, and a registered  *)
(* context.                                                                *)
ASSUME FieldsAssumption ==
    \A r \in Requests :
        LET config  == r.config
            context == config.environment.context
        IN  /\ config.continuation.mode \in {"fresh", "resume"}
            /\ NoValue \notin {config, config.run.name, config.data.path}
            /\ ValidSpecification(context)
            /\ {config.training.duration_amount, config.environment.window,
                config.ppo.n_steps, config.ppo.batch_size,
                config.evaluation.checkpoint_every_steps,
                config.evaluation.eval_every_steps} \subseteq Int
            /\ context.horizons \subseteq Int /\ IsFiniteSet(context.horizons)
            /\ ~Null(config.training_metrics) => config.training_metrics \in Nat \ {0}
            /\ ~Null(config.data.train_ratio) =>
                   config.data.train_ratio[1] \in Int /\ config.data.train_ratio[2] \in Nat \ {0}
            /\ \A range \in {config.data.train_range, config.data.validation_range} :
                   ~Null(range) => {range.start, range.end} \subseteq Int
            /\ ~Null(r.range) => {r.range.start, r.range.end} \subseteq Int
            /\ \A path \in DOMAIN r.store.files :
                   r.store.files[path].rows \in Int /\ ~Null(r.store.files[path].sha256)
            /\ ~Null(r.release) =>
                   r.release.content.rows \in Int /\ ~Null(r.release.content.sha256)
            /\ \A c \in r.catalog.checkpoints :
                   {c.run_step, c.model_step} \subseteq Int /\ ~Null(c.id)

-----------------------------------------------------------------------------
Environment == request.config.environment

Lookback == RequiredHistoryRows(Environment.context, Environment.window)

Batch == request.config.ppo.batch_size

Path == request.config.data.path

TrainRatio == request.config.data.train_ratio

SplitByTime == ~Null(request.config.data.train_range)

Continuation == request.config.continuation

Rows == start.data.rows

RunSplitIndex == SplitIndex(Rows, TrainRatio[1], TrainRatio[2])

(* range_indices: the available rows of a time range, which is given by    *)
(* the numbers its bounds would have in an unbounded dataset.              *)
Located(range) ==
    IF Null(range) THEN [start |-> 0, end |-> 0]
    ELSE [start |-> IF range.start < Rows THEN range.start ELSE Rows,
          end |-> IF range.end < Rows THEN range.end ELSE Rows]

TrainRange == Located(request.config.data.train_range)

ValidationRange == Located(request.config.data.validation_range)

(* _load_and_split_data.                                                   *)
SplitPossible ==
    IF SplitByTime
    THEN /\ ~Null(request.config.data.validation_range) =>
                ValidationRange.start < ValidationRange.end
         /\ TimeSplitAccepts(TrainRange, ValidationRange, Lookback, Batch,
                             request.config.data.alignment)
    ELSE /\ SplitAccepts(Rows, RunSplitIndex, Lookback)
         /\ WindowAccepts(ChronologicalSplit(Rows, RunSplitIndex, Lookback), Batch)

Split ==
    IF SplitByTime
    THEN LET train == TimeRangeSplit(TrainRange, Lookback, Batch, request.config.data.alignment)
             rows  == train.end - (train.start - Lookback)
         IN  [split_index |-> rows, train_rows |-> rows,
              validation_rows |-> ValidationRange.end - ValidationRange.start,
              training_start_index |-> Lookback - 1,
              steps_per_data_epoch |-> train.steps_per_data_epoch,
              window_metadata |->
                  [data_rows |-> Rows, train |-> [start |-> train.start, end |-> train.end],
                   validation |-> IF Null(request.config.data.validation_range) THEN NoValue
                                  ELSE ValidationRange]]
    ELSE LET aligned == BatchAligned(ChronologicalSplit(Rows, RunSplitIndex, Lookback), Batch)
         IN  [split_index |-> RunSplitIndex, train_rows |-> RunSplitIndex,
              validation_rows |-> aligned.validation_rows,
              training_start_index |-> aligned.training_start_index,
              steps_per_data_epoch |-> aligned.steps_per_data_epoch,
              window_metadata |-> NoValue]

RawSteps ==
    IF request.config.training.duration_unit = "data_epochs"
    THEN request.config.training.duration_amount * Split.steps_per_data_epoch
    ELSE request.config.training.duration_amount

RequestedSteps == AlignedDuration(RawSteps, Batch)

-----------------------------------------------------------------------------
(* _resolve_resume_source.                                                 *)
SourceRuns == {r \in catalog.runs : r.name = Continuation.source_run}

Scored(r) ==
    {e \in catalog.evaluations :
        /\ e.status = "completed" /\ e.data_scope = "run_validation"
        /\ \E c \in catalog.checkpoints : c.id = e.checkpoint_id /\ c.run_id = r.id}

(* Mutant: the latest evaluation, whatever it scored.                      *)
RanksLatest(e, f) == e.finished_at > f.finished_at \/ (e.finished_at = f.finished_at /\ e.id >= f.id)

(* balanced_score, finished_at and id, each descending.                    *)
Ranks(e, f) ==
    \/ e.balanced_score > f.balanced_score
    \/ /\ e.balanced_score = f.balanced_score
       /\ e.finished_at > f.finished_at \/ (e.finished_at = f.finished_at /\ e.id >= f.id)

Selects(selector, r, c) ==
    CASE selector.by = "final" -> c.run_id = r.id /\ c.save_reason = "final"
      [] selector.by = "best"  ->
             \E e \in Scored(r) : e.checkpoint_id = c.id /\ \A f \in Scored(r) : Ranks(e, f)
      [] selector.by = "id"    -> c.id = selector.id
      [] OTHER                 -> FALSE

Sources ==
    {c \in catalog.checkpoints :
        \E r \in SourceRuns :
            /\ Config!ConfigValid(Config!Persisted(r.config), ProbabilityUnit)
            /\ Config!ResumeCompatible(request.config, r.config)
            /\ Selects(Continuation.checkpoint, r, c)
            /\ c.run_id = r.id}

-----------------------------------------------------------------------------
NameAvailable == \A r \in catalog.runs : r.name # request.config.run.name

StartInit ==
    /\ request \in Requests
    /\ phase = "given"
    /\ store = request.store
    /\ reader = Data!Idle
    /\ catalog = request.catalog
    /\ start = [entry |-> NoValue, data |-> NoValue, source |-> NoValue]
    /\ run = NoValue
    /\ model = NoValue /\ training = NoValue

(* preflight_training_run_name and load_run_config, up to the data: an     *)
(* error before the row is committed leaves nothing behind.                *)
Configure ==
    /\ phase = "given"
    /\ phase' = IF NameAvailable /\ Config!ConfigValid(request.config, ProbabilityUnit)
                THEN "verifying" ELSE "rejected"
    /\ UNCHANGED <<request, store, reader, catalog, start, run, ppoVars>>

Read ==
    /\ \/ phase = "verifying" /\ Data!Verify(Path)
       \/ phase \in {"loading", "requested"} /\ Data!Load(Path)
    /\ UNCHANGED <<request, phase, catalog, start, run, ppoVars>>

ReadingFails ==
    /\ phase \in {"verifying", "loading"}
    /\ reader.stage = "refused"
    /\ phase' = "rejected"
    /\ UNCHANGED <<request, store, reader, catalog, start, run, ppoVars>>

(* load_run_config keeps the manifest's entry.                             *)
KeepEntry ==
    /\ phase = "verifying"
    /\ reader.stage = "verified"
    /\ start' = [start EXCEPT !.entry = reader.entry]
    /\ reader' = Data!Idle
    /\ phase' = "loading"
    /\ UNCHANGED <<request, store, catalog, run, ppoVars>>

KeepFrame ==
    /\ phase = "loading"
    /\ reader.stage = "loaded"
    /\ start' = [start EXCEPT !.data = reader.frame]
    /\ reader' = Data!Idle
    /\ phase' = "resolving"
    /\ UNCHANGED <<request, store, catalog, run, ppoVars>>

Schedule ==
    [total |-> RequestedSteps, n_steps |-> request.config.ppo.n_steps,
     checkpoint_every |-> request.config.evaluation.checkpoint_every_steps,
     eval_every |-> request.config.evaluation.eval_every_steps,
     training_mode |-> request.config.evaluation.training_mode]

(* The split, the source checkpoint, the duration in whole batches and the *)
(* boundaries in whole rollouts.                                           *)
Resolvable ==
    /\ SplitPossible
    /\ Continuation.mode = "resume" => Sources # {}
    /\ RequestedSteps >= 1
    /\ Ppo!ScheduleAccepted(Schedule)

Resolve ==
    /\ phase = "resolving"
    /\ IF Resolvable
       THEN /\ phase' = "creating"
            /\ start' = IF Continuation.mode = "fresh" THEN start
                        ELSE [start EXCEPT !.source = CHOOSE c \in Sources : TRUE]
       ELSE phase' = "rejected" /\ UNCHANGED start
    /\ UNCHANGED <<request, store, reader, catalog, run, ppoVars>>

PendingRun ==
    [name |-> request.config.run.name, status |-> "pending",
     continuation_mode |-> Continuation.mode,
     source_checkpoint_id |-> IF Null(start.source) THEN NoValue ELSE start.source.id,
     normalized_config_json |-> request.config,
     data_path |-> Path, data_sha256 |-> start.entry.sha256,
     duration_unit |-> request.config.training.duration_unit,
     duration_amount |-> request.config.training.duration_amount,
     split_index |-> Split.split_index, train_rows |-> Split.train_rows,
     validation_rows |-> Split.validation_rows,
     steps_per_data_epoch |-> Split.steps_per_data_epoch,
     training_steps_requested |-> RequestedSteps, training_steps_completed |-> 0,
     stopped_early |-> FALSE, early_stop_reason |-> FALSE,
     started |-> FALSE, finished |-> FALSE, error |-> FALSE,
     window_metadata |-> Split.window_metadata]

(* What create_pending_run compares before it inserts the row, and the     *)
(* unique name and the foreign key PostgreSQL checks.                      *)
RowsAgree ==
    start.entry.rows =
        IF SplitByTime THEN Split.window_metadata.data_rows
                       ELSE Split.train_rows + Split.validation_rows

SourceStillThere ==
    Null(start.source) \/
        /\ start.source \in catalog.checkpoints
        /\ \E r \in SourceRuns : r.id = start.source.run_id

CreateRun ==
    /\ phase = "creating"
    /\ IF NameAvailable /\ RowsAgree /\ SourceStillThere /\ Table!RunAllowed(PendingRun)
       THEN phase' = "created" /\ run' = PendingRun
       ELSE phase' = "rejected" /\ UNCHANGED run
    /\ UNCHANGED <<request, store, reader, catalog, start, ppoVars>>

(* The environment of the training accepts its rows, and the checkpoint to *)
(* continue from is on disk as it was saved.                               *)
Trainable == AcceptsStart(run.train_rows, Split.training_start_index, Lookback)

SourceLoads == Null(start.source) \/ 
        Ppo!ModelLoads(start.source, request.files, Spaces(Environment))

InitialModel ==
    IF Null(start.source) THEN Ppo!FreshModel(request.config.ppo, Spaces(Environment))
    ELSE Ppo!LoadedModel(start.source, request.files, request.config.ppo)

FailedRun ==
    [run EXCEPT !.status = "failed", !.started = TRUE, !.finished = TRUE, !.error = TRUE]

BeginTraining ==
    /\ phase = "created"
    /\ IF Trainable /\ SourceLoads
       THEN /\ phase' = "training"
            /\ run' = [run EXCEPT !.status = "running", !.started = TRUE]
            /\ Ppo!Begin(InitialModel, run.train_rows, Split.training_start_index, Schedule,
                         request.config.training_metrics)
       ELSE phase' = "failed" /\ run' = FailedRun /\ UNCHANGED ppoVars
    /\ UNCHANGED <<request, store, reader, catalog, start>>

CollectRollout ==
    /\ phase = "training"
    /\ Ppo!CollectRollout
    /\ UNCHANGED <<request, phase, store, reader, catalog, start, run>>

(* A segment ends: the progress and the checkpoint are written, and after  *)
(* the last one the run is completed and its final checkpoint can be       *)
(* evaluated.  A segment of another length fails the run.                  *)
ReachBoundary ==
    /\ phase = "training"
    /\ Ppo!SegmentEnded
    /\ IF Ppo!SegmentExact /\ Table!CheckpointsAllowed({Ppo!BoundaryCheckpoint}, {[id |-> 0]})
       THEN /\ Ppo!ReachBoundary
            /\ phase' = IF Ppo!IsFinal(Ppo!SegmentEnd) THEN "requested" ELSE "training"
            /\ run' = IF Ppo!IsFinal(Ppo!SegmentEnd)
                      THEN [run EXCEPT !.training_steps_completed = Ppo!SegmentEnd,
                                       !.status = "completed", !.finished = TRUE]
                      ELSE [run EXCEPT !.training_steps_completed = Ppo!SegmentEnd]
       ELSE phase' = "failed" /\ run' = FailedRun /\ UNCHANGED ppoVars
    /\ UNCHANGED <<request, store, reader, catalog, start>>

-----------------------------------------------------------------------------
(* The next release of the dataset arrives.                                *)
Import ==
    /\ ~Null(request.release)
    /\ \/ Data!ImportFile(Path, request.release.content)
       \/ Data!ImportManifest(request.release.manifest)
    /\ UNCHANGED <<request, phase, catalog, start, run, ppoVars>>

(* The row of the new run is not committed.                                *)
Uncommitted ==
    phase \in {"given", "verifying", "loading", "resolving", "creating", "rejected"}

(* The source run is cleaned away; the foreign key keeps one that a run    *)
(* continues.                                                              *)
CleanSource ==
    /\ request.cleaned
    /\ Uncommitted
    /\ SourceRuns # {}
    /\ \E r \in SourceRuns :
        LET mine == {c \in catalog.checkpoints : c.run_id = r.id}
        IN  catalog' = [runs |-> catalog.runs \ {r}, checkpoints |-> catalog.checkpoints \ mine,
                        evaluations |-> {e \in catalog.evaluations :
                                            \A c \in mine : e.checkpoint_id # c.id}]
    /\ UNCHANGED <<request, phase, store, reader, start, run, ppoVars>>

StartNext ==
    \/ Configure
    \/ Read
    \/ ReadingFails
    \/ KeepEntry
    \/ KeepFrame
    \/ Resolve
    \/ CreateRun
    \/ BeginTraining
    \/ CollectRollout
    \/ ReachBoundary
    \/ Import
    \/ CleanSource
=============================================================================
