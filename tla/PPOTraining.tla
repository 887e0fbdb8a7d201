----------------------------- MODULE PPOTraining -----------------------------
(***************************************************************************)
(* How a PPO model is trained over the schedule of its run: the periodic   *)
(* boundaries (training/scheduling.py), the segments between them, each    *)
(* learned in rollouts of an exact length (training/execution.py), the     *)
(* checkpoints and metric snapshots written on the way (training/          *)
(* service.py, ppo/, checkpoints/persistence.py), and the model itself,    *)
(* new or loaded from a verified file (ppo/adapter.py, checkpoints/).      *)
(*                                                                         *)
(* What the steps earn and what an update learns is left out: here the     *)
(* rows they execute are counted.  An environment of a given number of     *)
(* rows executes from the row after its start index to its last row, and   *)
(* is reset to the start index then (the automatic reset of the vectorised *)
(* environment).  Failures from outside, the evaluations at the boundaries *)
(* and early stopping are in TrainingRun.                                  *)
(***************************************************************************)
EXTENDS FiniteSetsExt, Functions, Integers, Sequences

CONSTANT NoValue

VARIABLES model,        \* the PPO object, NoValue before it exists
          training      \* the locals of the training loop, NoValue before it

ppoVars == <<model, training>>

-----------------------------------------------------------------------------
(* resolve_periodic_interval: whole rollouts, at least one.                *)
IntervalAccepted(every, n_steps) == every >= n_steps

ResolvedInterval(every, n_steps) == every - (every % n_steps)

Periodic(every, total) == {step \in 1 .. total - 1 : step % every = 0}

(* The boundaries of a schedule [total, checkpoint_every, eval_every,      *)
(* n_steps, training_mode]: the evaluation boundaries only when            *)
(* evaluations are scheduled, and always the end.                          *)
ScheduleAccepted(s) ==
    /\ IntervalAccepted(s.checkpoint_every, s.n_steps)
    /\ IntervalAccepted(s.eval_every, s.n_steps)

CheckpointSteps(s) == Periodic(ResolvedInterval(s.checkpoint_every, s.n_steps), s.total)

EventSteps(s) ==
    CheckpointSteps(s) \cup {s.total}
        \cup {step \in Periodic(ResolvedInterval(s.eval_every, s.n_steps), s.total) :
                  s.training_mode = "scheduled"}

-----------------------------------------------------------------------------
(* _initialize_long_action_probability favours the second action.          *)
FavouredAction == 1

(* create_ppo_model.                                                       *)
FreshModel(ppo, spaces) ==
    [origin |-> NoValue, num_timesteps |-> 0, policy |-> ppo.policy, spaces |-> spaces,
     favoured |-> IF ppo.initial_long_probability = NoValue THEN NoValue ELSE FavouredAction,
     n_steps |-> ppo.n_steps, batch_size |-> ppo.batch_size]

(* resolve_checkpoint_artifact: the file is there and is the one recorded. *)
ArtifactVerified(c, files) ==
    /\ c.id \in DOMAIN files
    /\ files[c.id].size_bytes = c.size_bytes
    /\ files[c.id].sha256 = c.sha256

(* load_ppo_model_file and load_persisted_ppo_checkpoint: PPO.load refuses  *)
(* a model of other spaces than its environment's.                         *)
ModelLoads(c, files, spaces) ==
    /\ ArtifactVerified(c, files)
    /\ files[c.id].zip
    /\ files[c.id].spaces = spaces
    /\ files[c.id].num_timesteps = c.model_step

(* The policy and its weights come from the file; ppo_resume_custom_objects *)
(* takes the settings of the training from the new configuration.          *)
LoadedModel(c, files, ppo) ==
    [origin |-> files[c.id].sha256, num_timesteps |-> files[c.id].num_timesteps,
     policy |-> files[c.id].policy, spaces |-> files[c.id].spaces, favoured |-> NoValue,
     n_steps |-> ppo.n_steps, batch_size |-> ppo.batch_size]

-----------------------------------------------------------------------------
(* The rows of an environment and the one it observes at first; the        *)
(* schedule; how often a metric snapshot is due, NoValue when they are     *)
(* disabled.                                                               *)
Begin(new, rows, first, schedule, metricsEvery) ==
    /\ model' = new
    /\ training' =
         [rows |-> rows, start_index |-> first, schedule |-> schedule,
          metrics_every |-> metricsEvery, model_steps_before |-> new.num_timesteps,
          current_index |-> first, executed |-> [r \in 0 .. rows - 1 |-> 0],
          completed_steps |-> 0, segment_steps |-> 0, rollout_sizes |-> <<>>,
          checkpoints |-> {}, metrics |-> {},
          next_metric_step |-> metricsEvery]

RunSteps == training.completed_steps + training.segment_steps

SegmentEnd == Min({e \in EventSteps(training.schedule) : e > training.completed_steps})

IsFinal(step) == step = training.schedule.total

(* learn_ppo_exact_timesteps: the last rollout of a segment may be shorter. *)
RolloutSteps == Min({model.n_steps, SegmentEnd - RunSteps})

(* The index an environment observes after each of n steps.                *)
Observed(n) ==
    LET observed[k \in 0 .. n] ==
            IF k = 0 THEN training.current_index
            ELSE IF observed[k - 1] + 1 >= training.rows - 1 THEN training.start_index
            ELSE observed[k - 1] + 1
    IN  observed

(* report_training_update: a snapshot when one is due, and at the end.     *)
MetricDue(step) ==
    /\ training.metrics_every # NoValue
    /\ step >= training.next_metric_step \/ IsFinal(step)

Metric(step, steps) ==
    [run_step |-> step, model_step |-> model.num_timesteps + steps,
     rollout_number |-> Len(training.rollout_sizes) + 1]

NextMetricStep(step) ==
    IF training.metrics_every = NoValue \/ step < training.next_metric_step
    THEN training.next_metric_step
    ELSE (step - (step % training.metrics_every)) + training.metrics_every

CollectRollout ==
    /\ RunSteps < SegmentEnd
    /\ LET steps    == RolloutSteps
           observed == Observed(steps)
           step     == RunSteps + steps
       IN  /\ model' = [model EXCEPT !.num_timesteps = @ + steps]
           /\ training' =
                [training EXCEPT
                   !.current_index = observed[steps],
                   !.executed = [r \in DOMAIN @ |->
                       @[r] + Cardinality({k \in 0 .. steps - 1 : observed[k] + 1 = r})],
                   !.segment_steps = @ + steps,
                   !.rollout_sizes = Append(@, steps),
                   !.metrics = IF MetricDue(step) THEN @ \cup {Metric(step, steps)} ELSE @,
                   !.next_metric_step = NextMetricStep(step)]

SegmentEnded == RunSteps >= SegmentEnd

(* What train_ppo_run checks of a segment before it goes on.               *)
SegmentExact ==
    /\ RunSteps = SegmentEnd
    /\ model.num_timesteps = training.model_steps_before + RunSteps

(* persist_ppo_checkpoint at the boundary.                                 *)
BoundaryCheckpoint ==
    [id |-> SegmentEnd, run_id |-> 0, run_step |-> RunSteps,
     model_step |-> model.num_timesteps,
     save_reason |-> IF IsFinal(SegmentEnd) THEN "final" ELSE "periodic"]

(* Mutant: the environment is reset before the next segment.               *)
NextSegmentReset ==
    [training EXCEPT !.completed_steps = SegmentEnd, !.segment_steps = 0,
                     !.checkpoints = @ \cup {BoundaryCheckpoint},
                     !.current_index = training.start_index]

(* The next segment continues where the environment stands.                *)
NextSegment ==
    [training EXCEPT !.completed_steps = SegmentEnd, !.segment_steps = 0,
                     !.checkpoints = @ \cup {BoundaryCheckpoint}]

ReachBoundary ==
    /\ training' = NextSegment
    /\ UNCHANGED model
=============================================================================
