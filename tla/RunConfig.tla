------------------------------ MODULE RunConfig ------------------------------
(***************************************************************************)
(* What a run configuration may say (src/train_and_eval/run_config.py):    *)
(* the validators that relate fields to each other, and the fields a       *)
(* resumed run may not change.  A field whose validator only bounds its    *)
(* own value is bounded here by the instance.                              *)
(*                                                                         *)
(* NoValue is null; time ranges are [start, end) pairs of instants.        *)
(***************************************************************************)
EXTENDS Integers

CONSTANT NoValue

Present(x) == x # NoValue

(* DataSection.validate_split_mode.                                        *)
DataValid(data) ==
    /\ Present(data.train_ratio) <=> ~Present(data.train_range)
    /\ Present(data.train_ratio) => ~Present(data.validation_range)
    /\ Present(data.train_range) => data.train_range.start < data.train_range.end
    /\ Present(data.validation_range) =>
           /\ data.validation_range.start < data.validation_range.end
           /\ data.train_range.end <= data.validation_range.start

(* EnvironmentSection: costs are never negative, and the multipliers of the *)
(* reward are positive; the three penalties are signed.                    *)
EnvironmentValid(environment) ==
    /\ environment.window >= 1
    /\ environment.position_side \in {"long_only", "short_only", "long_short"}
    /\ environment.fee >= 0 /\ environment.swapLong >= 0 /\ environment.swapShort >= 0
    /\ environment.scale > 0 /\ environment.profitMult > 0 /\ environment.lossMult > 0

(* TrainingSection.                                                        *)
TrainingValid(training) ==
    training.duration_unit \in {"data_epochs", "timesteps"} /\ training.duration_amount >= 1

(* PPOSection.validate_rollout_sizes.                                      *)
PPOValid(ppo) ==
    /\ ppo.n_steps >= 2 /\ ppo.batch_size >= 2
    /\ ppo.batch_size <= ppo.n_steps
    /\ ppo.n_steps % ppo.batch_size = 0

(* EvaluationSection.validate_policy_fields, with the threshold in whole   *)
(* parts of the unit probability.                                          *)
PolicyFieldsValid(evaluation, unit) ==
    IF evaluation.policy_mode # "probability_threshold"
    THEN ~Present(evaluation.threshold_action) /\ ~Present(evaluation.probability_threshold)
    ELSE /\ Present(evaluation.probability_threshold)
         /\ evaluation.probability_threshold \in 0 .. unit
         /\ evaluation.threshold_action \in {NoValue, 1}

(* RunConfig.validate_evaluation_action_space.                             *)
ActionSpaceValid(evaluation, side) ==
    evaluation.policy_mode = "probability_threshold" =>
        IF side = "long_short" THEN ~Present(evaluation.threshold_action)
                               ELSE evaluation.threshold_action = 1

(* RunConfig.validate_time_range_evaluation.                               *)
ScheduleValid(data, evaluation) ==
    Present(data.train_range) =>
        (evaluation.training_mode # "none" <=> Present(data.validation_range))

(* RunConfig.validate_initial_long_probability.                            *)
InitialProbabilityValid(ppo, side) ==
    Present(ppo.initial_long_probability) => side # "short_only"

(* parse_persisted_run_config: an archived configuration with one common   *)
(* swap charged both directions equally.                                   *)
Persisted(config) ==
    LET environment == config.environment
    IN  IF "swapLong" \in DOMAIN environment \/ "swap" \notin DOMAIN environment THEN config
        ELSE [config EXCEPT !.environment =
                 [f \in (DOMAIN environment \ {"swap"}) \cup {"swapLong", "swapShort"} |->
                     IF f \in {"swapLong", "swapShort"} THEN environment.swap
                                                       ELSE environment[f]]]

ConfigValid(config, unit) ==
    /\ DataValid(config.data)
    /\ TrainingValid(config.training)
    /\ EnvironmentValid(config.environment)
    /\ PPOValid(config.ppo)
    /\ PolicyFieldsValid(config.evaluation, unit)
    /\ ActionSpaceValid(config.evaluation, config.environment.position_side)
    /\ ScheduleValid(config.data, config.evaluation)
    /\ InitialProbabilityValid(config.ppo, config.environment.position_side)

-----------------------------------------------------------------------------
(* RESUME_IMMUTABLE_FIELDS, by section; the market hours and the time      *)
(* zones are constants of the model.                                       *)
ImmutableEnvironment == {"window", "context", "position_side", "swapTime"}

ImmutablePPO == {"policy", "hidden_sizes", "activation", "value_head_init_scale",
                 "initial_long_probability"}

(* validate_resume_compatibility, for the fields the configurations have.  *)
ResumeCompatible(current, source) ==
    /\ current.continuation.source_run = source.run.name
    /\ current.run.name # source.run.name
    /\ \A f \in ImmutableEnvironment \cap DOMAIN source.environment :
           current.environment[f] = source.environment[f]
    /\ \A f \in ImmutablePPO \cap DOMAIN source.ppo : current.ppo[f] = source.ppo[f]
=============================================================================
