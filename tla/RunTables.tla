------------------------------ MODULE RunTables ------------------------------
(***************************************************************************)
(* The tables of runs, their checkpoints and training metrics              *)
(* (src/train_and_eval/database/models.py): the columns a row may leave NULL and the   *)
(* constraints PostgreSQL enforces on it, each under its name there.       *)
(*                                                                         *)
(* NULL is NoValue; started, finished, error and early_stop_reason say     *)
(* whether the column is set; timestamps and texts are left out.           *)
(***************************************************************************)
EXTENDS Integers

CONSTANT NoValue

RunStatuses == {"pending", "running", "completed", "failed", "cancelled"}

SaveReasons == {"initial", "periodic", "final", "manual", "interrupted"}

(* The columns of runs.                                                    *)
RunColumns(row) ==
    /\ row.status \in RunStatuses
    /\ row.continuation_mode \in {"fresh", "resume"}
    /\ row.duration_unit \in {"data_epochs", "timesteps"}
    /\ \A f \in {"name", "normalized_config_json", "data_path", "data_sha256"} :
           row[f] # NoValue
    /\ {row.stopped_early, row.early_stop_reason, row.started, row.finished, row.error}
           \subseteq BOOLEAN
    /\ {row.duration_amount, row.split_index, row.train_rows, row.validation_rows,
        row.steps_per_data_epoch, row.training_steps_requested, row.training_steps_completed}
           \subseteq Int

ContinuationFields(row) == row.continuation_mode = "resume" <=> row.source_checkpoint_id # NoValue

(* duration_amount_positive to completed_steps_range.                      *)
RunRanges(row) ==
    /\ row.duration_amount >= 1
    /\ row.train_rows >= 1 /\ row.validation_rows >= 0
    /\ row.split_index = row.train_rows
    /\ row.steps_per_data_epoch >= 1
    /\ row.training_steps_requested >= 1
    /\ row.training_steps_completed \in 0 .. row.training_steps_requested

EarlyStopFields(row) == row.stopped_early <=> row.early_stop_reason

RunStatusFields(row) ==
    \/ /\ row.status = "pending"
       /\ ~row.started /\ ~row.finished /\ ~row.stopped_early /\ ~row.error
       /\ row.training_steps_completed = 0
    \/ row.status = "running" /\ row.started /\ ~row.finished /\ ~row.stopped_early /\ ~row.error
    \/ /\ row.status = "completed" /\ row.started /\ row.finished /\ ~row.error
       /\ IF row.stopped_early
          THEN row.training_steps_completed \in 1 .. row.training_steps_requested - 1
          ELSE row.training_steps_completed = row.training_steps_requested
    \/ row.status = "failed" /\ row.started /\ row.finished /\ ~row.stopped_early /\ row.error
    \/ row.status = "cancelled" /\ row.started /\ row.finished /\ ~row.stopped_early

RunAllowed(row) ==
    /\ RunColumns(row)
    /\ ContinuationFields(row)
    /\ RunRanges(row)
    /\ EarlyStopFields(row)
    /\ RunStatusFields(row)

(* The rows of checkpoints: their own ranges, one per step and reason of a *)
(* run, and one final checkpoint per run.                                  *)
CheckpointsAllowed(checkpoints, runs) ==
    /\ \A c \in checkpoints :
           /\ c.save_reason \in SaveReasons
           /\ \E r \in runs : r.id = c.run_id
           /\ 0 <= c.run_step /\ c.run_step <= c.model_step
    /\ \A c, d \in checkpoints :
           \/ c.id = d.id /\ c = d
           \/ /\ c.id # d.id
              /\ c.run_id = d.run_id /\ c.save_reason = d.save_reason =>
                     c.run_step # d.run_step /\ c.save_reason # "final"

(* The rows of training_metrics of one run.                                *)
MetricsAllowed(metrics) ==
    /\ \A m \in metrics : m.run_step >= 1 /\ m.model_step >= m.run_step /\ m.rollout_number >= 1
    /\ \A m, n \in metrics : m.run_step = n.run_step => m = n
=============================================================================
