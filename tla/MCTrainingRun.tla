---------------------------- MODULE MCTrainingRun ----------------------------
(* Run configurations, each with the sets of faults it may meet.             *)
EXTENDS TrainingRun

Scheduled == [total |-> 4, rollout |-> 1, checkpoint |-> 2, eval |-> 1, mode |-> "scheduled",
              patience |-> 2, cycle |-> FALSE, fresh |-> TRUE]
\* Intervals that are cut to whole rollouts, and a short last rollout.
Rounded == [total |-> 5, rollout |-> 2, checkpoint |-> 5, eval |-> 3, mode |-> "scheduled",
            patience |-> 1, cycle |-> FALSE, fresh |-> FALSE]
Candidate == [total |-> 3, rollout |-> 1, checkpoint |-> 2, eval |-> 1, mode |-> "final_only",
              patience |-> 1, cycle |-> TRUE, fresh |-> TRUE]
Refit == [total |-> 2, rollout |-> 1, checkpoint |-> 1, eval |-> 1, mode |-> "none",
          patience |-> 1, cycle |-> TRUE, fresh |-> FALSE]

With(c, faults) == [total |-> c.total, rollout |-> c.rollout, checkpoint |-> c.checkpoint,
                    eval |-> c.eval, mode |-> c.mode, patience |-> c.patience,
                    cycle |-> c.cycle, fresh |-> c.fresh, faults |-> faults]

MCConfigs ==
    {With(c, f) : c \in {Scheduled, Rounded, Candidate, Refit},
                  f \in {{}, {"raise"}, {"raise", "interrupt", "commit"},
                         {"interrupt", "abandon"}, {"interrupt", "again", "crash"}}}
=============================================================================
