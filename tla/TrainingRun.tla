----------------------------- MODULE TrainingRun -----------------------------
(***************************************************************************)
(* One training run: training/service.train_ppo_run with the row it keeps  *)
(* in runs (training/persistence), the checkpoints it stores as a file and *)
(* a row (checkpoints/persistence), the evaluations it orders              *)
(* (evaluation/service) and its early stopping.                            *)
(*                                                                         *)
(* The control is cut at every statement that writes a file or a row, so   *)
(* that an exception, an interrupt, a lost commit answer or a crash can    *)
(* come between any two of them.  Steps are those of this run              *)
(* (model.num_timesteps - model_steps_before); a checkpoint is identified  *)
(* by its save reason and run step, as its file name and its unique key    *)
(* are.                                                                    *)
(***************************************************************************)
EXTENDS Integers, FiniteSets, Sequences

CONSTANTS
    Configs,   \* the run configurations, each with the faults it may meet
    Scores     \* balanced scores, as an ordered set of integers

Modes == {"scheduled", "final_only", "none"}
AllFaults == {"raise",      \* an Exception anywhere in the try block but in a commit
              "interrupt",  \* a KeyboardInterrupt anywhere in the try block
              "commit",     \* a commit whose answer is lost, done or not
              "again",      \* failures and interrupts in the failure handler
              "crash",      \* SIGKILL
              "abandon"}    \* another process marks the run failed

ASSUME TrainingAssumption ==
    /\ Scores \subseteq Int
    /\ \A c \in Configs :
          /\ c.total \in Nat \ {0} /\ c.rollout \in Nat \ {0} /\ c.patience \in Nat \ {0}
          /\ c.checkpoint \in Nat /\ c.checkpoint >= c.rollout
          /\ c.eval \in Nat /\ c.eval >= c.rollout
          /\ c.mode \in Modes
          /\ c.cycle \in BOOLEAN      \* a stage of a walk-forward cycle
          /\ c.fresh \in BOOLEAN      \* not resumed from a checkpoint
          /\ c.faults \subseteq AllFaults

VARIABLES
    config,
    status, steps, stopped,  \* runs: status, training_steps_completed, stopped_early
    files, rows,             \* checkpoint files, checkpoint rows
    evals,                   \* rows of evaluations, in the order of their ids
    pc,
    model,                   \* "none", "made", "counted": model_steps_before is set
    local,                   \* model.num_timesteps - model_steps_before
    done,                    \* completed_steps
    latest,                  \* latest_checkpoint_step, -1 for None
    final,                   \* final_checkpoint is not None
    early,                   \* BalancedScoreEarlyStopping and best_checkpoint
    stopping,                \* early_stop_reason is not None
    saving,                  \* the checkpoint last passed to persist_ppo_checkpoint
    scope                    \* the data of the evaluation under way

rowVars == <<status, steps, stopped>>
saveVars == <<files, rows, saving>>
evalVars == <<evals, scope, early>>
modelVars == <<model, local>>
loopVars == <<done, latest, final, stopping>>
vars == <<config, rowVars, saveVars, evalVars, modelVars, loopVars, pc>>

Reasons == {"initial", "periodic", "final", "interrupted"}
NoCheckpoint == <<"none", -1>>
Saves == {"store", "insert", "commit", "saved"}
Evaluating == {"create", "mark_eval", "evaluate"}
Places == {"mark", "model", "count", "learn", "progress", "observe", "checks", "complete",
           "return"} \cup Saves \cup Evaluating
Handler == {"rescue", "failing"}
Ends == {"returned", "raised", "dead"}

-----------------------------------------------------------------------------
(* The schedule: training/scheduling *)

\* resolve_periodic_interval: down to complete rollouts.
Resolved(every) == (every \div config.rollout) * config.rollout

Multiples(interval) == {s \in 1 .. config.total - 1 : s % interval = 0}

\* Mutant: evaluations only where a checkpoint is due anyway.
EventsWithoutEvaluations == Multiples(Resolved(config.checkpoint)) \cup {config.total}

\* build_training_schedule, and its filter when training_mode is not "scheduled".
Events ==
    LET checkpoints == Multiples(Resolved(config.checkpoint))
        evaluations == Multiples(Resolved(config.eval))
    IN {config.total} \cup checkpoints
            \cup (IF config.mode = "scheduled" THEN evaluations ELSE {})

EvaluationDue(s) ==
    \/ config.mode # "none" /\ s = config.total
    \/ config.mode = "scheduled" /\ s % Resolved(config.eval) = 0

\* The training segment under way has reached the event it leads to.
AtBoundary == local > done /\ local \in Events

-----------------------------------------------------------------------------

NothingSeen == [best |-> NoCheckpoint, score |-> 0, stale |-> 0]

Init ==
    /\ config \in Configs
    /\ status = "pending" /\ steps = 0 /\ stopped = FALSE
    /\ files = {} /\ rows = {} /\ saving = NoCheckpoint
    /\ evals = <<>> /\ scope = "none" /\ early = NothingSeen
    /\ model = "none" /\ local = 0
    /\ done = 0 /\ latest = -1 /\ final = FALSE /\ stopping = FALSE
    /\ pc = "mark"

\* The write is committed; with the fault "commit" its caller may not learn it.
Committed(next) == pc' \in {next} \cup (IF "commit" \in config.faults THEN {"rescue"} ELSE {})

-----------------------------------------------------------------------------
(* train_ppo_run, without an error *)

\* mark_run_running.
MarkRunning ==
    /\ pc = "mark" /\ status = "pending"
    /\ status' = "running"
    /\ Committed("model")
    /\ UNCHANGED <<config, steps, stopped, saveVars, evalVars, modelVars, loopVars>>

\* create_ppo_model, or load_persisted_ppo_checkpoint of the source.
MakeModel ==
    /\ pc = "model"
    /\ model' = "made"
    /\ pc' = "count"
    /\ UNCHANGED <<config, rowVars, saveVars, evalVars, local, loopVars>>

Save(reason, step) == saving' = <<reason, step>> /\ pc' = "store"

\* check_model_device; model_steps_before; the INITIAL checkpoint of a cycle.
CountSteps ==
    /\ pc = "count"
    /\ model' = "counted"
    /\ \/ config.cycle /\ config.fresh /\ Save("initial", 0)
       \/ ~ (config.cycle /\ config.fresh) /\ pc' = "learn" /\ UNCHANGED saving
    /\ UNCHANGED <<config, rowVars, files, rows, evalVars, local, loopVars>>

\* Mutant: only whole rollouts, as learn() of the library would.
LearnWholeRollouts ==
    /\ pc = "learn"
    /\ LET goOn == ~ AtBoundary \/ local % config.rollout # 0 IN
       \/ goOn /\ local' = local + 1 /\ UNCHANGED <<done, pc>>
       \/ ~ goOn /\ done' = local /\ pc' = "progress" /\ UNCHANGED local
    /\ UNCHANGED <<config, rowVars, saveVars, evalVars, model, latest, final, stopping>>

\* learn_ppo_exact_timesteps: one environment step of the segment, or its end.
Learn ==
    /\ pc = "learn"
    /\ \/ ~ AtBoundary /\ local' = local + 1 /\ UNCHANGED <<done, pc>>
       \/ AtBoundary /\ done' = local /\ pc' = "progress" /\ UNCHANGED local
    /\ UNCHANGED <<config, rowVars, saveVars, evalVars, model, latest, final, stopping>>

\* update_run_progress, then the checkpoint of the event.
Progress ==
    /\ pc = "progress" /\ status = "running"
    /\ done >= steps /\ done <= config.total
    /\ steps' = done
    /\ saving' = <<IF done = config.total THEN "final" ELSE "periodic", done>>
    /\ Committed("store")
    /\ UNCHANGED <<config, status, stopped, files, rows, evalVars, modelVars, loopVars>>

\* ArtifactStorage.store_file: linked to its name, never overwriting.
Store ==
    /\ pc = "store" /\ saving \notin files
    /\ files' = files \cup {saving}
    /\ pc' = "insert"
    /\ UNCHANGED <<config, rowVars, rows, saving, evalVars, modelVars, loopVars>>

\* session.add and flush: (run_id, run_step, save_reason) is unique, and one
\* FINAL row per run.
Insertable == saving \notin rows /\ (saving[1] = "final" => \A r \in rows : r[1] # "final")
Insert ==
    /\ pc = "insert" /\ Insertable
    /\ pc' = "commit"
    /\ UNCHANGED <<config, rowVars, saveVars, evalVars, modelVars, loopVars>>

\* Mutant: the file is removed when the commit raises.
CommitRowCleaningUp ==
    /\ pc = "commit"
    /\ rows' = rows \cup {saving}
    /\ \/ pc' = "saved" /\ UNCHANGED files
       \/ "commit" \in config.faults /\ pc' = "rescue" /\ files' = files \ {saving}
    /\ UNCHANGED <<config, rowVars, saving, evalVars, modelVars, loopVars>>

\* session.commit.
CommitRow ==
    /\ pc = "commit"
    /\ rows' = rows \cup {saving}
    /\ \/ pc' = "saved"
       \/ "commit" \in config.faults /\ saving[1] # "interrupted" /\ pc' = "rescue"
       \/ "again" \in config.faults /\ saving[1] = "interrupted" /\ pc' = "failing"
    /\ UNCHANGED <<config, rowVars, files, saving, evalVars, modelVars, loopVars>>

\* The evaluation of `saving` starts: on TRAIN first, in a cycle on VAL only.
Evaluate == pc' = "create" /\ scope' = IF config.cycle THEN "validation" ELSE "train"

AfterEvent == IF done = config.total \/ stopping THEN "checks" ELSE "learn"

\* persist_ppo_checkpoint returned; latest_checkpoint_step, final_checkpoint.
Saved ==
    /\ pc = "saved" /\ saving[1] # "interrupted"
    /\ final' = (final \/ saving[1] = "final")
    /\ latest' = IF saving[1] = "initial" \/ stopping THEN latest ELSE done
    /\ \/ saving[1] # "initial" /\ EvaluationDue(done) /\ Evaluate
       \/ /\ ~ (saving[1] # "initial" /\ EvaluationDue(done))
          /\ pc' = AfterEvent
          /\ UNCHANGED scope
    /\ UNCHANGED <<config, rowVars, saveVars, evals, early, modelVars, done, stopping>>

-----------------------------------------------------------------------------
(* evaluate_run_validation_checkpoint *)

Last == Len(evals)

\* create_pending_evaluation.
CreateEvaluation ==
    /\ pc = "create"
    /\ evals' = Append(evals, [of |-> saving, scope |-> scope, status |-> "pending", score |-> 0])
    /\ Committed("mark_eval")
    /\ UNCHANGED <<config, rowVars, saveVars, scope, early, modelVars, loopVars>>

\* fail_evaluation, noted and forgotten when it fails itself; then the error
\* goes on into train_ppo_run.
FailEvaluation ==
    /\ \/ evals' = [evals EXCEPT ![Last].status = IF @ \in {"pending", "running"} THEN "failed" ELSE @]
       \/ "again" \in config.faults /\ UNCHANGED evals
    /\ pc' = "rescue"

\* mark_evaluation_running.
MarkEvaluation ==
    /\ pc = "mark_eval"
    /\ evals' = [evals EXCEPT ![Last].status = "running"]
    /\ pc' = "evaluate"
    /\ UNCHANGED <<config, rowVars, saveVars, scope, early, modelVars, loopVars>>

\* run_ppo_evaluation and complete_evaluation; a failure of fail_evaluation
\* after a lost answer changes nothing, for it refuses a completed row.
CompleteEvaluation(score) ==
    /\ pc = "evaluate"
    /\ evals' = [evals EXCEPT ![Last].status = "completed", ![Last].score = score]
    /\ \/ "commit" \in config.faults /\ pc' = "rescue" /\ UNCHANGED scope
       \/ scope = "train" /\ pc' = "create" /\ scope' = "validation"
       \/ scope = "validation" /\ pc' = "observe" /\ UNCHANGED scope
    /\ UNCHANGED <<config, rowVars, saveVars, early, modelVars, loopVars>>

-----------------------------------------------------------------------------
(* Early stopping: BalancedScoreEarlyStopping.observe and what follows *)

\* Mutant: an equal score is an improvement.
ObservedLoosely(score) ==
    IF early.best = NoCheckpoint \/ score >= early.score
    THEN [best |-> saving, score |-> score, stale |-> 0]
    ELSE [early EXCEPT !.stale = @ + 1]

Observed(score) ==
    IF early.best = NoCheckpoint \/ score > early.score
    THEN [best |-> saving, score |-> score, stale |-> 0]
    ELSE [early EXCEPT !.stale = @ + 1]

Observe ==
    /\ pc = "observe"
    /\ early' = Observed(evals[Last].score)
    /\ LET stop == ~ final /\ early'.stale >= config.patience IN
       \/ stop /\ stopping' = TRUE /\ Save("final", done)
       \/ ~ stop /\ pc' = AfterEvent /\ UNCHANGED <<stopping, saving>>
    /\ UNCHANGED <<config, rowVars, files, rows, evals, scope, modelVars, done, latest, final>>

-----------------------------------------------------------------------------
(* The end of a run that met no error *)

Consistent ==
    /\ final /\ local = done
    /\ IF stopping THEN 0 < done /\ done < config.total ELSE done = config.total
    /\ config.mode # "none" => early.best # NoCheckpoint

Checks ==
    /\ pc = "checks" /\ Consistent
    /\ pc' = "complete"
    /\ UNCHANGED <<config, rowVars, saveVars, evalVars, modelVars, loopVars>>

\* Mutant: the status of the row is not looked at.
CompletableAnyStatus == IF stopping THEN 0 < steps /\ steps < config.total ELSE steps = config.total

\* What complete_run demands of the row.
Completable ==
    /\ status = "running"
    /\ IF stopping THEN 0 < steps /\ steps < config.total ELSE steps = config.total

CompleteRun ==
    /\ pc = "complete" /\ Completable
    /\ status' = "completed" /\ stopped' = stopping
    /\ Committed("return")
    /\ UNCHANGED <<config, steps, saveVars, evalVars, modelVars, loopVars>>

\* Plots and messages, then the result.
Return ==
    /\ pc = "return"
    /\ pc' = "returned"
    /\ UNCHANGED <<config, rowVars, saveVars, evalVars, modelVars, loopVars>>

-----------------------------------------------------------------------------
(* Errors *)

\* The calls that refuse what they are asked.
Refused ==
    \/ pc = "mark" /\ status # "pending"
    \/ pc = "progress" /\ ~ (status = "running" /\ done >= steps /\ done <= config.total)
    \/ pc = "store" /\ saving \in files
    \/ pc = "insert" /\ ~ Insertable
    \/ pc = "checks" /\ ~ Consistent
    \/ pc = "complete" /\ ~ Completable

InHandler == pc \in Handler \/ (pc \in Saves /\ saving[1] = "interrupted")

Excepts ==
    \/ Refused
    \/ ~ InHandler /\ "raise" \in config.faults /\ pc \notin {"commit", "saved", "return"}
    \/ ~ InHandler /\ "commit" \in config.faults /\ pc = "commit"
    \/ InHandler /\ "again" \in config.faults
Interrupts ==
    \/ ~ InHandler /\ "interrupt" \in config.faults
    \/ InHandler /\ "again" \in config.faults

\* An error before the place is done.  persist_checkpoint_file removes the
\* file again when an Exception comes before the commit, not on an interrupt.
Raise ==
    /\ pc \in Places
    /\ Excepts \/ Interrupts
    /\ \/ Excepts /\ pc = "insert" /\ files' = files \ {saving}
       \/ (Interrupts \/ pc # "insert") /\ UNCHANGED files
    /\ \/ pc \in {"mark_eval", "evaluate"} /\ FailEvaluation
       \/ pc = "mark_eval" /\ Interrupts /\ pc' = "rescue" /\ UNCHANGED evals
       \/ /\ pc \notin {"mark_eval", "evaluate"}
          /\ pc' = IF InHandler THEN "failing" ELSE "rescue"
          /\ UNCHANGED evals
    /\ UNCHANGED <<config, rowVars, rows, saving, scope, early, modelVars, loopVars>>

\* _local_model_steps.
LocalSteps == IF model = "counted" /\ local <= config.total THEN local ELSE
              IF model = "counted" THEN config.total ELSE 0

\* Mutant: the handler looks at the last boundary, not at the model.
UnsavedSinceBoundary == model # "none" /\ ~ final /\ latest # done

\* The handler saves the model unless its steps are saved already.
Unsaved == model # "none" /\ ~ final /\ latest # LocalSteps

Rescue ==
    /\ pc = "rescue"
    /\ \/ Unsaved /\ Save("interrupted", LocalSteps)
       \/ ~ Unsaved /\ pc' = "failing" /\ UNCHANGED saving
       \/ "again" \in config.faults /\ pc' = "raised" /\ UNCHANGED saving
    /\ UNCHANGED <<config, rowVars, files, rows, evalVars, modelVars, loopVars>>

InterruptedSaved ==
    /\ pc = "saved" /\ saving[1] = "interrupted"
    /\ pc' = "failing"
    /\ UNCHANGED <<config, rowVars, saveVars, evalVars, modelVars, loopVars>>

\* Mutant: only running runs can fail.
FailRunRunning ==
    /\ pc = "failing"
    /\ IF status = "running" THEN status' = "failed" /\ steps' = LocalSteps
                             ELSE UNCHANGED <<status, steps>>
    /\ pc' = "raised"
    /\ UNCHANGED <<config, stopped, saveVars, evalVars, modelVars, loopVars>>

\* fail_run, when it accepts; the error is raised again in any case.
FailRun ==
    /\ pc = "failing"
    /\ \/ /\ status \in {"pending", "running"} /\ LocalSteps >= steps
          /\ status' = "failed" /\ steps' = LocalSteps
       \/ /\ ~ (status \in {"pending", "running"} /\ LocalSteps >= steps) \/ "again" \in config.faults
          /\ UNCHANGED <<status, steps>>
    /\ pc' = "raised"
    /\ UNCHANGED <<config, stopped, saveVars, evalVars, modelVars, loopVars>>

Crash ==
    /\ "crash" \in config.faults /\ pc \notin Ends
    /\ pc' = "dead"
    /\ UNCHANGED <<config, rowVars, saveVars, evalVars, modelVars, loopVars>>

\* core.mark_abandoned, by a worker or the recovery command: of a dead run or,
\* with the fault "abandon", of a live one.
MarkAbandoned ==
    /\ status \in {"pending", "running"}
    /\ "abandon" \in config.faults \/ pc \in Ends
    /\ status' = "failed"
    /\ UNCHANGED <<config, steps, stopped, saveVars, evalVars, modelVars, loopVars, pc>>

-----------------------------------------------------------------------------

Train ==
    \/ MarkRunning \/ MakeModel \/ CountSteps \/ Learn \/ Progress
    \/ Store \/ Insert \/ CommitRow \/ Saved
    \/ CreateEvaluation \/ MarkEvaluation \/ \E score \in Scores : CompleteEvaluation(score)
    \/ Observe \/ Checks \/ CompleteRun \/ Return
    \/ Raise \/ Rescue \/ InterruptedSaved \/ FailRun

Next == Train \/ Crash \/ MarkAbandoned

Spec == Init /\ [][Next]_vars
FairSpec == Spec /\ WF_vars(Train)

-----------------------------------------------------------------------------
(* Properties *)

Checkpoints == Reasons \X Nat
EvaluationRows == [of : Checkpoints, scope : {"train", "validation"},
                   status : {"pending", "running", "completed", "failed"}, score : Int]

\* The type of every variable.
TypeOK ==
    /\ config \in Configs
    /\ status \in {"pending", "running", "completed", "failed"}
    /\ steps \in 0 .. config.total
    /\ stopped \in BOOLEAN
    /\ saving \in Checkpoints \cup {NoCheckpoint}
    /\ files \subseteq Checkpoints
    /\ rows \subseteq Checkpoints
    /\ evals \in Seq(EvaluationRows)
    /\ scope \in {"none", "train", "validation"}
    /\ early \in [best : Checkpoints \cup {NoCheckpoint}, score : Int, stale : Nat]
    /\ model \in {"none", "made", "counted"}
    /\ local \in 0 .. config.total
    /\ done \in 0 .. config.total
    /\ latest \in -1 .. config.total
    /\ final \in BOOLEAN
    /\ stopping \in BOOLEAN
    /\ pc \in Places \cup Handler \cup Ends

\* A checkpoint row always has its file, whatever fails between the two: the
\* file comes first and is only taken back while the row cannot exist.
RowsHaveFiles == rows \subseteq files

\* Exactly the checkpoints that are due by step s, the last one being FINAL.
DueCheckpoints(s) ==
    LET due(e) == \/ e % Resolved(config.checkpoint) = 0
                  \/ config.mode = "scheduled" /\ e % Resolved(config.eval) = 0
    IN {<<"final", s>>} \cup {<<"periodic", e>> : e \in {e \in 1 .. s : due(e) /\ e < config.total}}

Completed(c, data) ==
    {i \in DOMAIN evals : evals[i].of = c /\ evals[i].scope = data /\ evals[i].status = "completed"}

\* A completed run has every checkpoint of its schedule up to where it ended,
\* no other, and for each due evaluation one on VAL preceded, outside cycles,
\* by one on TRAIN of the same checkpoint (README: "Each scheduled or final
\* evaluation event in stage one evaluates the same saved checkpoint twice").
CompletedIsWhole ==
    status = "completed" =>
        /\ stopped <=> steps < config.total
        /\ {c \in rows : c[1] \in {"periodic", "final"}} = DueCheckpoints(steps)
        /\ \A c \in rows \ {<<"initial", 0>>} : EvaluationDue(c[2]) =>
              \E v \in DOMAIN evals :
                 /\ Completed(c, "validation") = {v}
                 /\ IF config.cycle THEN Completed(c, "train") = {}
                                    ELSE Completed(c, "train") = {v - 1}

\* When train_ppo_run has raised, and its handler met no error of its own, the
\* run has a final status, and a failed one says exactly how far its model
\* came and has a checkpoint of that step.
RaisedIsRecorded ==
    pc = "raised" /\ "again" \notin config.faults =>
        /\ status \in {"completed", "failed"}
        /\ status = "failed" /\ "abandon" \notin config.faults /\ model # "none" =>
              /\ steps = LocalSteps
              /\ \E r \in rows : r[2] = steps

\* Exceptions alone leave nothing half done: no file without a row, no
\* evaluation open.
NothingHalfDone ==
    pc \in {"returned", "raised"} /\ config.faults \subseteq {"raise"} =>
        /\ files = rows
        /\ \A i \in DOMAIN evals : evals[i].status \in {"completed", "failed"}

\* The outcome of a run is whole: a completed one has every checkpoint and
\* evaluation of its schedule, and an exception leaves none of them open.
OutcomeWhole == CompletedIsWhole /\ NothingHalfDone

\* The evaluations on VAL that were completed, in the order of their ids.
Validated == {i \in DOMAIN evals : evals[i].scope = "validation" /\ evals[i].status = "completed"}

Since(b, v) == {i \in Validated : b < i /\ i <= v}

\* With the score of evaluation v, `patience` or more have come since a score
\* that none of them has beaten.
StaleAfter(v) ==
    \E b \in Validated :
       /\ Cardinality(Since(b, v)) >= config.patience
       /\ \A i \in Since(b, v) : evals[i].score <= evals[b].score

\* The first of the best scores.
FirstBest(b, seen) ==
    /\ b \in seen
    /\ \A i \in seen : /\ evals[i].score <= evals[b].score
                       /\ i < b => evals[i].score < evals[b].score

\* All but the last evaluation, after which nothing is left to stop.
Tested == {v \in Validated : \E u \in Validated : v < u}

\* A run that returned stopped at the first scheduled evaluation after which
\* its scores had been stale for the configured patience, not before, and not
\* at its last event; its best checkpoint is the first one of the best score.
StopsWhenStale ==
    pc = "returned" /\ config.mode = "scheduled" =>
        /\ stopping <=> \E v \in Tested : StaleAfter(v)
        /\ \A v, w \in Tested : StaleAfter(v) => w <= v
        /\ \E b \in Validated : FirstBest(b, Validated) /\ early.best = evals[b].of

\* A completed run stays completed and a failed one failed, though a live
\* trainer and whoever marked its run abandoned may both write the row.
OutcomeStays == [][(status \in {"completed", "failed"}) => UNCHANGED status]_vars

\* Unless it is killed or its handler fails, every run gets an outcome.
OutcomeRecorded ==
    config.faults \cap {"crash", "again"} = {} ~> status \in {"completed", "failed"}
=============================================================================
