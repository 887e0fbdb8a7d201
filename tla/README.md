# A TLA+ model of the experiment queue and training system

This directory holds a verification project for the programs in `src/`: a
system that trains PPO agents on market data, one run per configuration,
driven by a queue of worker processes that share one PostgreSQL database, one
GPU and one directory of artifacts. It contains TLA+ modules translated from
the source, TLC configurations, and theorems with proofs for TLAPS.
`PROJECT.json` lists components, runs, mutants, the source lines behind every
definition, findings, hazards and theorems.

    tlc -workers 2 -config MCQueueSafety.cfg MCQueueScheduler.tla
    tlapm ClaimProtocolProofs.tla

Every module whose name ends in `Proofs` is checked with `tlapm` in the same way.

## 1. Inventory

Paths are below `src/train_and_eval/` unless they begin otherwise.

| Component | State | Operations | Correct when |
|---|---|---|---|
| Claims: `queue_execution/core.py` | PostgreSQL advisory locks: the gate (CONTROL,2), (RUN,key), (SLOT,1..4) | `claim`, `lock_available`, `occupied_slots` | one owner per run, at most `--workers` owners, all or nothing, nothing outlives its session |
| Scheduler: `queue_execution/scheduler.py` | control lock (CONTROL,1), `pending`, `active`, receipts, `failed`, thermal gate, events file | `run`, `reconcile_attempt`, `stop_children` | dependencies in order, drain after a failure, no child left behind, honest exit code, ends |
| Worker: `queue_execution/worker.py` | its claim, the exit code | `main`, `watch_connection` | trains only what it owns and nobody has, records its failure |
| Recovery: `queue_execution/recover.py` | none of its own | `main`, `validate_receipt` | repairs only dead attempts |
| Preflight: `src/run_search_queue.py`, `src/extra_tools/maintenance/clean_training.py` | the user's YES/SKIP/STOP | `handle_incomplete_run`, `cleanup` | never deletes live or completed work |
| Managed session: `src/run_managed_queue.py`, `queue_execution/hardware.py`, `affinity.py` | hardware lock, fan and power settings, the child queue | `main`, `thermal_session`, the child and its `finally` block | settings held while the scheduler or a worker it knows computes, restored on every handled exit |
| Evaluation gate: `queue_execution/evaluation_gate.py` | one lock file of the machine | `serialize_evaluation` | one worker evaluates at a time, a killed holder blocks nobody |
| Market data: `market_data/` | the pipeline's manifest and files | `verify_market_data`, `load_market_data`, `split_market_data_chronologically` | rows and SHA-256 belong to one release, the splits do not overlap |
| Run configuration: `run_config.py` | the YAML file, its archived copy | `load_run_config`, the validators | what they accept trains, and resumes only what it can continue |
| Run lifecycle: `training/persistence.py` | `runs.status` and progress counters | `create_pending_run`, `mark_run_running`, `update_run_progress`, `complete_run`, `fail_run` | pending, running, then completed or failed, once |
| Training: `training/service.py`, `execution.py`, `scheduling.py`, `early_stopping.py` | model steps, events due, best score, checkpoints | `train_ppo_run` and its failure path | every due checkpoint and evaluation once, exactly the steps asked for, resumable from what is persisted |
| PPO adapter: `ppo/` | the model and its rollout buffer | `create_ppo_model`, `load_ppo_model_file`, `PPOPolicySelector` | loads only a verified file with the run's own spaces, chooses as its mode says |
| Checkpoints, artifacts: `checkpoints/`, `artifact_storage/` | files and rows | `persist_checkpoint_file`, `save_checkpoint` | no row without its file and hash |
| Evaluation: `evaluation/` | `evaluations` rows, three environments, metrics | `evaluate_run_validation_checkpoint`, `run_ppo_evaluation`, `calculate_evaluation_metrics` | scores only its own rows, the books balance, one terminal state each |
| Environment: `environment/` | position, balance, step | `reset`, `step`, the contexts | accounting and episode ends, a calendar that agrees with the market |
| Database: `database/models.py` | tables and CHECK constraints | | accept every row the program means to write |
| Walk-forward: `walk_forward/` | studies, cycles, stage runs | `build_plan`, `execute`, `_run_stage` | resumes without repeating or skipping a stage, sees nothing ahead |
| Cleanup: `src/extra_tools/maintenance/clean_training.py` | journal, trash directory, sequences | `cleanup`, `finish_pending` | a crash restores or finishes, never half |
| Rename: `src/extra_tools/maintenance/rename_runs.py` | `pending.json`, names in rows and files | `migrate`, `recover` | rows and files end on the same side |
| Cold storage: `src/extra_tools/maintenance/cold_storage.py` | objects, generations, `CURRENT`, marker | `sync`, `prune`, restores | `CURRENT` can be restored at every moment |
| Run listings, reports, dashboard, git state, analysis | read-only | | out of scope, see section 8 |

How they interact. The scheduler starts a worker as a child process with a
session and process group of its own and reads its output through a pipe. The
two never talk otherwise: they meet in the database (the `runs` row of a name,
the advisory locks) and in the worker's exit code (0, 75 BUSY, 76 HOT, 130
interrupted, other failures). Workers survive the death of their scheduler, so
two generations of processes can be alive at once, each with the `--workers` its
scheduler was given; the activity lock of a queue does not survive it, because its
workers do not inherit the file. Direct training by a user
writes the same rows and takes no locks. The recovery command and the cleanup
tool write the same rows too. A managed session is the parent of a queue and
owns the machine's settings for it; workers of all queues of the machine meet at
one evaluation lock. Training reads a dataset that a pipeline may replace at any
time, continues checkpoints that a cleanup may remove, and its evaluations read
the same dataset again. A walk-forward study calls training and evaluation for
each of its stages and keeps only their ids.

What is hard: the session locks of killed and disconnected processes, orphans
beside a new scheduler, decisions on a stale snapshot of the states, interrupts
between two bookkeeping steps, the four writers of one row, repairs that fail,
and a loop that must end though BUSY and HOT work is requeued without limit;
settings that must come back after whatever stopped a session; studies that
commit stage by stage. And in the numeric part: the same split, alignment and
lookback computed at several places that have to agree, schedules that cut
rollouts and passes where they do not divide, ratios and streaks that are NULL
exactly when the constraints of the table say so.

## 2. Plan

Done in this order, the most important behaviour first:

1. `ClaimService`, `ClaimProtocol`, `ClaimProtocolProofs`: the locks everything
   rests on. Modelled, checked, proved with the refinement.
2. `QueueScheduler`, `QueueSchedulerProofs`: scheduler, workers, recovery, users over
   abstract claims. Modelled, checked, every safety property proved.
3. `TrainingRun`, `TrainingRunProofs`: `train_ppo_run` with its row,
   checkpoints, evaluations, early stopping and failure handler. Modelled,
   checked, every safety property proved.
4. `Workspace`, `Cleanup`, `Rename`, `ColdStorage`, composed by `Maintenance`,
   `MaintenanceProofs`: crash recovery of the maintenance tools. Modelled, checked,
   every safety property proved.
5. `MarketContext`, `TradingEnvironment`, `PolicySelector`, `EvaluationMetrics`,
   `EvaluationRow`, `MarketDataSplit`, `RunConfig`, `MarketData`, `RunTables`,
   `PPOTraining`, composed by `RunStart` and `EvaluationRun`: from a
   configuration file over the training to a completed evaluation. Modelled, checked,
   every safety property proved: `EvaluationRunProofs` proves the data, the resumed source,
   the calendar, the training and the scored rows, `EvaluationBooksProofs` the accounts and
   that what was accepted completes.
6. `WalkForward`, `WalkForwardProofs`: a study with two executors. Modelled, checked,
   every safety property proved.
7. `EvaluationGate`, `QueueSelection`, composed by `ManagedSession`,
   `ManagedSessionProofs`. Modelled, checked, every safety property proved.

Left to prove: nothing but liveness, which stays with TLC (section 6).

Left to model: that `TrainingRun`, of which `QueueScheduler` sees
`WorkerStartsTraining` to `WorkerFinishes` and `WalkForward` one `TrainingCompletes`,
refines both; `plan_jobs`; the selection of `make_plan` with studies and cycles.

`QueueScheduler` uses claims as `ClaimService` grants them. `ManagedSession` sees
of the scheduler that it starts and ends and which workers it has.
`EvaluationRun` has no failures from outside and no early stopping, which
`TrainingRun` has; `TrainingRun` has no rows, splits or prices, which `EvaluationRun`
has.

## 3. Modules

`ClaimService` - the promise of `core.claim` as a set of holders with one-step
`Grant` and `Drop`.

`ClaimProtocol` - `core.claim`, one action per SQL statement. `pc[s]` is the
statement session `s` executes next, `acquired[s]` is `len(acquired)`, `gate`,
`run` and `slot` are the server's lock table, `conn[s]` says whether the server
session exists. `Connect`, `GateGranted`, `CountSlots`, `TryRun`, `TrySlot`,
`OpenGate`, `Leave`, `Unlock`, `Close` follow `core.py:142-163`.
A statement may raise on a live connection (`StatementRaises`, then the finally
blocks as `UnwindGate`, `Unlock`, `UnlockRaises`) or on a broken one
(`StatementFails`). `ConnectionLost`, `ClientGone` and `SessionEnds` are the
failures from outside; a client's death and the end of its server session are two
steps.
`ProbeTry`/`ProbeUnlock` are `lock_available` on the scheduler's connection,
outside the gate.

`ClaimProtocolProofs` - the theorems about it, with the refinement.

`QueueScheduler` - `scheduler.run` cut where it reads or writes what another
process can change (`sched` is the place, `todo` the rest of an inner loop):
`Start`, `Preflight`, `Classify`, `Top`, `Poll`, `Repair`, `Sample`, `Choose`,
`Spawn`, `Attach`, `Register`, `EndTurn`, then `StopChildren`, `KillChildren`,
`ChildrenReaped`, `FinalReconcile`, `Finished` for the finally block, and
`Down` for its end. `worker.main` is the `Worker...` actions over `stage[p]`.
`row`, `by` and `older` are the `runs` table: a status, the creator of the row,
and whether the row was there when the clock of the last attempt was read
(`created_not_before`). `journal` is what the durable `attempt_registered`
events say. `workers` is `args.workers` of the scheduler that runs: `Start` chooses it
anew for every invocation, and `limit[p]` is the one worker `p` got on its command
line. The constant `Faults` names the faults a run admits:

| Fault | Meaning |
|---|---|
| `train`, `startup` | training, or the worker before it, raises |
| `kill`, `linger` | a worker dies by SIGKILL; its session outlives it |
| `slow` | a worker ignores SIGINT for 30 seconds |
| `lost` | PostgreSQL drops the claim connection of a live worker |
| `interrupt`, `interrupt_attach`, `interrupt_again` | Ctrl+C in the loop; between Popen and the receipt; in the finally block |
| `crash` | the scheduler dies by SIGKILL |
| `user` | a user trains a selected configuration directly |

`QueueSchedulerProofs` - the theorems about it: what holds while the queue runs, and how
it fails and ends.

`TrainingRun` - `training/service.train_ppo_run` for one run. `pc` is the place
in the function, cut at every statement that writes a file or a row. `status`,
`steps`, `stopped` are its row in `runs`; `files` and `rows` are its checkpoint
files and rows, each named by save reason and step; `evals` its evaluation rows.
`model`, `local`, `done`, `latest`, `final`, `early` and `stopping` are the local
variables `model`/`model_steps_before`, `model.num_timesteps` (counted from the
start of the run), `completed_steps`, `latest_checkpoint_step`,
`final_checkpoint`, `early_stopping` and `early_stop_reason`. The loop is
`Learn`, `Progress`, then a checkpoint as `Store`, `Insert`, `CommitRow`,
`Saved`, then evaluations as `CreateEvaluation`, `MarkEvaluation`,
`CompleteEvaluation`, then `Observe`; `Checks`, `CompleteRun` and `Return` end
it. `Raise` is an error before the place is done, with the compensation the code
has there: the file of a checkpoint is removed, the evaluation is closed.
`Rescue` and `FailRun` are the failure handler, whose checkpoint goes through the
same `Store` to `Saved`. A configuration carries the faults it may meet:

| Fault | Meaning |
|---|---|
| `raise` | an Exception at any place but a commit |
| `interrupt` | a KeyboardInterrupt at any place |
| `commit` | a commit raises, having happened or not |
| `again` | errors and interrupts in the failure handler |
| `crash` | SIGKILL |
| `abandon` | another process marks the run failed while it trains |

`TrainingRunProofs` - the theorems about it, those about the outcome and early
stopping included.

`Workspace` - what the maintenance tools and a trainer share. `rows` are the
`runs` of the database with the side of the rename their name is on and the run
they continue, `next` the id sequence, `place[i]` says whether
`artifacts/runs/<i>` and its staged copy exist, `configs` which sides of the
configuration files do. `held` are the `flock` files of `maintenance_guard.py`
and the table lock, `journal` and `pending` the two pending files. `StartQueue`,
`EndQueue` and `KillQueue` are the life of a queue process, which alone holds the
activity lock. A training process is seen from outside: it starts (from a queue, or
directly), takes no lock, inserts its row, runs, stores files, completes, draws
plots, fails or is killed. One that outlives its queue is an `orphan`, and a row it
inserts is marked `stray`, which nothing but the properties reads.

`Cleanup` - `clean_training.cleanup`: `MakePlan`, `WriteTemporary` and
`WriteJournal`, `StageDirectory`, `DeleteRows` in the first transaction, `Judge`,
`RestoreDirectory` or `PurgeDirectory` and `FinishPending` in the second, or in
the first one of the next call.

`Rename` - `rename_runs`: `BuildPlan`, `WritePending`, `ApplyDatabase`, then
`LookAtDatabase`, `FinishFile` and `ClearPending` of the recovery, which is also
how a migration ends.

`ColdStorage` - `sync` from `CheckPrevious` over `Freeze`, `PutObject`, `Recheck`,
`MarkCleanup`, `NameGeneration` and `PointCurrent` to the pruning steps
`ListGarbage` to `ClearMarker`, which `prune` also takes alone. An object is
identified with its content: the dump of these rows, the directory of this run,
this configuration.

`Maintenance` - the four together, and their properties. `MaintenanceProofs` - the
theorems about them.

The evaluation modules follow one configuration from its file to a completed
evaluation of a checkpoint it trained:

`MarketContext` - `contexts.py`: which rows each feature reads
(`RequiredHistoryRows`, `ObservationRows`), trading hours, nights and weekends
(`InRth`, `OvernightSpan`), the rollovers between two bars and the warning before
one (`CountSwapBoundaries`, `PreSwapActive`), on ticks of a clock with two fixed zones.

`TradingEnvironment` - `trading_environment.py`: `Reset` and one step from the
action at the open to the reward at the close, cut as the code is cut into the
forced close, the rollover charge, closing, opening and `StepInfo`. Returns are
counted in units of 1/`Unit`, a multiple of every price, so that every quotient
is exact.

`PolicySelector` - `PPOPolicySelector`: the action each policy mode takes for a
distribution. `EvaluationMetrics` - `metrics.py`: what it accepts and every metric
it returns, as exact fractions. `EvaluationRow`, `RunTables` - the columns and CHECK
constraints of `evaluations`, and of `runs`, `checkpoints` and the training metrics,
each under its name in `models.py`.

`MarketDataSplit` - the split by ratio and by time and its alignment to batches.
`RunConfig` - the validators that relate fields to each other, and what a
resumed run may not change. `MarketData` - the manifest and one action per access to
the disk: `ReadManifest`, `VerifyFile`, `CheckSchema`, `ReadFrame`, `VerifyAgain`, each of
which may refuse.

`PPOTraining` - the schedule (`EventSteps`), `CollectRollout` and `ReachBoundary`,
new and loaded models. A rollout is the rows it executes; `training.executed`
counts them. `RunStart` - `train_ppo_run` from `Configure` over two readings of
the dataset, `Schedule` and `Resolve` to `CreateRun` and `BeginTraining`; beside it
`Import` (a new release of the dataset) and `CleanSource` (the source run is deleted).
`EvaluationRun` - `CreatePending`, `MarkRunning`, `Prepare`, one `Step` per bar,
`Finish`, and what refuses or fails on the way. The market is not fixed: every
step chooses the next bar and the probabilities the policy answers with.
`EvaluationRunProofs`, `EvaluationBooksProofs` - the theorems about it: what is read,
trained and scored, what it earns and costs, and that what was accepted completes.

`WalkForward` - `service.execute`, one action per transaction or long computation,
for any number of executors. `pc[e]` is the place in the loop and `local[e]` the
locals, among them the view of the cycles that was read at its beginning. `study`,
`cycles`, `runs` (of stages) and `evaluations` are the tables, `lock` the advisory
lock of the study. `FindStage` and `FindEvaluation` are the lookups that make a
restart continue; `Interrupt`, `Kill`, `LoseLock` and `EvaluateByHand` the
disturbances. The windows are `Validation`, `Update` and `TestRange` of a cycle.
`WalkForwardProofs` - the theorems about it.

`EvaluationGate` - `serialize_evaluation`: `Ask`, `Enter`, `EnterInner`, the leaving
and the death of a worker. `QueueSelection` - the positions of the queue a command
selects, and the arguments a managed session refuses. `ManagedSession` - a session
from `Begin` over `TakeLock`, `ReadPrevious`, `Apply`, `Cooldown`, `Spawn`, `Wait` to
`Restore` and `Release`, its child queue and the workers. `setting[x]` says whose
value a setting has, `before[s]` what the session read, `left[s]` what it still has
to apply or restore. `loose` are the workers their scheduler has not written into
`active`: between `StartWorker` (Popen) and `Attach`, and for good when a SIGTERM falls
between the two. `again` and `broken` hold the sessions that were interrupted
where nothing catches, and those killed or whose restoration failed.
`ManagedSessionProofs` - the theorems about it.

`MCClaimProtocol`, `MCQueueScheduler`, `MCTrainingRun`, `MCMaintenance`,
`MCEvaluationRun`, `MCWalkForward`, `MCManagedSession` - constants for TLC.

Definitions called mutants in their comments change one definition the way a
plausible bug would; each makes TLC find one property violated.

## 4. Runs

| Run | Instance | States | Shows |
|---|---|---|---|
| `claim` | sessions on keys x, x, y with limits 2, 2, 1; two slots | 0.17 M | exclusion, capacity, all or nothing, refinement, answers |
| `queue_safety` | runs a, b resuming from a, c; 2 processes, 2 workers; `train kill interrupt slow` | 0.61 M | dependencies, drain, cleanup after an end, recoverability |
| `queue_orphans` | a, b; 2 processes, 1 or 2 workers, chosen anew by every scheduler; `kill crash`; fair | 1.42 M | one trainer, the capacity of orphans beside a narrower or wider scheduler, row ownership, the loop ends |
| `queue_faults` | a, b; 1 process; every fault, every sensor reading | 1.81 M | honest success, completed stays completed |
| `training` | four configurations, each with five sets of faults; three scores; fair | 0.99 M | what a completed run contains, what a failed one leaves, early stopping |
| `maintenance` | two run ids, ten plays of tools, queues, trainers and one or two faults; three generations; fair | 0.33 M | nothing lost, names agree, `CURRENT` restorable, interrupted work finishes |
| `evaluation` | eleven families of requests, see below | 0.15 M | what is accepted also completes; exact steps, rows, costs and metrics; one release of the data; the right checkpoint to resume |
| `walk_forward` | two executors, two cycles, two options, two scores, two disturbances; fair | 0.60 M | nothing ahead is seen, selection, decisions stay, a restart goes on |
| `managed_session` | two sessions, two workers, three commands, two settings, one interrupt, one fault; fair | 0.24 M | settings held and returned, workers apart, sessions end |
| `four_workers` | a, b, c independent; 3 processes, 4 workers; `train` | | finding 1 |
| `user_row` | a, b; 1 process; `user` | | finding 2 |
| `interrupt_start` | a, b; 2 processes; `interrupt_attach` | | finding 3 |

A property of several named parts is their conjunction: `EndsClean` of
`WorkersStopped` and `AbandonedIsRecoverable`; `FailureContained` of `FailureDrains` and
`NothingAfterFailure`; `TrainersBounded` of `OneTrainer` and `CapacityHeld`;
`SuccessHolds` of `SuccessMeansDone` and `CompletedStays`; `LocksComeBack` of
`Answered` and `DeadOwnerReleased`; `OutcomeWhole` of `CompletedIsWhole` and
`NothingHalfDone`; `Consistent` of the type invariant, `Settled` and `NamesAgree`;
`DataKept` of `NothingLost` and `ResetIsClean`; `BackupKept` of `CurrentRestorable`
and `LatestOnly`; `StudySound` of the type invariant and `LineageSound`; `Accounted`
of `Reconciles` and `ChargedExactly`; `HardwareSafe` of `SettingsHeld` and
`SettingsReturn`.

Bounds. Three callers are the fewest with two on one key and one competing for
capacity only; two slots are the fewest in which the scan meets an occupied and
a free slot. Two runs suffice for a dependency, a third lets an independent
worker be active when another fails. Two processes are an orphan of a dead
scheduler and a new worker. There is no counter to bound: restarts
and retries are unlimited. Process identities are interchangeable, hence the
symmetry in `queue_safety`; the run under fairness and those with one process do not
use it. Two limits and two processes are the fewest in which two orphans of a
`--workers 2` scheduler meet a `--workers 1` scheduler: the worker of a has completed
its run and still finishes while that of b trains. What more processes would add is
proved (section 6). `queue_orphans` has cool sensors only:
nothing in the code makes a queue end that stays too hot.

The configurations of `training` are: a scheduled run of four steps with patience
2, so that the count of stale evaluations restarts; one of five steps with
rollouts of two and intervals of five and three, which are cut to four and two and
leave a short last rollout; a walk-forward candidate, which saves an initial
checkpoint and evaluates once at its end; and a refit, which is resumed and
never evaluates. The sets of faults are none, `raise`, `raise interrupt commit`,
`interrupt abandon` and `interrupt again crash`. Three scores give ties, rises
and falls.

The plays of `maintenance` put side by side the tools whose locks, journals or
data meet: a cleanup and a direct trainer, with and without plots and an orphan
directory; a cleanup, a rename and a queue; a rename and a direct trainer; and
`sync` and `prune` with a queue, with a cleanup and with a rename. Two ids are a
deleted run and one that continues it, or a completed run and one that is being
inserted, or a run and an orphan. Two faults kill a tool and then its recovery.
Three generation names are the current one, the next and one left by an
interruption. A killed process keeps what it wrote; loss of power, which may undo
a rename of a file that was not synchronised, is not modelled.

The families of `evaluation` are: every side, with and without the forced close and
rollover rates, on three steps of two prices and gaps of one and five ticks
(`Trades`); every tick of a week and its neighbours as the first bar, with a gap
over the night and one over the weekend (`Calendar`, a day of six ticks); every
split, batch, context, scope, alignment and range around one of the borders
(`Definitions`); every selector and threshold (`Selectors`); a second release with
as many rows, another size, more or fewer rows (`Imports`); a dozen manifests,
most of them faulty (`Manifests`); durations around a batch and a name that is
taken (`Durations`); a source of three checkpoints with tied, rising and failed
evaluations, cleaned away at any moment (`Resumes`); a source file that is whole,
missing or damaged, and other sides, contexts and windows (`Continued`); passes
of six rows cut by every checkpoint, evaluation and metric interval
(`Schedules`); and windows just below, at and above the history of the longest
horizon (`LongWindows`), where the first observation is short of a row.

Two cycles of `walk_forward` are the fewest in which a winner is carried forward,
two options the fewest with a prefix to resume and a first improvement, two
scores give ties. A lost study lock uses up all disturbances and happens while
the last test is measured (`LosesAt`). Five ancestries of the source: ordinary,
trained ahead, a refit, failed, not validated. In `managed_session` two sessions
compete for the hardware lock, two settings for the order of restoration. One interrupt stops a session, a second is
one that nothing catches, of which `HardwareSafe` promises nothing; one fault kills a
process or breaks a write, and a second finds a session that is excepted already.

Deadlock. It is checked in `claim`, `queue_safety`, `maintenance` and `walk_forward`.
In `queue_orphans` and `queue_faults` the system really can stop: a scheduler that
dies or is interrupted between Popen and the receipt leaves a worker whose
death strands a `running` row without a receipt. `Start` then refuses
(`scheduler.py:138-141`), the recovery command has nothing to go by, and
somebody must change the row by hand. In `training`, `evaluation` and
`managed_session` the program ends.

`queue_safety` leaves out `linger`, `lost`, `interrupt_attach` and `crash`
because its properties are promises the code keeps only without them: with
`linger` a repair is refused and the queue stops instead of draining, and with
the others workers outlive their scheduler. `queue_orphans` leaves out `lost`
and `user`: with `lost`, two workers can train one run for the two seconds until
the watcher notices. `WalkForward` states the parts a stale executor can break
with `~lost`: nothing watches the connection that holds the study lock, so after
its loss a second executor passes it and the first may still overwrite what the
second decided. `ManagedSession` excepts `again` and `broken`: an interrupt between
`Popen` and the `try` (`run_managed_queue.py:67-68`), a second one in the
`finally` block and one during the restoration are not caught, and a
killed session restores nothing. `SettingsHeld` speaks of the scheduler and of the
workers it has registered. A worker that is `loose` when its scheduler is stopped
trains on while the settings return; the run `interrupt_start` shows the window
(section 7).

`NamesAgree` and `CurrentRestorable` except `stray` rows. A worker holds no activity
lock, so one that outlives its queue may read its configuration before a rename and
insert its row after it, with the old name. `README.md:715` of the repository puts
concurrent writers outside what a migration supports. What is left says that all
other rows stay on the side of the files, however queues, orphans and renames
alternate and wherever they break off.

## 5. Fairness

`ClaimProtocol!FairSpec`: a session that can execute its next statement does,
the server ends the sessions of dead clients; the gate is
granted with strong fairness because PostgreSQL queues its waiters.
`QueueScheduler!FairSpec`: the scheduler's loop goes on (it sleeps half a
second), each worker goes on (training is finite), dead processes lose their
sessions and are reaped. Nothing is assumed of starting a queue, of the user, or
of any fault. `TrainingRun!FairSpec`: the process goes on, which it does because
every segment and every evaluation is finite; the weak fairness is on its steps
together, so neither an error nor its absence is promised.
`Maintenance!FairSpec`: a tool that runs goes on (its lock attempts time out and
its loops are finite), and the operator calls the tool named by a pending journal,
rename or marker again until it is done, which is what the messages of the tools
ask for (`clean_training.py:372`, `rename_runs.py:440`, `cold_storage.py:806`).
Nothing is assumed of a first call, of the trainer or of any fault. What calling
again cannot finish is excepted by name: `Overtaken` (a clean-all whose tables
have rows again, or a taken directory), `Disturbed` (a row inserted beside a rename),
`Unusable` (no backup yet, or a damaged one).
`WalkForward!Spec`: every executor goes on (trainings and evaluations are
finite), and somebody calls the study again, without a limit of cycles, until it
has ended; the study lock is taken with strong fairness because it is free
again and again. `Blocked` excepts by name what calling again cannot get over: a
refused source, a stage run that was broken off, two completed evaluations of
one identity. `ManagedSession!Spec`: session, queue and workers go on; a worker
finishes and leaves the gate with strong fairness because its places alternate
while it evaluates. Of the gate itself, which is polled, nothing is assumed
beyond the steps of the worker that finds it free. `EvaluationRun` states safety only.

## 6. Proofs

Each theorem holds for every value of the constants the named assumptions admit
(sets of processes, names or rows may be infinite where no assumption says
otherwise). TLC evaluates the assumptions in every run. None of the safety
properties is inductive; what follows says with which invariant each was proved
and what in it is essential. All properties a passing run checks are proved here
but those listed at the end.

### Claims

`ClaimProtocolProofs`, from `ProtocolAssumption` (at least one slot, each limit
between 1 and the number of slots, distinct names): type correctness, `Exclusive`,
`AllOrNothing`, `GrantWithinLimit` and the refinement of `ClaimService`. The
invariant is `IInv == TypeOK /\ GateInv /\ PhaseInv /\ RunInv /\ SlotInv /\ CountInv`:
only the gate's holder is between `count` and `ungate` or `unwind`; `acquired` is fixed by the
place in the call; the server's run and slot tables agree with the clients'
lists; and what a session counted under the gate is still true when it takes
its slot, because slots are only freed by others meanwhile. The last part needs
cardinalities (`OneMoreSlot`, `SomeSlotFree`) and is the reason the gate is
there. For the refinement, `HoldersBounded` bounds the holders by the occupied
slots, `SlotIsGrant` maps the scan step that takes a slot to `Grant`, and
`FreeingIsDrop` maps unlocking and the end of a session to `Drop`; every other
statement stutters.

### Queue

`QueueSchedulerProofs`, from `QueueAssumption`. Some promises of
the code hold under every fault, others only without some; a theorem names the
faults it excludes, and a run shows that one of them breaks it.

| Theorem | Property | Faults excluded |
|---|---|---|
| `TypeCorrect` | `TypeOK` | none |
| `DependencyOrderHolds` | `DependencyOrder` | none |
| `SuccessIsTrue` | `SuccessHolds` | none |
| `NothingStartsAfterFailure` | `NothingAfterFailure` | none |
| `BoundedTrainers` | `TrainersBounded` | `lost` |
| `LiveCreatorOwns` | `LiveCreatorOwnsRow` | `lost`, `user` (run `user_row`) |
| `QueueEndsClean` | `EndsClean` | `crash`, `interrupt_attach`, `interrupt_again` (run `interrupt_start`) |
| `FailureIsContained` | `FailureContained` | those, `linger`, `user`, bad sensor readings, more workers than `RepairLimit` (run `four_workers`) |

Trainers: a worker past its claim holds it (`HeldInv`). No single limit bounds the
workers, because `--workers` belongs to an invocation: `CapacityHeld` says for every
`k` that no more than `k` workers with a limit up to `k` are past their claim. It is
inductive because a claim counts every occupied slot, those of wider orphans
included, against the claimant's own limit. Sources: a worker about to create its row has found its source
completed (`SourceReady`), and nothing takes a completed run back. Success: no planned
run is lost between `pending`, `active` and the completed rows (`PlanInv`), and a name
that is dropped because the snapshot says completed is completed (`SnapInv`), though
the snapshot is old. `NothingAfterFailure`: once the loop has seen a failure it passes
neither `Choose` nor `Spawn` (`QuietInv`). Its end: an orderly scheduler owns every
worker (`OwnedInv`), has each attempt in the journal before it turns to another
(`RecordInv`) and starts a name only when no worker left an unfinished row of it
(`FreshInv`). Drain: when dead workers leave no sessions, the claims are those of the
attempts (`AliveHeld`, `ActiveCap`), so a repair is not refused.

### Training

`TrainingRunProofs`, from `TrainingAssumption` (a positive budget, rollout and patience,
intervals no shorter than a rollout, which is what the program's validation
demands), any scores and any combination of faults: type correctness,
`RowsHaveFiles`, `RaisedIsRecorded`, `OutcomeStays`, `OutcomeWhole` and `StopsWhenStale`.
`OutcomeStays` follows from the guards of the four writers of the row. For the next
ones the invariant is `IInv == BaseOK /\ EvalsOK /\ FlowInv /\ SaveInv /\ HandlerInv`.
`RowsHaveFiles` needs that the file being saved has no row yet when it is taken
back (`SaveInv`). `RaisedIsRecorded` needs most of the rest: the handler's checkpoint
cannot collide with an earlier file because INTERRUPTED files exist only from there
on, `fail_run` accepts because the row's steps never exceed the model's
(`HandlerInv`), and if the handler saves nothing, then `latest` or `final`
names a row of exactly the model's step, for training goes on only while there is
no final checkpoint (`FlowInv`, `SaveInv`). That `Learn` never passes the budget
(`StepLeft`) holds because the last step is an event of every schedule.

`OutcomeInv` joins to it what a run without an error has done so far: it went from
event to event (`CountInv`, `SegmentInv`), each event has its checkpoint and no other
step has (`PeriodicInv`, `FinalInv`), each due evaluation is completed once or under way
(`ScoredInv`). `StaleInv` gives the counter of early stopping a meaning in the rows: the
best score it keeps is that of the first best evaluation, and its count the number of
evaluations after that one. `DoneInv` keeps this after the run is completed, and
`HalfInv` what a failed run leaves when exceptions are the only faults.

### Maintenance

`MaintenanceProofs`, from `PlaysAssumption` and `NothingAssumption`, for every number of
runs, initial situation, play and faults: `Consistent`, `DataKept`, `BackupKept`. No tool
knows what another does, so each part of the invariant says what the owner of a lock
may rely on. `LockInv`: a lock has one owner, and who is past it still has it; so the
rows stand still while a cleanup plans, stages and purges (`RowsStandStill`) and the
backup has one writer (`StoreIsExclusive`). `JournalInv` and `PlacesInv` tie directories to the
journal through every crash, `ResetInv` an open restart of the sequence to empty
tables, `NamesInv` rows and files to `pending.json`, and `BackupInv` the objects to the
generation `CURRENT` names, the list of garbage of a prune included. Between a rename
and the workers there is only the queue's lock: a worker of a guarded play that is no
orphan has its queue up (`WorkerLocked`), so whoever holds the activity lock meets at
most orphans, and what these insert is `stray` (`NamesInv`).

The proof found that `DbSide` left open which side it is when no run is renamed and
both match; the definition now says it. It also showed that the sequence of ids
may start beyond any used id, which the instance now covers.

### Walk-forward

`WalkForwardProofs`, for every grid, number of cycles, split of the weeks, set of
executors and number of faults: `StudySound`, `NoLookAhead`, `SelectionSound` and
`DecisionStays`. `IInv` holds whatever happens to the lock, with any number of executors in
one study: rows have their types, runs and evaluations are only added and keep what
they are, and no two executors train one stage run; with it alone `RowsStayAhead` proves
that the recorded windows never overlap what they are scored on. `HeldInv` holds until the
lock's connection dies: the executor at work is alone, and what it has read of its
cycle and of those to come is still what is stored. `NothingLooksAhead` and
`SelectionIsSound` are therefore stated while `~lost`; after a loss two executors may
decide differently, and the run sees only a loss during the last test. `ChangeStep`, that
a step changes one row and decides only what was undecided, gives both the soundness
of the rows and `DecisionStays`. A lineage is a recursive function over generations; its
lemmas take the least generation that would violate them.

### Managed session

`ManagedSessionProofs`, from `SessionAssumption`: `HardwareSafe` and `WorkersApart`. A session past
`TakeLock` holds the lock and only such a session writes settings, so nobody restores
what another has applied (`LockInv`, `AppliedInv`). Its scheduler lives only while the
session waits and outlives the workers it has registered (`ComputeInv`, `WorkInv`) unless
something was killed or interrupted where nothing catches it; of a scheduler that is gone
only `loose` workers are left. Who finds the lock free reads the user's
settings and writes those back (`UserInv`).

### Evaluation

`EvaluationRunProofs`, from `RequestAssumption` (one content per SHA-256, unique run names,
a verified model file is the one its run saved), `FieldsAssumption` (the fields of a
configuration that was read are numbers and choices, the counts of rows and steps are
integers), `MarketAssumption`, `CatalogAssumption` and `CalendarAssumption`:

- `OneRelease` (`SameData`). File and manifest are replaced by two steps at any moment,
  between any two of the accesses of each of three readings. The file has at most
  two contents, so every reading is placed in time by what it saw (`Seen`, `Since`);
  `ReaderInv` and `DataInv` say that hash and rows a reading ends with are of one content.
- `ResumesAreSound` (`ResumeSound`). The source may be deleted at any moment: it is either
  still the checkpoint the configuration selects, or its run is gone and the row
  cannot be committed (`SourceInv`); once committed the row keeps it. The model comes from
  the verified file of that checkpoint (`ModelInv`).
- `CalendarAgrees` (`CalendarSound`), for every length of the day, opening hours, offsets and
  rollover time: `ClosedSpan` from the uniqueness of division (`DivisionIsUnique`) and the order of days
  (`LaterDay`), with at most three days to the nearest weekday; `WarningIsExact` across the
  change of date.
- `TrainingIsExact` (`TrainsExactly`), for every split, batch, rollout limit and schedule.
  After `k` steps, row `j` of a pass of `n` rows has been executed `Turns(k, n, j)` times
  (`ObservedGoesAround`), and the sum of the turns is `k` (`ExecutedSteps`): a finite sum is
  the number of its units (`SumCountsUnits`), by a least counterexample instead of an
  induction over data. `Loop` carries this beside the boundaries, which are whole batches
  (`BoundariesAreWhole`), one checkpoint for each, and one snapshot for each interval of the
  metrics; no rollout passes the next boundary. The loop cannot start on a model of other
  observations, so a run fails only where the file to continue was damaged
  (`SourceIsLoaded`).
- `RowsScored` (`ScoredRows`), for either split, either alignment and any range. The run's
  row carries the split to the evaluation, which computes the range again in another way;
  `PassRows` and `ScoredRange` show that both mean the same rows of the dataset. `TraceInv`
  follows the runner through the range (`StepScores`), and after a whole pass every row has
  had its turn (`RowsHadTurns`). It uses `NullAssumption` (null is neither a range nor a
  window). Looking for the invariant showed that one observation does miss a row
  (section 7); `ScoredRows` allows that one and no other (`ObservedRows`).

`EvaluationBooksProofs` goes on from there with `BooksBalance` (`Accounted`), for every
configuration, any market and whatever the policy does. `Accounted` compares sums over the
closed trades with the equity and says nothing of the position that is open, so it is not
inductive. The invariant `Books` is what the loop keeps besides: its lists are as long as
it has made steps and its bars follow each other (`ListsInv`, `BarsInv`); the agent's
running account is the sum over its trades, the open position has paid for the rollovers
since the bar that opened it, and each closed trade has (`AgentInv`); the peak is that of
the curve and every drawdown the one of its step (`PeaksInv`); each benchmark has opened
one position and holds it to the end (`BenchmarksInv`). The argument goes from the sum to
the row:

- Sums and selections. A total is a sum over a set of positions, in any order. It is
  counted as units gained less units lost (`SumIsAmount`), so that it grows by the last
  element (`SumGrows`) without an induction over data; the closed trades of a longer list
  are those of the shorter one and perhaps the new one (`KeptGrows`). For this
  `EvaluationMetrics` selects, sorts and joins in closed form (`Kept`, `Ranked`, `Joined`).
- Rollovers. The program counts them day by day with a first and a last day cut off;
  `CountIsExact` shows that this is the number of times the clock passes the rollover
  time, for bars any distance apart, and `DueAddsUp` that adjoining bars add up. So what a
  position has paid is what was due since its entry.
- One step of an environment: the forced close, the charge, closing, opening and the
  information it returns, each with the part of the invariant it must keep
  (`SwapKeeps`, `CloseKeeps`, `OpenKeeps`, `SettledKeeps`, then `AgentSteps`, `BenchmarkSteps`).
- A turn of the loop (`TurnKeepsBooks`) and the columns of the completed row
  (`RowIsBalanced`), which sums costs over all events where `Accounted` sums them over trades.

It needs of `MarketAssumption` that fees and rates are integers in units of 1/`Unit` and
that the environment has the fields the code reads.

`EvaluationsComplete` (`EvaluationCompletes`) ends the module: what the validators accept is
refused by nothing after them, whatever the market shows and the policy answers. That is a
statement about a dozen places that check the same thing in their own way, and about a row
of eighty columns under two dozen constraints. `CompletesInv` carries it:

- The run. What was resolved gives a row the constraints of `runs` allow
  (`PendingRunAllowed`), the training writes only such rows (`RunStaysAllowed`), and the
  model has the observations and the actions of the run, with the favoured action going
  long (`FitInv`).
- The request. The range that the service computes again lies behind the history and
  within the rows (`RangeIsAccepted`), so the pending row is allowed and the request
  accepted (`RequestIsAccepted`); the runner accepts the slice and the selector the policy
  (`RunnerIsPrepared`).
- The steps. `Ledger` reads the events of an environment as a tape: each event continues
  from the position the one before it left, as `metrics.py` demands, and what was
  charged is what the closed trades on the tape paid and what the open position has paid so
  far. With it the infos of agent and benchmarks pass every comparison of the runner
  (`RunnerAgrees`), so a step is never a failure (`StepsAreTurns`).
- The metrics. The columns in closed form (`CountsOf`, `RatesOf`, `MeansOf`, `CostsOf`,
  `StreaksOf`, `CurvesOf`) keep to every constraint of a completed row, for any lists of
  the loop that fit together (`Scorable`): counts that add up, shares between 0 and 1,
  means and medians between the extremes, columns that are NULL exactly together, a
  drawdown that is never positive, a streak wherever a trade was closed (`MetricsAllowed`).
  What the runner collected is such a list, and passes what `calculate_evaluation_metrics`
  checks first (`CollectedIsScorable`, `CollectedIsAccepted`).

The only way left to fail is the one the property names: the file of the checkpoint to
continue was damaged. This part needs more of the assumptions, all of them facts about
types: `NullAssumption` that null is no number, no fraction and no kind of streak,
`FieldsAssumption` that names, hashes and primary keys are never null, and `MarketAssumption`
that multipliers and penalties are integers and that scope and policy mode are among the
choices the code knows.

### Only model-checked

Liveness is out of the prover's reach: `LocksComeBack`, `QueueEnds`, `RecoveryEnds`,
`OutcomeRecorded`, `StudyEnds`, `SessionEnds`. Every invariant and every action property of
the passing runs is a theorem.

## 7. Findings

1. With `--workers 4` a failure does not drain. `reconcile_attempt` claims with
   the literal limit 2 (`scheduler.py:66`), the claim is refused while two other
   workers run, and the queue interrupts them all.
2. A queue worker can fail the live run of a user. Its `mark_abandoned` goes by
   name (`worker.py:137`).
3. An interrupt between `Popen` and the entry in `active`
   (`scheduler.py:310-314`) leaves a worker running.

Finding 3 has a consequence under a managed session, which has no run of its own. When
the session is stopped it sends SIGTERM to its scheduler and waits for it
(`run_managed_queue.py:73-79`); a worker that was started and not yet entered in
`active` survives, and the settings return to the user's while it computes, against
the comment at `run_managed_queue.py:77`. `ManagedSession` has this behaviour
(`StartWorker`, `SchedulerEnds`), and `SettingsHeld` names it as its exception.

Beside them, without a run: a release of the dataset that is imported while a run
starts can leave a row that names the wrong one. `load_run_config` verifies the
manifest's entry (`run_config.py:781-786`), `_load_and_split_data` reads file and
manifest again (`training/service.py:688`), and `create_pending_run` compares only
the number of rows. With as many rows in both, the row has the SHA-256 of the
earlier release and the model was trained on the later. No evaluation then
scores it: each compares the hashes and is refused (`SameData`), unless the
earlier release comes back, which the bound of one import leaves out.

Without a run of its own as well: the first observation may be short of a row. The
docstring of `required_history_rows` (`contexts.py:99`) says "Return source rows needed
for one fully initialized observation", but it counts the window itself
(`contexts.py:111`), and the oldest `vol_chg` of a window compares its volume with the one
before (`contexts.py:679`). Where no horizon needs more rows, that value of the first
observation of a slice is filled with 0.0. `ScoredRows` states exactly when this
happens: at the first step, with a window as long as the whole history.

## 8. Not modelled

Not modelled at all: run listings, reports, the dashboard, the git state and the
analysis and diagnostics tools. They read finished rows, or compute statistics
over them, and have no behaviour over time that a model checker could decide.
Migrations and sessions of the database are declarations.

Left out of the modelled parts:

- `ClaimProtocol`: an interrupt between the answer to `try_lock` and the entry in
  `acquired`, which leaves the lock to the closing of the connection.
- `QueueScheduler`: CPU affinity (a side per worker is in `ManagedSession`), output
  pipes, progress display, telemetry and event kinds other than
  `attempt_registered`; the CUDA probe and its retry are a startup failure; the
  recovery command knows one receipt per run, the last; `plan_jobs`.
- `TrainingRun`: plots, trajectories, progress display and the values of metric
  rows; a failure of these is an exception at the place where they run.
- Evaluation: floating-point rounding (arithmetic is exact), daylight saving, the
  values of features (a feature is the rows it reads), the import pipeline and the
  checks of single rows, bounds of single fields, YAML; the update of the network,
  its optimizer and the critic's diagnostics, which belong to stable-baselines3;
  artifacts and plots; failures from outside and early stopping, which
  `TrainingRun` has. A resumed run begins a new pass at the start index; segments
  of one run go on within it. "best" takes the latest finished of tied
  evaluations, whoever made them, and early stopping keeps the first; `ResumeSound`
  says where they agree. The status of the source run is not checked by the code.
- `WalkForward`: the reports and the progress display; the training of a stage is
  one step, whose inside is `TrainingRun`.
- `ManagedSession`: the git check, the temperature readings, the sudo session,
  the validation by a dry run; the sequential queue of older versions
  (`run_search_queue.py`) and the summaries.
- `Maintenance`: which studies, cycles and evaluations a cleanup selects, and the
  checks of paths; the hardware lock, because whoever takes it takes the activity
  lock as well; the audit a rename starts from; the restore commands, the local
  scan and the probe of a disk; loss of power. There is one training process at a
  time, so a queue that starts beside an orphan starts no worker before that one has
  ended. `ResetIsClean` excepts plays with plots: nothing in the code keeps a trainer
  from drawing plots of a completed run into a directory that was purged, and the
  sequence from restarting meanwhile.
