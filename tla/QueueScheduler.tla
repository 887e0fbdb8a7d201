--------------------------- MODULE QueueScheduler ---------------------------
(***************************************************************************)
(* The queue: queue_execution/scheduler.run, the workers it starts         *)
(* (worker.main), the runs table they write, the recovery command          *)
(* (recover.main) and a user who trains a configuration directly.          *)
(*                                                                         *)
(* A claim is the abstract one of ClaimService: holder[n] is the process   *)
(* whose session holds (RUN, run_key(n)) and a slot.  ClaimProtocol shows  *)
(* that core.claim implements it.                                          *)
(*                                                                         *)
(* The scheduler's loop is cut where it reads or writes something another  *)
(* process can change: the states snapshot, each poll, the sensors, the    *)
(* choice of a candidate, Popen, the entry in `active`, the receipt.       *)
(***************************************************************************)
EXTENDS Integers, FiniteSets, Sequences

CONSTANTS
    Names,        \* run names known to the database
    NoName,
    Order,        \* the names selected in this queue, in queue order
    Source,       \* the run each name resumes from, or NoName
    Procs,        \* worker process identities (PID with its start ticks)
    Nobody,
    User,         \* the creator of a row that no queue worker created
    WorkerLimits, \* the values args.workers may have
    Temps,        \* what the sensors may show
    Faults        \* what may go wrong in the environment, by name

AllTemps == {"cool", "warm", "hot", "abort", "absent"}
AllFaults == {"train", "startup", "kill", "linger", "slow", "lost", "interrupt",
              "interrupt_attach", "interrupt_again", "crash", "user"}

ASSUME QueueAssumption ==
    /\ IsFiniteSet(Names) /\ IsFiniteSet(Procs)
    /\ NoName \notin Names
    /\ Nobody \notin Procs /\ User \notin Procs /\ User # Nobody
    /\ Order \in Seq(Names)
    /\ Source \in [Names -> Names \cup {NoName}]
    /\ WorkerLimits \subseteq {1, 2, 4}
    /\ Temps \subseteq AllTemps
    /\ Faults \subseteq AllFaults

VARIABLES
    row,       \* runs.status of each name; "none": no row
    by,        \* the process that created the row
    older,     \* the row was there when the last attempt's clock was read
    user,      \* names a user is training directly, without a claim
    holder,    \* the process whose session holds the claim on a name
    stage,     \* where each worker process is
    job,       \* the name it was started for
    limit,     \* the --workers its scheduler started it with, while it runs
    code,      \* its exit code
    sig,       \* a SIGINT not yet handled
    sched,     \* where the scheduler is
    todo,      \* names left in the scheduler's current inner loop
    workers,   \* args.workers of the running scheduler, 0 when there is none
    skipped,   \* preflight answers SKIP
    plan,      \* the names classify() found runnable
    pending,   \* the scheduler's list of the same name
    active,    \* the process of each active attempt
    receipts,  \* the active attempts whose receipt is registered
    journal,   \* attempt_registered events on disk: the last one of each name
    snap,      \* `states`, as last read
    child,     \* the attempt being started or repaired: <<name, process>>
    launched,
    paused,    \* ThermalGate.paused
    failed,
    result     \* how the last scheduler ended

dbVars == <<row, by, older, user>>
procVars == <<holder, stage, job, limit, code, sig>>
planVars == <<workers, skipped, plan, pending>>
attemptVars == <<active, receipts, journal, child>>
loopVars == <<todo, snap, launched, paused, failed, result>>
vars == <<dbVars, procVars, sched, planVars, attemptVars, loopVars>>

Statuses == {"none", "pending", "running", "completed", "failed"}
Stages == {"free", "start", "check", "train", "pending", "running", "finish", "end",
           "exited"}
Codes == {0, 1, 75, 76, 130, 137}
Places == {"down", "preflight", "top", "poll", "launch", "spawn", "attach",
           "register", "repair", "stop", "wait", "reconcile"}
Results == {"none", "ok", "failed", "error", "interrupted", "stopped", "killed"}

Selected == {Order[i] : i \in DOMAIN Order}
NoAttempt == [n \in Names |-> Nobody]
NoRow == [n \in Names |-> "none"]

TypeOK ==
    /\ row \in [Names -> Statuses]
    /\ by \in [Names -> Procs \cup {Nobody, User}]
    /\ older \in [Names -> BOOLEAN]
    /\ user \subseteq Names
    /\ holder \in [Names -> Procs \cup {Nobody}]
    /\ stage \in [Procs -> Stages]
    /\ job \in [Procs -> Names \cup {NoName}]
    /\ limit \in [Procs -> WorkerLimits \cup {0}]
    /\ code \in [Procs -> Codes]
    /\ sig \in [Procs -> BOOLEAN]
    /\ sched \in Places
    /\ todo \subseteq Names
    /\ workers \in WorkerLimits \cup {0}
    /\ skipped \subseteq Names
    /\ plan \subseteq Names
    /\ pending \in Seq(Names)
    /\ active \in [Names -> Procs \cup {Nobody}]
    /\ receipts \subseteq Names
    /\ journal \in [Names -> Procs \cup {Nobody}]
    /\ snap \in [Names -> Statuses]
    /\ child \in (Names \cup {NoName}) \X (Procs \cup {Nobody})
    /\ launched \in BOOLEAN
    /\ paused \in BOOLEAN
    /\ failed \in BOOLEAN
    /\ result \in Results

Init ==
    /\ row = NoRow
    /\ by = NoAttempt
    /\ older = [n \in Names |-> FALSE]
    /\ user = {}
    /\ holder = NoAttempt
    /\ stage = [p \in Procs |-> "free"]
    /\ job = [p \in Procs |-> NoName]
    /\ limit = [p \in Procs |-> 0]
    /\ code = [p \in Procs |-> 0]
    /\ sig = [p \in Procs |-> FALSE]
    /\ sched = "down"
    /\ todo = {}
    /\ workers = 0
    /\ skipped = {}
    /\ plan = {}
    /\ pending = <<>>
    /\ active = NoAttempt
    /\ receipts = {}
    /\ journal = NoAttempt
    /\ snap = NoRow
    /\ child = <<NoName, Nobody>>
    /\ launched = FALSE
    /\ paused = FALSE
    /\ failed = FALSE
    /\ result = "none"

-----------------------------------------------------------------------------
(* Helpers *)

Unfinished == {"pending", "running"}

\* [job for job in jobs if job in K].  Written as a recursive function because
\* the proof system knows nothing of SelectSeq.
Keep(jobs, K) ==
    LET kept[i \in 0 .. Len(jobs)] ==
            IF i = 0 THEN <<>>
            ELSE IF jobs[i] \in K THEN Append(kept[i - 1], jobs[i]) ELSE kept[i - 1]
    IN kept[Len(jobs)]

Alive(p) == stage[p] \notin {"free", "exited"}
Occupied == Cardinality({n \in Names : holder[n] # Nobody})
ActiveNames == {n \in Names : active[n] # Nobody}

\* Mutants: the name lock is not tried; one slot too many.
CanClaimUnnamed(n, slots) == Occupied < slots
CanClaimOneMore(n, slots) == holder[n] = Nobody /\ Occupied <= slots

\* core.claim succeeds for name n under a limit.
CanClaim(n, slots) == holder[n] = Nobody /\ Occupied < slots

\* Mutant: a source that was started is enough.
RunnableOnceStarted(n, states) == Source[n] # NoName => states[Source[n]] # "none"

\* core.runnable: no source, or the source is completed in `states`.
Runnable(n, states) == Source[n] # NoName => states[Source[n]] = "completed"

\* Mutant: WHERE name = :name alone.
MarkAbandonedAnyStatus(n) == row' = [row EXCEPT ![n] = IF @ # "none" THEN "failed" ELSE @]

\* mark_abandoned: UPDATE ... WHERE name = :name AND status IN (pending, running).
MarkAbandoned(n) == row' = [row EXCEPT ![n] = IF @ \in Unfinished THEN "failed" ELSE @]

\* The process ends with exit code c; its session, and the claim, end with it.
Exit(p, c) ==
    /\ stage' = [stage EXCEPT ![p] = "exited"]
    /\ code' = [code EXCEPT ![p] = c]
    /\ sig' = [sig EXCEPT ![p] = FALSE]
    /\ holder' = [n \in Names |-> IF holder[n] = p THEN Nobody ELSE holder[n]]
    /\ limit' = [limit EXCEPT ![p] = 0]
    /\ UNCHANGED job

Becomes(p, s) == stage' = [stage EXCEPT ![p] = s] /\ UNCHANGED <<holder, job, limit, sig>>

-----------------------------------------------------------------------------
(* The worker process: worker.main and the part of training it runs *)

\* claim(engine, args.name, args.workers): yields, or the worker returns BUSY.
WorkerClaims(p) ==
    /\ stage[p] = "start"
    /\ \/ /\ CanClaim(job[p], limit[p])
          /\ holder' = [holder EXCEPT ![job[p]] = p]
          /\ stage' = [stage EXCEPT ![p] = "check"]
          /\ UNCHANGED <<job, limit, code, sig>>
       \/ /\ ~ CanClaim(job[p], limit[p])
          /\ Exit(p, 75)
    /\ UNCHANGED dbVars

\* The CUDA probe fails twice, or the configuration file has changed.
WorkerStartupFails(p) ==
    /\ "startup" \in Faults
    /\ stage[p] \in {"start", "check"}
    /\ Exit(p, 1)
    /\ UNCHANGED dbVars

\* Under the claim: the run's own row, its source, the CPU temperature.
WorkerChecks(p) ==
    LET n == job[p]
        free == row[n] = "none" /\ Runnable(n, row) IN
    /\ stage[p] = "check"
    /\ \/ holder[n] = p /\ free /\ Becomes(p, "train") /\ UNCHANGED code
       \/ holder[n] = p /\ free /\ Temps \cap {"hot", "abort", "absent"} # {} /\ Exit(p, 76)
       \/ holder[n] = p /\ row[n] = "completed" /\ Exit(p, 0)
       \/ holder[n] = p /\ ~ free /\ row[n] # "completed" /\ Exit(p, 1)
       \/ holder[n] # p /\ Exit(p, 1)
    /\ UNCHANGED dbVars

\* create_pending_run: the name is unique, so an existing row makes it fail.
WorkerCreatesRun(p) ==
    LET n == job[p] IN
    /\ stage[p] = "train"
    /\ \/ /\ row[n] = "none"
          /\ row' = [row EXCEPT ![n] = "pending"]
          /\ by' = [by EXCEPT ![n] = p]
          /\ older' = [older EXCEPT ![n] = FALSE]
          /\ Becomes(p, "pending")
          /\ UNCHANGED code
       \/ /\ row[n] # "none"
          /\ Becomes(p, "end")
          /\ code' = [code EXCEPT ![p] = 1]
          /\ UNCHANGED <<row, by, older>>
    /\ UNCHANGED user

\* mark_run_running accepts only a pending row of this run id.
WorkerMarksRunning(p) ==
    LET n == job[p] IN
    /\ stage[p] = "pending" /\ row[n] = "pending" /\ by[n] = p
    /\ row' = [row EXCEPT ![n] = "running"]
    /\ Becomes(p, "running")
    /\ UNCHANGED <<by, older, user, code>>

\* complete_run accepts only a running row of this run id.
WorkerCompletesRun(p) ==
    LET n == job[p] IN
    /\ stage[p] = "running" /\ row[n] = "running" /\ by[n] = p
    /\ row' = [row EXCEPT ![n] = "completed"]
    /\ Becomes(p, "finish")
    /\ UNCHANGED <<by, older, user, code>>

\* Plots and messages of the completed run; then train() returns 0.
WorkerFinishes(p) ==
    /\ stage[p] = "finish"
    /\ Becomes(p, "end")
    /\ UNCHANGED <<dbVars, code>>

\* fail_run, when it finds the run it created unfinished, then exit code c.
FailRun(p, c) ==
    LET n == job[p] IN
    /\ row' = [row EXCEPT ![n] = IF @ \in Unfinished /\ by[n] = p THEN "failed" ELSE @]
    /\ stage' = [stage EXCEPT ![p] = "end"]
    /\ code' = [code EXCEPT ![p] = c]
    /\ sig' = [sig EXCEPT ![p] = FALSE]
    /\ UNCHANGED <<by, older, user, holder, job, limit>>

\* Training, or the finish of a completed run, raises, or one of training's
\* updates is refused.
WorkerTrainingFails(p) ==
    LET n == job[p]
        refused == stage[p] # "finish" /\ (row[n] # stage[p] \/ by[n] # p) IN
    /\ stage[p] \in {"pending", "running", "finish"}
    /\ "train" \in Faults \/ refused
    /\ FailRun(p, 1)

\* After train() returned: a lost connection or a missing completed row is an
\* error, a nonzero code is recorded by mark_abandoned under the claim.
WorkerEnds(p) ==
    LET n == job[p] IN
    /\ stage[p] = "end"
    /\ \/ /\ holder[n] = p /\ code[p] # 0
          /\ MarkAbandoned(n)
          /\ Exit(p, code[p])
       \/ /\ holder[n] = p /\ code[p] = 0
          /\ Exit(p, IF row[n] = "completed" THEN 0 ELSE 1)
          /\ UNCHANGED row
       \/ /\ holder[n] # p
          /\ Exit(p, 1)
          /\ UNCHANGED row
    /\ UNCHANGED <<by, older, user>>

\* KeyboardInterrupt is raised where the worker is.  Inside train() it is
\* turned into code 130 after fail_run; outside, main returns 130 at once.
WorkerInterrupted(p) ==
    /\ sig[p]
    /\ \/ /\ stage[p] \in {"start", "check", "end"}
          /\ Exit(p, 130)
          /\ UNCHANGED dbVars
       \/ /\ stage[p] \in {"train", "pending", "running", "finish"}
          /\ FailRun(p, 130)

\* watch_connection: SELECT 1 fails, the worker signals itself.
WatcherFires(p) ==
    /\ stage[p] \in {"train", "pending", "running", "finish"}
    /\ holder[job[p]] # p
    /\ ~ sig[p]
    /\ sig' = [sig EXCEPT ![p] = TRUE]
    /\ UNCHANGED <<dbVars, holder, stage, job, limit, code>>

WorkerStep(p) ==
    /\ \/ WorkerClaims(p) \/ WorkerStartupFails(p) \/ WorkerChecks(p)
       \/ WorkerCreatesRun(p) \/ WorkerMarksRunning(p) \/ WorkerCompletesRun(p)
       \/ WorkerFinishes(p) \/ WorkerTrainingFails(p) \/ WorkerEnds(p) \/ WorkerInterrupted(p) \/ WatcherFires(p)
    /\ UNCHANGED <<sched, planVars, attemptVars, loopVars>>

-----------------------------------------------------------------------------
(* The environment: crashes, connections, the operating system, a user *)

\* The processes die by SIGKILL; with "linger" their sessions outlive them.
Die(P) ==
    /\ stage' = [p \in Procs |-> IF p \in P THEN "exited" ELSE stage[p]]
    /\ code' = [p \in Procs |-> IF p \in P THEN 137 ELSE code[p]]
    /\ sig' = [p \in Procs |-> IF p \in P THEN FALSE ELSE sig[p]]
    /\ holder' = [n \in Names |->
                    IF holder[n] \in P /\ "linger" \notin Faults THEN Nobody ELSE holder[n]]
    /\ limit' = [p \in Procs |-> IF p \in P THEN 0 ELSE limit[p]]
    /\ UNCHANGED job

WorkerKilled(p) ==
    /\ "kill" \in Faults
    /\ Alive(p)
    /\ Die({p})
    /\ UNCHANGED <<dbVars, sched, planVars, attemptVars, loopVars>>

\* PostgreSQL notices that the process of a session is gone.
SessionEnds(n) ==
    /\ holder[n] # Nobody
    /\ ~ Alive(holder[n])
    /\ holder' = [holder EXCEPT ![n] = Nobody]
    /\ UNCHANGED <<dbVars, stage, job, limit, code, sig, sched, planVars, attemptVars, loopVars>>

\* PostgreSQL loses the claim connection of a live worker.
ConnectionLost(n) ==
    /\ "lost" \in Faults
    /\ holder[n] # Nobody
    /\ holder' = [holder EXCEPT ![n] = Nobody]
    /\ UNCHANGED <<dbVars, stage, job, limit, code, sig, sched, planVars, attemptVars, loopVars>>

\* An exited worker whose scheduler is gone is reaped by init.
OrphanReaped(p) ==
    /\ stage[p] = "exited"
    /\ \A n \in Names : active[n] # p
    /\ child[2] # p
    /\ stage' = [stage EXCEPT ![p] = "free"]
    /\ job' = [job EXCEPT ![p] = NoName]
    /\ code' = [code EXCEPT ![p] = 0]
    /\ UNCHANGED <<dbVars, holder, limit, sig, sched, planVars, attemptVars, loopVars>>

\* A user trains a configuration directly (python -m train_and_eval.training).
UserStep(n) ==
    /\ "user" \in Faults
    /\ \/ /\ row[n] = "none"
          /\ row' = [row EXCEPT ![n] = "pending"]
          /\ by' = [by EXCEPT ![n] = User]
          /\ older' = [older EXCEPT ![n] = FALSE]
          /\ user' = user \cup {n}
       \/ /\ n \in user /\ row[n] = "pending" /\ by[n] = User
          /\ row' = [row EXCEPT ![n] = "running"]
          /\ UNCHANGED <<by, older, user>>
       \/ /\ n \in user /\ row[n] = "running" /\ by[n] = User
          /\ \E s \in {"completed", "failed"} : row' = [row EXCEPT ![n] = s]
          /\ user' = user \ {n}
          /\ UNCHANGED <<by, older>>
       \/ /\ n \in user /\ (row[n] \notin Unfinished \/ by[n] # User)
          /\ user' = user \ {n}
          /\ UNCHANGED <<row, by, older>>
    /\ UNCHANGED <<procVars, sched, planVars, attemptVars, loopVars>>

-----------------------------------------------------------------------------
(* The scheduler: before the loop *)

\* The engine is disposed and the control lock (CONTROL, 1) with it.  Workers
\* that are still alive have no parent any more.
Down(how) ==
    /\ sched' = "down"
    /\ result' = how
    /\ todo' = {} /\ skipped' = {} /\ pending' = <<>>
    /\ active' = NoAttempt /\ receipts' = {} /\ child' = <<NoName, Nobody>>
    /\ snap' = NoRow
    /\ launched' = FALSE /\ paused' = FALSE /\ failed' = FALSE
    /\ workers' = 0
    /\ UNCHANGED <<plan, journal>>

\* An exception or an interrupt leaves the try block; children are stopped
\* first when there are any.
Unwind(how) ==
    \/ /\ ActiveNames = {}
       /\ Down(how)
    \/ /\ ActiveNames # {}
       /\ sched' = "stop"
       /\ result' = how
       /\ UNCHANGED <<planVars, attemptVars, todo, snap, launched, paused, failed>>

\* A new invocation with its own --workers.  The control lock is free, and
\* every running row is claimed by a live session: otherwise the scheduler
\* refuses and nothing changes.
Start ==
    /\ sched = "down"
    /\ \A n \in Names : row[n] = "running" => holder[n] # Nobody
    /\ sched' = "preflight"
    /\ workers' \in WorkerLimits
    /\ todo' = Selected
    /\ plan' = {}
    /\ result' = "none"
    /\ UNCHANGED <<dbVars, procVars, skipped, pending, attemptVars, snap, launched, paused, failed>>

\* For each selected run: an unclaimed pending or failed row is shown to the
\* user.  YES deletes it (clean_training refuses while anything is running),
\* SKIP leaves it and its dependents out, STOP ends the queue.
Preflight(n) ==
    LET incomplete == row[n] \in {"pending", "failed"} /\ holder[n] = Nobody IN
    /\ sched = "preflight"
    /\ n \in todo
    /\ \/ /\ ~ incomplete
          /\ todo' = todo \ {n}
          /\ UNCHANGED <<dbVars, sched, planVars, attemptVars, snap, launched, paused, failed, result>>
       \/ /\ incomplete
          /\ \A m \in Names : row[m] # "running"
          /\ row' = [row EXCEPT ![n] = "none"]
          /\ by' = [by EXCEPT ![n] = Nobody]
          /\ todo' = todo \ {n}
          /\ UNCHANGED <<older, user, sched, planVars, attemptVars, snap, launched, paused, failed, result>>
       \/ /\ incomplete
          /\ \E m \in Names : row[m] = "running"
          /\ Down("error")
          /\ UNCHANGED dbVars
       \/ /\ incomplete
          /\ skipped' = skipped \cup {n}
          /\ todo' = todo \ {n}
          /\ UNCHANGED <<dbVars, sched, workers, plan, pending, attemptVars, snap, launched, paused, failed, result>>
       \/ /\ incomplete
          /\ Down("stopped")
          /\ UNCHANGED dbVars
    /\ UNCHANGED procVars

\* monitor.classify: a run is blocked when its source is skipped, blocked, or
\* neither selected nor completed.
Blocked(states, left) ==
    LET Direct(B) ==
            {n \in Selected \ left :
                /\ states[n] # "completed" /\ Source[n] # NoName
                /\ \/ Source[n] \in left \cup B
                   \/ Source[n] \notin Selected /\ states[Source[n]] # "completed"}
    IN {n \in Selected : \A B \in SUBSET Selected : Direct(B) \subseteq B => n \in B}

Classify ==
    /\ sched = "preflight"
    /\ todo = {}
    /\ plan' = {n \in Selected \ (skipped \cup Blocked(row, skipped)) : row[n] # "completed"}
    /\ pending' = Keep(Order, plan')
    /\ sched' = "top"
    /\ UNCHANGED <<dbVars, procVars, workers, skipped, attemptVars, loopVars>>

-----------------------------------------------------------------------------
(* The scheduler: one turn of the loop *)

\* while pending or active: states = database_states(control, names).
Top ==
    /\ sched = "top"
    /\ \/ /\ pending # <<>> \/ ActiveNames # {}
          /\ snap' = row
          /\ todo' = ActiveNames
          /\ sched' = "poll"
          /\ UNCHANGED <<planVars, attemptVars, launched, paused, failed, result>>
       \/ /\ pending = <<>> /\ ActiveNames = {}
          /\ Down(IF failed THEN "failed" ELSE "ok")
    /\ UNCHANGED <<dbVars, procVars>>

\* The attempt's process is reaped and the attempt leaves `active`.
Reap(n) ==
    LET p == active[n] IN
    /\ stage' = [stage EXCEPT ![p] = "free"]
    /\ job' = [job EXCEPT ![p] = NoName]
    /\ code' = [code EXCEPT ![p] = 0]
    /\ sig' = [sig EXCEPT ![p] = FALSE]
    /\ active' = [active EXCEPT ![n] = Nobody]
    /\ UNCHANGED <<holder, limit, journal>>

\* reconcile_attempt claims with the literal limit 2, whatever args.workers is.
RepairLimit == 2

\* validate_receipt accepts an unfinished row that is not older than the receipt.
Repairable(n) == CanClaim(n, RepairLimit) /\ row[n] \in Unfinished /\ ~ older[n]

\* It changes nothing when there is no receipt or no unfinished row, and raises
\* when the claim is refused or the row is not the attempt's.
Reconciled(n) ==
    \/ n \notin receipts /\ UNCHANGED row
    \/ n \in receipts /\ CanClaim(n, RepairLimit) /\ row[n] \notin Unfinished /\ UNCHANGED row
    \/ n \in receipts /\ Repairable(n) /\ MarkAbandoned(n)
ReconcileRaises(n) ==
    n \in receipts /\ (~ CanClaim(n, RepairLimit) \/ (row[n] \in Unfinished /\ older[n]))

\* One active attempt: process.poll(), and when it has exited its exit code
\* and the status of its run.
Poll(n) ==
    LET p == active[n]
        deferred == code[p] \in {75, 76}
        succeeded == code[p] = 0 /\ row[n] = "completed" IN
    /\ sched = "poll"
    /\ n \in todo
    /\ todo' = todo \ {n}
    /\ \/ /\ stage[p] # "exited"
          /\ UNCHANGED <<procVars, sched, planVars, attemptVars, snap>>
       \/ /\ stage[p] = "exited" /\ (deferred \/ succeeded)
          /\ pending' = IF deferred THEN Append(pending, n) ELSE pending
          /\ Reap(n)
          /\ receipts' = receipts \ {n}
          /\ snap' = [snap EXCEPT ![n] = row[n]]
          /\ UNCHANGED <<sched, workers, skipped, plan, child>>
       \/ /\ stage[p] = "exited" /\ ~ deferred /\ ~ succeeded
          /\ Reap(n)
          /\ snap' = [snap EXCEPT ![n] = row[n]]
          /\ sched' = "repair"
          /\ child' = <<n, p>>
          /\ UNCHANGED <<planVars, receipts>>
    /\ UNCHANGED <<dbVars, launched, paused, failed, result>>

\* reconcile_attempt for the worker that was just reaped; then failed = True.
\* When it raises, the whole queue stops.
Repair ==
    LET n == child[1] IN
    /\ sched = "repair"
    /\ \/ /\ Reconciled(n)
          /\ sched' = "poll"
          /\ child' = <<NoName, Nobody>>
          /\ receipts' = receipts \ {n}
          /\ failed' = TRUE
          /\ UNCHANGED <<planVars, active, journal, todo, snap, launched, paused, result>>
       \/ ReconcileRaises(n) /\ Unwind("error") /\ UNCHANGED row
    /\ UNCHANGED <<by, older, user, procVars>>

\* ThermalGate.admit on the hottest CPU sensor.
PausedAfter(temp) ==
    \/ temp \in {"hot", "abort", "absent"}
    \/ paused /\ temp # "cool"

\* Mutant: a failure is recorded but the loop goes on starting work.
SampleIgnoringFailure(temp) ==
    /\ sched = "poll"
    /\ todo = {}
    /\ temp \in Temps
    /\ IF ActiveNames # {} /\ temp \in {"abort", "absent"}
       THEN Unwind("error")
       ELSE /\ paused' = PausedAfter(temp)
            /\ pending' = Keep(pending, {n \in Names : snap[n] # "completed"})
            /\ launched' = FALSE
            /\ sched' = "launch"
            /\ UNCHANGED <<workers, skipped, plan, attemptVars, todo, snap, failed, result>>
    /\ UNCHANGED <<dbVars, procVars>>

\* The sensors: over the abort temperature, or absent, with active workers the
\* queue raises.  After a failure nothing is started and the loop drains.
Sample(temp) ==
    /\ sched = "poll"
    /\ todo = {}
    /\ temp \in Temps
    /\ \/ /\ ActiveNames # {} /\ temp \in {"abort", "absent"}
          /\ Unwind("error")
       \/ /\ ~ (ActiveNames # {} /\ temp \in {"abort", "absent"})
          /\ failed /\ ActiveNames = {}
          /\ Down("failed")
       \/ /\ ~ (ActiveNames # {} /\ temp \in {"abort", "absent"})
          /\ failed /\ ActiveNames # {}
          /\ paused' = PausedAfter(temp)
          /\ sched' = "top"
          /\ UNCHANGED <<planVars, attemptVars, todo, snap, launched, failed, result>>
       \/ /\ ~ (ActiveNames # {} /\ temp \in {"abort", "absent"})
          /\ ~ failed
          /\ paused' = PausedAfter(temp)
          /\ pending' = Keep(pending, {n \in Names : snap[n] # "completed"})
          /\ launched' = FALSE
          /\ sched' = "launch"
          /\ UNCHANGED <<workers, skipped, plan, attemptVars, todo, snap, failed, result>>
    /\ UNCHANGED <<dbVars, procVars>>

\* The first pending job that `states` and the claim table let start.
Startable(n) == active[n] = Nobody /\ snap[n] = "none" /\ Runnable(n, snap) /\ holder[n] = Nobody
MayStart ==
    /\ ~ paused
    /\ Cardinality(ActiveNames) < workers
    /\ Occupied < workers
    /\ \E i \in DOMAIN pending : Startable(pending[i])

\* pending.remove(candidate); the database clock for the receipt is read.
Choose ==
    /\ sched = "launch"
    /\ MayStart
    /\ \E i \in DOMAIN pending :
          /\ Startable(pending[i])
          /\ \A j \in 1 .. i - 1 : ~ Startable(pending[j])
          /\ child' = <<pending[i], Nobody>>
          /\ pending' = Keep(pending, Names \ {pending[i]})
          /\ older' = [older EXCEPT ![pending[i]] = row[pending[i]] # "none"]
    /\ sched' = "spawn"
    /\ UNCHANGED <<row, by, user, procVars, workers, skipped, plan, active, receipts, journal, loopVars>>

\* An identity is not used again while a session or a row still names it.
Unused(p) ==
    /\ stage[p] = "free"
    /\ \A n \in Names : holder[n] # p
    /\ by[child[1]] = p => row[child[1]] \notin Unfinished

\* subprocess.Popen.
Spawn(p) ==
    /\ sched = "spawn"
    /\ Unused(p)
    /\ stage' = [stage EXCEPT ![p] = "start"]
    /\ job' = [job EXCEPT ![p] = child[1]]
    /\ limit' = [limit EXCEPT ![p] = workers]
    /\ child' = <<child[1], p>>
    /\ sched' = "attach"
    /\ UNCHANGED <<dbVars, holder, code, sig, planVars, active, receipts, journal, loopVars>>

\* active[candidate.name] = item.
Attach ==
    /\ sched = "attach"
    /\ active' = [active EXCEPT ![child[1]] = child[2]]
    /\ sched' = "register"
    /\ UNCHANGED <<dbVars, procVars, planVars, receipts, journal, child, loopVars>>

\* Mutants: the durable event is not written; the receipt is kept by process.
RegisterInMemory ==
    /\ sched = "register"
    /\ receipts' = receipts \cup {child[1]}
    /\ child' = <<NoName, Nobody>>
    /\ launched' = TRUE
    /\ sched' = "launch"
    /\ UNCHANGED <<dbVars, procVars, planVars, active, journal, todo, snap, paused, failed, result>>
RegisterByProcess ==
    /\ sched = "register"
    /\ receipts' = receipts \cup {child[2]}
    /\ journal' = [journal EXCEPT ![child[1]] = child[2]]
    /\ child' = <<NoName, Nobody>>
    /\ launched' = TRUE
    /\ sched' = "launch"
    /\ UNCHANGED <<dbVars, procVars, planVars, active, todo, snap, paused, failed, result>>

\* item.receipt = receipt and the durable attempt_registered event.
Register ==
    /\ sched = "register"
    /\ receipts' = receipts \cup {child[1]}
    /\ journal' = [journal EXCEPT ![child[1]] = child[2]]
    /\ child' = <<NoName, Nobody>>
    /\ launched' = TRUE
    /\ sched' = "launch"
    /\ UNCHANGED <<dbVars, procVars, planVars, active, todo, snap, paused, failed, result>>

\* Mutant: the loop never gives up on blocked work.
EndTurnPatiently ==
    /\ sched = "launch"
    /\ ~ MayStart
    /\ sched' = "top"
    /\ UNCHANGED <<dbVars, procVars, planVars, attemptVars, loopVars>>

\* No more starts: raise when what is left can never start, else sleep.
EndTurn ==
    LET hopeless ==
            /\ pending # <<>> /\ ActiveNames = {} /\ ~ launched /\ Occupied = 0
            /\ \A i \in DOMAIN pending : ~ (snap[pending[i]] = "none" /\ Runnable(pending[i], snap))
    IN
    /\ sched = "launch"
    /\ ~ MayStart
    /\ \/ hopeless /\ Down("error")
       \/ /\ ~ hopeless
          /\ sched' = "top"
          /\ UNCHANGED <<planVars, attemptVars, loopVars>>
    /\ UNCHANGED <<dbVars, procVars>>

-----------------------------------------------------------------------------
(* The scheduler: interrupts, the finally block, a crash *)

\* Ctrl+C or SIGTERM while the scheduler is in its try block.
Interrupt ==
    /\ \/ "interrupt" \in Faults
          /\ sched \in {"preflight", "top", "poll", "launch", "spawn", "repair"}
       \/ "interrupt_attach" \in Faults
          /\ sched \in {"attach", "register"}
    /\ Unwind("interrupted")
    /\ UNCHANGED <<dbVars, procVars>>

\* stop_children: SIGINT to every active worker ...
StopChildren ==
    /\ sched = "stop"
    /\ sig' = [p \in Procs |-> sig[p] \/ (Alive(p) /\ \E n \in ActiveNames : active[n] = p)]
    /\ sched' = "wait"
    /\ UNCHANGED <<dbVars, holder, stage, job, limit, code, planVars, attemptVars, loopVars>>

\* ... SIGKILL to those that are still there after the timeout ...
KillChildren ==
    /\ "slow" \in Faults
    /\ sched = "wait"
    /\ \E n \in ActiveNames : Alive(active[n])
    /\ Die({p \in Procs : Alive(p) /\ \E n \in ActiveNames : active[n] = p})
    /\ UNCHANGED <<dbVars, sched, planVars, attemptVars, loopVars>>

\* ... and wait for all of them.
ChildrenReaped ==
    /\ sched = "wait"
    /\ \A n \in ActiveNames : stage[active[n]] = "exited"
    /\ sched' = "reconcile"
    /\ todo' = ActiveNames
    /\ UNCHANGED <<dbVars, procVars, planVars, attemptVars, snap, launched, paused, failed, result>>

\* One stopped attempt; an exception of reconcile_attempt is only recorded.
FinalReconcile(n) ==
    /\ sched = "reconcile"
    /\ n \in todo
    /\ \/ Reconciled(n)
       \/ ReconcileRaises(n) /\ UNCHANGED row
    /\ Reap(n)
    /\ todo' = todo \ {n}
    /\ UNCHANGED <<by, older, user, sched, planVars, receipts, child, snap, launched, paused,
                   failed, result>>

Finished ==
    /\ sched = "reconcile"
    /\ todo = {}
    /\ Down(result)
    /\ UNCHANGED <<dbVars, procVars>>

\* A second Ctrl+C in the finally block: SIGTERM is ignored there, SIGINT is not.
InterruptAgain ==
    /\ "interrupt_again" \in Faults
    /\ sched \in {"stop", "wait", "reconcile"}
    /\ Down("interrupted")
    /\ UNCHANGED <<dbVars, procVars>>

\* The scheduler is killed; its workers run on in sessions of their own.
Crash ==
    /\ "crash" \in Faults
    /\ sched # "down"
    /\ Down("killed")
    /\ UNCHANGED <<dbVars, procVars>>

\* recover.main with the last registered attempt of n: no scheduler, no claim,
\* no process of that attempt, and a row that is not older than it.
Recover(n) ==
    /\ sched = "down"
    /\ journal[n] # Nobody
    /\ Repairable(n)
    /\ ~ (stage[journal[n]] # "free" /\ job[journal[n]] = n)
    /\ MarkAbandoned(n)
    /\ UNCHANGED <<by, older, user, procVars, sched, planVars, attemptVars, loopVars>>

-----------------------------------------------------------------------------

SchedulerStep ==
    \/ Start \/ Classify \/ Top \/ Repair \/ Choose \/ Attach \/ Register \/ EndTurn
    \/ StopChildren \/ ChildrenReaped \/ Finished
    \/ \E n \in Names : Preflight(n) \/ Poll(n) \/ FinalReconcile(n)
    \/ \E temp \in Temps : Sample(temp)
    \/ \E p \in Procs : Spawn(p)

Environment ==
    \/ Interrupt \/ InterruptAgain \/ Crash \/ KillChildren
    \/ \E n \in Names : Recover(n) \/ UserStep(n) \/ SessionEnds(n) \/ ConnectionLost(n)
    \/ \E p \in Procs : WorkerKilled(p) \/ OrphanReaped(p)

Next ==
    \/ SchedulerStep
    \/ Environment
    \/ \E p \in Procs : WorkerStep(p)

Spec == Init /\ [][Next]_vars

\* Every process that can run does: the scheduler's loop sleeps half a second,
\* a worker's training is finite, the server ends the session of a dead
\* process, init reaps orphans.  Nothing is assumed of Start, of the user, or
\* of any fault.
Fairness ==
    /\ WF_vars(sched # "down" /\ SchedulerStep)
    /\ \A p \in Procs : WF_vars(WorkerStep(p)) /\ WF_vars(OrphanReaped(p))
    /\ \A n \in Names : WF_vars(SessionEnds(n))

FairSpec == Spec /\ Fairness

-----------------------------------------------------------------------------
(* Properties *)

Training(p) == stage[p] \in {"train", "pending", "running", "finish", "end"}

\* One run is never trained by two queue workers at once, whatever the crashes
\* and restarts of schedulers and the retries of workers.
OneTrainer ==
    \A p, q \in Procs : Training(p) /\ Training(q) /\ job[p] = job[q] => p = q

PastClaim(p) == Training(p) \/ stage[p] = "check"

\* Workers of several invocations run side by side: the orphans of dead
\* schedulers keep the --workers they were started with.  Those started with
\* at most k are never more than k on the whole machine, so that a narrower
\* invocation adds nothing to the orphans of a wider one, and nobody exceeds
\* the widest.
CapacityHeld ==
    \A k \in WorkerLimits : Cardinality({p \in Procs : PastClaim(p) /\ limit[p] <= k}) <= k

\* A run that a queue worker created has its source completed, now and for as
\* long as its row exists: nothing un-completes a source under it.
DependencyOrder ==
    \A n \in Names :
        by[n] \in Procs /\ Source[n] # NoName => row[Source[n]] = "completed"

\* No race of fail_run, mark_abandoned, recovery and preflight deletion takes a
\* completed run back.
CompletedStays == [][\A n \in Names : row[n] = "completed" => row'[n] = "completed"]_vars

CreatorAlive(n) ==
    \/ by[n] \in Procs /\ Alive(by[n]) /\ job[by[n]] = n
    \/ by[n] = User /\ n \in user

\* While the process that created a run is alive, nobody else changes the
\* run's status (mark_abandoned: "Only caller holding the run claim may repair
\* its own failed attempt").
LiveCreatorOwnsRow ==
    [][\A n \in Names :
        CreatorAlive(n) /\ row[n] \in Unfinished /\ row'[n] # row[n] =>
            \/ by[n] \in Procs /\ stage'[by[n]] # stage[by[n]]
            \/ by[n] = User /\ (user' # user \/ row'[n] = "running")]_vars

\* When a scheduler has ended by itself or by an interrupt, none of its workers
\* is still alive (MANAGED_QUEUE.md: Ctrl+C signals the queue's owned workers
\* to stop).
WorkersStopped ==
    sched = "down" /\ result # "killed" => \A p \in Procs : ~ Alive(p)

\* A row that a dead worker left unfinished can be repaired by the recovery
\* command: its registered attempt is on disk and is not younger than the row.
AbandonedIsRecoverable ==
    sched = "down" /\ result # "killed" =>
        \A n \in Names :
            row[n] \in Unfinished /\ by[n] \in Procs /\ ~ CreatorAlive(n) =>
                journal[n] = by[n] /\ ~ older[n]

\* "On first failure drain already-running work and start nothing else": with
\* cool sensors only an interrupt makes the queue stop its workers.
FailureDrains == sched = "stop" => result = "interrupted"

\* The queue reports success only when every run it planned is completed.
SuccessMeansDone ==
    sched = "down" /\ result = "ok" => \A n \in plan : row[n] = "completed"

\* Once a worker has failed, the queue starts no other.
NothingAfterFailure ==
    [][failed => \A p \in Procs : stage[p] = "free" => stage'[p] = "free"]_vars

\* One run has one trainer, and the machine no more of them than the --workers
\* they were started with, whatever schedulers died, whatever workers outlived
\* them and whatever --workers the next scheduler is given.
TrainersBounded == OneTrainer /\ CapacityHeld

\* A queue that has ended leaves no worker behind and no row that the recovery
\* command cannot repair.
EndsClean == WorkersStopped /\ AbandonedIsRecoverable

\* The first failure only drains the queue: work under way is not stopped for
\* it, and no other is started.
FailureContained == []FailureDrains /\ NothingAfterFailure

\* A reported success is true and stays true: every planned run is completed,
\* and no later repair, retry or deletion takes one back.
SuccessHolds == []SuccessMeansDone /\ CompletedStays

\* The queue ends: no combination of deferred, blocked, failed and orphaned
\* work makes its loop turn for ever.
QueueEnds == sched = "top" ~> sched = "down"
=============================================================================
