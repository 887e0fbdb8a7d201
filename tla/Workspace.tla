----------------------------- MODULE Workspace -----------------------------
(***************************************************************************)
(* What the maintenance tools, a queue and its training worker share: the  *)
(* rows of runs, the directories artifacts/runs/<id>, the configuration    *)
(* files, the flock files of maintenance_guard.py, the table lock of the   *)
(* tools, and the two pending journals.  Each tool runs as a process of    *)
(* its own; a killed or failed one loses its locks and its open            *)
(* transaction and keeps every file it wrote.  The activity lock is the    *)
(* queue's: its worker does not inherit it and trains on when it is gone.  *)
(***************************************************************************)
EXTENDS Integers, FiniteSets, Functions

CONSTANTS
    MaxId,      \* ids the sequence of runs hands out in a behaviour
    Plays       \* initial situations, see PlaysAssumption

Ids == 1 .. MaxId
Tools == {"cleanup", "rename", "sync", "prune"}
Locks == {"maintenance", "activity", "tables", "store"}
Sides == {"old", "new"}  \* a name, or a configuration file, before and after the rename
\* stray is history: the row was inserted by a worker that had lost its queue.
Rows == [status : {"pending", "running", "completed", "failed"}, name : Sides, parent : 0 .. MaxId,
         stray : BOOLEAN]

ASSUME PlaysAssumption ==
    /\ MaxId \in Nat \ {0}
    /\ \A p \in Plays :
          /\ p.tools \subseteq Tools \cup {"worker"}
          /\ p.guarded \in BOOLEAN     \* workers come from a queue, not from training/__main__
          /\ p.plots \in BOOLEAN       \* artifacts.plots.during_run
          /\ p.faults \in Nat          \* processes killed or raising, and objects damaged
          /\ p.runs \subseteq Ids      \* completed runs
          /\ p.orphans \subseteq Ids \ p.runs  \* directories nobody owns

VARIABLES
    play,
    rows,     \* runs: id |-> row
    next,     \* the next id of the sequence
    place,    \* id |-> "own": artifacts/runs/<id>, "trash": staged in .cleanup-trash
    configs,  \* the sides of configs/stage_one that are on disk
    worker,   \* the training process, its run, and whether its queue is gone
    held,     \* <<lock, owner>>; <<"activity", "queue">> while a queue runs
    pc,       \* tool |-> what it does next
    journal,  \* artifacts/.cleanup_pending.json
    pending,  \* run_rename/pending.json
    faults

workspaceVars == <<play, rows, next, place, configs, worker, held, pc, journal, pending, faults>>
dataVars == <<rows, next, place, configs, journal, pending>>

NoPlan == [all |-> FALSE, ids |-> {}, orphans |-> {}, moves |-> {}]
NoRename == [on |-> FALSE, ids |-> {}]
Off == [pc |-> "off", id |-> 0, name |-> "old", orphan |-> FALSE]

Registered == DOMAIN rows
Running == {i \in Registered : rows[i].status = "running"}
Completed == {i \in Registered : rows[i].status = "completed"}
Orphans == {i \in Ids \ Registered : "own" \in place[i]}

InPlay(t) == t \in play.tools
Free(lock) == \A owner \in Tools \cup {"queue"} : <<lock, owner>> \notin held
QueueUp == <<"activity", "queue">> \in held
Acquire(owner, locks) ==
    /\ \A lock \in locks : Free(lock)
    /\ held' = held \cup (locks \X {owner})
Release(owner, locks) == held' = held \ (locks \X {owner})
Goto(t, label) == pc' = [pc EXCEPT ![t] = label]
Leave(t) == Goto(t, "off") /\ Release(t, Locks)

WorkspaceInit ==
    /\ play \in Plays
    /\ rows = [i \in play.runs |-> [status |-> "completed", name |-> "old", parent |-> 0, stray |-> FALSE]]
    /\ next \in 1 .. MaxId + 1 /\ \A i \in play.runs : i < next  \* deleted ids leave gaps
    /\ place = [i \in Ids |-> IF i \in play.runs \cup play.orphans THEN {"own"} ELSE {}]
    /\ configs = {"old"}
    /\ worker = Off /\ held = {} /\ faults = 0
    /\ pc = [t \in Tools |-> "off"]
    /\ journal = NoPlan /\ pending = NoRename

-----------------------------------------------------------------------------
(* The queue process and its activity lock *)

\* The queue shares the lock with other queues, so only a tool refuses it, and
\* it does not start on a pending rename.  It may start beside an orphan.
QueueGuard == ~ pending.on /\ \A t \in Tools : <<"activity", t>> \notin held
StartQueue ==
    /\ InPlay("worker") /\ play.guarded /\ ~ QueueUp
    /\ QueueGuard
    /\ held' = held \cup {<<"activity", "queue">>}
    /\ UNCHANGED <<play, dataVars, worker, pc, faults>>

\* The queue ends, or is stopped, after the workers it knows.
EndQueue ==
    /\ QueueUp /\ (worker.pc = "off" \/ worker.orphan)
    /\ Release("queue", {"activity"})
    /\ UNCHANGED <<play, dataVars, worker, pc, faults>>

\* The queue is killed, or interrupted between Popen and the entry in active:
\* the worker has a session of its own and is left behind.
KillQueue ==
    /\ QueueUp /\ worker.pc # "off" /\ ~ worker.orphan /\ faults < play.faults
    /\ faults' = faults + 1
    /\ worker' = [worker EXCEPT !.orphan = TRUE]
    /\ Release("queue", {"activity"})
    /\ UNCHANGED <<play, dataVars, pc>>

-----------------------------------------------------------------------------
(* The training worker *)

workerLeft == <<play, next, configs, pc, journal, pending>>
Step(from, to) == worker.pc = from /\ worker' = [worker EXCEPT !.pc = to]

\* Popen by the queue, or training/__main__ without one.  The process takes no
\* lock; the configuration is read here.
StartWorker ==
    /\ InPlay("worker") /\ worker.pc = "off"
    /\ play.guarded => QueueUp
    /\ \E name \in configs : worker' = [pc |-> "ready", id |-> 0, name |-> name, orphan |-> FALSE]
    /\ UNCHANGED <<workerLeft, rows, place, held, faults>>

\* create_run: a pending row, fresh or continuing a completed run.
InsertRow ==
    /\ worker.pc = "ready" /\ Free("tables") /\ next \in Ids
    /\ \E parent \in {0} \cup {i \in Completed : "own" \in place[i]} :
          rows' = [i \in Registered \cup {next} |->
                      IF i = next THEN [status |-> "pending", name |-> worker.name, parent |-> parent,
                                        stray |-> worker.orphan]
                      ELSE rows[i]]
    /\ worker' = [worker EXCEPT !.pc = "inserted", !.id = next]
    /\ next' = next + 1
    /\ UNCHANGED <<play, configs, pc, journal, pending, place, held, faults>>

SetStatus(status) == rows' = [rows EXCEPT ![worker.id].status = status]

\* mark_run_running finds the row pending, or raises.
MarkRunning ==
    /\ Step("inserted", "running") /\ Free("tables")
    /\ worker.id \in Registered /\ rows[worker.id].status = "pending"
    /\ SetStatus("running")
    /\ UNCHANGED <<workerLeft, place, held, faults>>

WriteFile == place' = [place EXCEPT ![worker.id] = @ \cup {"own"}]

\* store_file creates the directories above the first checkpoint.
StoreCheckpoint ==
    /\ Step("running", "stored")
    /\ WriteFile
    /\ UNCHANGED <<workerLeft, rows, held, faults>>

CompleteRun ==
    /\ worker.pc = "stored" /\ Free("tables")
    /\ worker.id \in Registered /\ rows[worker.id].status = "running"
    /\ SetStatus("completed")
    /\ worker' = IF play.plots THEN [worker EXCEPT !.pc = "reporting"] ELSE Off
    /\ UNCHANGED <<workerLeft, place, held, faults>>

\* render_run_level_artifacts writes plots of a run that is already completed.
RenderArtifacts ==
    /\ worker.pc = "reporting"
    /\ WriteFile
    /\ worker' = Off
    /\ UNCHANGED <<workerLeft, rows, held, faults>>

\* An exception; fail_run records it where the row still is pending or running.
FailWorker ==
    /\ worker.pc \in {"ready", "inserted", "running", "stored"}
    /\ Free("tables")
    /\ IF worker.id \in Registered /\ rows[worker.id].status \in {"pending", "running"}
          THEN SetStatus("failed") ELSE rows' = rows
    /\ worker' = Off
    /\ UNCHANGED <<workerLeft, place, held, faults>>

KillWorker ==
    /\ worker.pc # "off" /\ faults < play.faults
    /\ faults' = faults + 1
    /\ worker' = Off
    /\ UNCHANGED <<workerLeft, rows, place, held>>

\* recover.py: no process works on the run any more.
MarkAbandoned ==
    /\ worker.pc = "off" /\ Free("tables")
    /\ \E i \in Registered :
          /\ rows[i].status \in {"pending", "running"}
          /\ rows' = [rows EXCEPT ![i].status = "failed"]
    /\ UNCHANGED <<workerLeft, place, worker, held, faults>>

WorkerStep ==
    \/ InsertRow \/ MarkRunning \/ StoreCheckpoint \/ CompleteRun \/ RenderArtifacts \/ FailWorker

WorkspaceNext ==
    \/ StartQueue \/ EndQueue \/ KillQueue
    \/ StartWorker \/ WorkerStep \/ KillWorker \/ MarkAbandoned

WorkspaceTypeOK ==
    /\ play \in Plays
    /\ Registered \subseteq Ids /\ \A i \in Registered : rows[i] \in Rows
    /\ next \in 1 .. MaxId + 1
    /\ place \in [Ids -> SUBSET {"own", "trash"}]
    /\ configs \subseteq Sides
    /\ worker \in [pc : {"off", "ready", "inserted", "running", "stored", "reporting"},
                   id : 0 .. MaxId, name : Sides, orphan : BOOLEAN]
    /\ held \subseteq Locks \X (Tools \cup {"queue"})
    /\ journal \in [all : BOOLEAN, ids : SUBSET Ids, orphans : SUBSET Ids, moves : SUBSET Ids]
    /\ pending \in [on : BOOLEAN, ids : SUBSET Ids]
    /\ faults \in 0 .. play.faults
=============================================================================
