-------------------------- MODULE MaintenanceProofs --------------------------
(***************************************************************************)
(* What the locks and the journals of the maintenance tools promise, for   *)
(* every number of runs, every initial situation, every set of generations *)
(* and any number of faults.                                               *)
(*                                                                         *)
(* No tool knows what another one is doing: each part of the inductive     *)
(* invariant says what a lock holder may rely on.  LockInv: a lock has one *)
(* owner and whoever is past a lock still has it.  From it, the rows stand *)
(* still while cleanup plans, stages and purges (RowsStandStill), a rename *)
(* meets no queue but the orphans of one, and the backup disk has one      *)
(* writer (StoreIsExclusive).  JournalInv and PlacesInv tie the            *)
(* directories to the journal and ResetInv ties an open restart of the     *)
(* sequences to empty tables and an empty disk; NamesInv ties rows and     *)
(* files to pending.json, and BackupInv ties the objects to the generation *)
(* CURRENT names, prune's list of garbage included.                        *)
(***************************************************************************)
EXTENDS Maintenance, WellFoundedInduction, TLAPS

-----------------------------------------------------------------------------
(* The inductive invariant *)

Owners == Tools \cup {"queue"}
CleanupLabels == {"off", "open", "plan", "write", "replace", "move", "relock", "judge", "finish", "commit"}
RenameLabels == {"off", "plan", "point", "apply", "look", "files"}
SyncLabels == {"off", "previous", "freeze", "put", "mark", "publish", "point", "keep", "generations", "objects"}
PruneLabels == {"off", "keep", "generations", "objects"}
Moves == [all : BOOLEAN, ids : SUBSET Ids, orphans : SUBSET Ids, moves : SUBSET Ids]

WorkspaceTypes == WorkspaceTypeOK /\ rows \in [Registered -> Rows]
LabelTypes ==
    /\ pc \in [Tools -> Labels]
    /\ pc["cleanup"] \in CleanupLabels /\ pc["rename"] \in RenameLabels
    /\ pc["sync"] \in SyncLabels /\ pc["prune"] \in PruneLabels
    /\ side \in {"none"} \cup Sides
CleanupTypes ==
    /\ plan \in Moves /\ plan.moves \subseteq plan.ids \cup plan.orphans
    /\ left \subseteq Ids
    /\ tmp \in BOOLEAN /\ resetting \in BOOLEAN /\ verdict \in {"none", "restore", "purge"}
StoreTypes ==
    /\ gens \in [Generations -> Documents \cup {Nothing}]
    /\ current \in Generations \cup {Nothing} /\ marker \in BOOLEAN /\ litter \in BOOLEAN
    /\ bad \subseteq objects
    /\ DOMAIN sweep = Stores
Types == WorkspaceTypes /\ LabelTypes /\ CleanupTypes /\ StoreTypes

\* A lock has one owner, and who is past a lock has it.
Writing == {"write", "replace", "move"}
TablesHeld == {"plan", "judge", "finish", "commit"} \cup Writing
OneOwner == \A l \in Locks, a, b \in Owners : <<l, a>> \in held /\ <<l, b>> \in held => a = b
CleanupLocked ==
    /\ pc["cleanup"] # "off" => <<"maintenance", "cleanup">> \in held
    /\ pc["cleanup"] \in TablesHeld => <<"tables", "cleanup">> \in held
RenameLocked ==
    /\ pc["rename"] # "off" =>
          <<"maintenance", "rename">> \in held /\ <<"activity", "rename">> \in held
    /\ pc["rename"] \in {"point", "apply", "files"} => <<"tables", "rename">> \in held
StoreLocked == \A t \in Stores : pc[t] # "off" => <<"store", t>> \in held
WorkerLocked == worker.pc # "off" /\ ~ worker.orphan /\ play.guarded => QueueUp
LockInv == OneOwner /\ CleanupLocked /\ RenameLocked /\ StoreLocked /\ WorkerLocked

\* The sequence is ahead of the rows, and no row continues a deleted one.
RowsInv == \A i \in Registered : i < next /\ rows[i].parent \in {0} \cup Registered

WorkerInv ==
    /\ worker.pc \notin {"off", "ready"} => worker.id \in Ids
    /\ worker.pc \in {"running", "stored"} =>
          worker.id \in Registered /\ rows[worker.id].status = "running"
    /\ worker.pc = "stored" => "own" \in place[worker.id]
    /\ worker.pc = "reporting" => play.plots

\* Every directory in its own place is one of S.
Owned(S) == \A i \in Ids : "own" \in place[i] => i \in S

\* What was planned stays true until it is committed.
PlanInv ==
    /\ At("plan") \/ At("write") \/ At("replace") \/ At("commit") => journal = NoPlan
    /\ At("move") => journal = plan /\ left \subseteq plan.moves
    /\ pc["cleanup"] \in Writing =>
          /\ plan.ids \subseteq Registered /\ plan.orphans \cap Registered = {}
          /\ plan.all => plan.ids = Registered
          /\ Deletable(plan.ids) /\ Running = {}
          /\ plan.all /\ ~ play.plots => Owned(IF At("move") THEN left ELSE plan.moves)

\* The verdict is what the rows say, for as long as directories are moved.
JournalInv ==
    /\ journal.moves \subseteq journal.ids \cup journal.orphans
    /\ At("finish") =>
          /\ left \subseteq journal.moves
          /\ verdict \in {"purge", "restore"}
          /\ verdict = "purge" => /\ journal.ids \cap Registered = {}
                                  /\ OrphanOnly => journal.orphans \cap Registered = {}
          /\ verdict = "restore" => journal.ids \subseteq Registered /\ ~ OrphanOnly

\* Staged directories are named by the journal, and a completed run has its
\* directory in one of the two places.
Staged == \A i \in Ids : "trash" \in place[i] => i \in journal.moves /\ (At("finish") => i \in left)
Kept == \A i \in Completed : "own" \in place[i] \/ ("trash" \in place[i] /\ i \in journal.ids)
PlacesInv == Staged /\ Kept

\* The sequences are restarted over empty tables and no directory.
ResetOpen ==
    resetting => /\ Registered = {}
                 /\ pc["cleanup"] \in {"plan", "commit"} \cup Writing
                 /\ At("plan") \/ At("commit") => play.plots \/ Owned({})
                 /\ pc["cleanup"] \in Writing => plan.all
ResetDue ==
    journal.all /\ Registered = {} /\ ~ play.plots =>
        Owned(IF journal.ids # {} THEN {} ELSE IF At("finish") THEN left ELSE journal.moves)
ResetInv == ResetOpen /\ ResetDue

\* Rows and files disagree only under pending.json, with no queue at work.
RenameInv ==
    /\ pc["rename"] \in {"apply", "look", "files"} => pending.on
    /\ pc["rename"] = "files" => side \in Sides
OneSide ==
    play.guarded =>
        /\ ~ pending.on => \E s \in Sides : configs = {s} /\ Agreed(rows, s)
        /\ pending.on => ~ QueueUp
        /\ worker.pc = "ready" /\ ~ worker.orphan => worker.name \in configs
        /\ pc["rename"] = "files" => Agreed(rows, side)
NamesInv == RenameInv /\ OneSide

\* What a backup must contain to be of use.
Sane(d) ==
    /\ \A i \in DOMAIN d.rows : d.rows[i].status = "completed" => i \in d.runs
    /\ play.guarded => \E s \in Sides : d.configs = {s} /\ Agreed(d.rows, s)

DocumentInv ==
    /\ pc["sync"] \in {"put", "mark", "publish", "point"} => doc \in Documents /\ Sane(doc)
    /\ pc["sync"] \in {"mark", "publish", "point"} => References(doc) \subseteq objects
    /\ pc["sync"] = "point" => fresh \in Generations /\ gens[fresh] = doc
CurrentInv ==
    current # Nothing => /\ gens[current] # Nothing /\ Sane(gens[current])
                         /\ References(gens[current]) \subseteq objects
PruneInv ==
    \A t \in Stores :
        /\ pc[t] \in {"keep", "generations", "objects"} => current # Nothing
        /\ pc[t] \in {"generations", "objects"} =>
              /\ objects = References(gens[current]) \cup sweep[t]
              /\ sweep[t] \cap References(gens[current]) = {}
        /\ pc[t] = "objects" => Old = {} /\ ~ litter
BackupInv == DocumentInv /\ CurrentInv /\ PruneInv

IInv == /\ Types /\ LockInv /\ RowsInv /\ WorkerInv /\ PlanInv /\ JournalInv /\ PlacesInv
        /\ ResetInv /\ NamesInv /\ BackupInv

-----------------------------------------------------------------------------
(* Frames: what a turn of one process leaves alone *)

\* Only o took or gave back locks.
LocksOf(o) ==
    /\ held' \subseteq Locks \X Owners
    /\ \A l \in Locks, b \in Owners : b # o => (<<l, b>> \in held' <=> <<l, b>> \in held)

\* Only tool t went on.
TurnOf(t) ==
    /\ pc' = [pc EXCEPT ![t] = pc'[t]]
    /\ \A u \in Tools : u # t => pc'[u] = pc[u]

\* The first of a set of ids is one of them.
LEMMA FirstIsOne ==
    ASSUME NEW S, S \subseteq Ids, S # {}
    PROVE  First(S) \in S
<1> DEFINE R == OpToRel(<, Nat)
<1>1. \A x, y \in Nat : y < x => <<y, x>> \in R
  BY DEF OpToRel
<1>2. IsWellFoundedOn(R, Nat)
  BY NatLessThanWellFounded
<1>3. S \subseteq Nat
  BY PlaysAssumption DEF Ids
<1> HIDE DEF R
<1>4. PICK x \in S : \A y \in S : <<y, x>> \notin R
  BY <1>2, <1>3, WFMin
<1>5. \A y \in S : x \in Nat /\ y \in Nat /\ ~ (y < x)
  BY <1>1, <1>3, <1>4
<1>6. \A y \in S : x <= y
  BY <1>5
<1>7. \E i \in S : \A j \in S : i <= j
  BY <1>6
<1> QED
  BY <1>7, Zenon DEF First

\* The training process.
LEMMA WorkspaceFrame ==
    ASSUME held \subseteq Locks \X Owners, WorkspaceTurn
    PROVE  /\ UNCHANGED <<play, configs, pc, journal, pending, cleanupVars, side, storeVars>>
           /\ LocksOf("queue")
<1>1. UNCHANGED <<play, configs, pc, journal, pending, cleanupVars, side, storeVars>>
  BY DEF WorkspaceTurn, WorkspaceNext, StartQueue, EndQueue, KillQueue, dataVars, WorkerStep,
     StartWorker, InsertRow, MarkRunning,
     StoreCheckpoint, CompleteRun, RenderArtifacts, FailWorker, KillWorker, MarkAbandoned, workerLeft
<1>2. \/ held' = held
      \/ held' = held \cup {<<"activity", "queue">>}
      \/ held' = held \ ({"activity"} \X {"queue"})
  BY DEF WorkspaceTurn, WorkspaceNext, StartQueue, EndQueue, KillQueue, dataVars, WorkerStep,
     StartWorker, InsertRow, MarkRunning,
     StoreCheckpoint, CompleteRun, RenderArtifacts, FailWorker, KillWorker, MarkAbandoned, workerLeft, Release
<1>3. LocksOf("queue")
  BY <1>2 DEF LocksOf, Locks, Owners
<1> QED
  BY <1>1, <1>3

\* clean_training.py.
LEMMA CleanupFrame ==
    ASSUME held \subseteq Locks \X Owners, pc \in [Tools -> Labels], CleanupTurn
    PROVE  /\ UNCHANGED <<play, worker, configs, pending, side, storeVars>>
           /\ LocksOf("cleanup") /\ TurnOf("cleanup")
<1>1. UNCHANGED <<play, worker, configs, pending, side, storeVars>>
  BY DEF CleanupTurn, CleanupNext, CleanupStep, OpenCleanup, LockTables, MakePlan, PlanReset,
     Decline, WriteTemporary, WriteJournal, StageDirectory, DeleteRows, Relock, Judge,
     RestoreDirectory, PurgeDirectory, FinishPending, CommitCleanup, StopCleanup, shared
<1>2. \/ held' = held
      \/ \E locks \in SUBSET Locks : held' = held \cup (locks \X {"cleanup"})
      \/ \E locks \in SUBSET Locks : held' = held \ (locks \X {"cleanup"})
  <2>1. {"maintenance"} \in SUBSET Locks /\ {"tables"} \in SUBSET Locks /\ Locks \in SUBSET Locks
    BY DEF Locks
  <2> QED
    BY <2>1 DEF CleanupTurn, CleanupNext, CleanupStep, OpenCleanup, LockTables, MakePlan, PlanReset,
     Decline, WriteTemporary, WriteJournal, StageDirectory, DeleteRows, Relock, Judge,
     RestoreDirectory, PurgeDirectory, FinishPending, CommitCleanup, StopCleanup, CloseCleanup,
     Acquire, Release, Leave, cleanupLocals, cleanupVars
<1>3. LocksOf("cleanup")
  BY <1>2 DEF LocksOf, Locks, Owners, Tools
<1>4. pc' = pc \/ \E label : pc' = [pc EXCEPT !["cleanup"] = label]
  BY DEF CleanupTurn, CleanupNext, CleanupStep, OpenCleanup, LockTables, MakePlan, PlanReset,
     Decline, WriteTemporary, WriteJournal, StageDirectory, DeleteRows, Relock, Judge,
     RestoreDirectory, PurgeDirectory, FinishPending, CommitCleanup, StopCleanup, CloseCleanup,
     Leave, Goto
<1>5. TurnOf("cleanup")
  BY <1>4 DEF TurnOf, Tools
<1> QED
  BY <1>1, <1>3, <1>5

\* rename_runs.py.
LEMMA RenameFrame ==
    ASSUME held \subseteq Locks \X Owners, pc \in [Tools -> Labels], RenameTurn
    PROVE  /\ UNCHANGED <<play, worker, next, place, journal, cleanupVars, storeVars>>
           /\ LocksOf("rename") /\ TurnOf("rename")
<1>1. UNCHANGED <<play, worker, next, place, journal, cleanupVars, storeVars>>
  BY DEF RenameTurn, RenameNext, RenameStep, OpenMigration, OpenRecovery, BuildPlan, WritePending,
     ApplyDatabase, LookAtDatabase, FinishFile, ClearPending, StopRename, besides
<1>2. \/ held' = held
      \/ \E locks \in SUBSET Locks : held' = held \cup (locks \X {"rename"})
      \/ \E locks \in SUBSET Locks : held' = held \ (locks \X {"rename"})
  <2>1. RenameLocks \in SUBSET Locks /\ {"tables"} \in SUBSET Locks /\ Locks \in SUBSET Locks
    BY DEF Locks, RenameLocks
  <2> QED
    BY <2>1 DEF RenameTurn, RenameNext, RenameStep, OpenMigration, OpenRecovery, BuildPlan,
     WritePending, ApplyDatabase, LookAtDatabase, FinishFile, ClearPending, StopRename, CloseRename,
     Acquire, Release, Leave
<1>3. LocksOf("rename")
  BY <1>2 DEF LocksOf, Locks, Owners, Tools
<1>4. pc' = pc \/ \E label : pc' = [pc EXCEPT !["rename"] = label]
  BY DEF RenameTurn, RenameNext, RenameStep, OpenMigration, OpenRecovery, BuildPlan, WritePending,
     ApplyDatabase, LookAtDatabase, FinishFile, ClearPending, StopRename, CloseRename, Leave, Goto
<1>5. TurnOf("rename")
  BY <1>4 DEF TurnOf, Tools
<1> QED
  BY <1>1, <1>3, <1>5

\* cold_storage.py, as sync or as prune, and the disk it writes to.
LEMMA StoreFrame ==
    ASSUME held \subseteq Locks \X Owners, pc \in [Tools -> Labels], StoreTurn
    PROVE  /\ UNCHANGED <<play, worker, dataVars, cleanupVars, side>>
           /\ \E t \in Stores : LocksOf(t) /\ TurnOf(t)
<1>1. UNCHANGED <<play, worker, dataVars, cleanupVars, side>>
  BY DEF StoreTurn, StoreNext, SyncStep, PruneStep, OpenSync, CheckPrevious, Freeze, PutObject,
     Recheck, MarkCleanup, NameGeneration, PointCurrent, OpenPrune, ListGarbage, DeleteGeneration,
     GenerationsDeleted, DeleteObject, ClearMarker, StopStore, DamageObject, projectVars
<1>2. PICK t \in Stores :
         \/ held' = held /\ pc' = pc
         \/ /\ \/ held' = held
               \/ \E locks \in SUBSET Locks : held' = held \cup (locks \X {t})
               \/ \E locks \in SUBSET Locks : held' = held \ (locks \X {t})
            /\ \E label : pc' = [pc EXCEPT ![t] = label]
  <2>1. /\ {"maintenance", "activity", "store"} \in SUBSET Locks /\ {"tables"} \in SUBSET Locks
        /\ {"store"} \in SUBSET Locks /\ Locks \in SUBSET Locks
        /\ "sync" \in Stores /\ "prune" \in Stores
    BY DEF Locks, Stores
  <2>2. CASE OpenSync \/ SyncStep
    BY <2>1, <2>2 DEF SyncStep, OpenSync, CheckPrevious, Freeze, PutObject,
     Recheck, MarkCleanup, NameGeneration, PointCurrent, CloseStore, Acquire, Release, Leave, Goto
  <2>3. CASE OpenPrune \/ DamageObject
    BY <2>1, <2>3 DEF OpenPrune, DamageObject, Acquire, Goto
  <2>4. CASE \E t \in Stores : PruneStep(t) \/ StopStore(t)
    BY <2>1, <2>4 DEF PruneStep, ListGarbage, DeleteGeneration,
     GenerationsDeleted, DeleteObject, ClearMarker, StopStore, CloseStore, Release, Leave, Goto
  <2> QED
    BY <2>2, <2>3, <2>4 DEF StoreTurn, StoreNext
<1>3. LocksOf(t)
  BY <1>2 DEF LocksOf, Locks, Owners, Tools, Stores
<1>4. TurnOf(t)
  BY <1>2 DEF TurnOf, Tools, Stores
<1> QED
  BY <1>1, <1>3, <1>4

-----------------------------------------------------------------------------
(* Types *)

\* The types hold at the start.
LEMMA TypesInit == Init => Types
<1> SUFFICES ASSUME Init PROVE Types
  OBVIOUS
<1>1. WorkspaceTypes
  <2>1. MaxId \in Nat \ {0} /\ play.runs \subseteq Ids /\ play.faults \in Nat
    BY PlaysAssumption DEF Init, WorkspaceInit
  <2>2. rows \in [Registered -> Rows] /\ Registered \subseteq Ids
    BY <2>1 DEF Init, WorkspaceInit, Registered, Rows, Sides
  <2>3. worker \in [pc : {"off", "ready", "inserted", "running", "stored", "reporting"},
                   id : 0 .. MaxId, name : Sides, orphan : BOOLEAN]
    BY <2>1 DEF Init, WorkspaceInit, Off, Sides
  <2>4. journal \in Moves /\ pending \in [on : BOOLEAN, ids : SUBSET Ids]
    BY DEF Init, WorkspaceInit, NoPlan, NoRename, Moves
  <2>5. place \in [Ids -> SUBSET {"own", "trash"}] /\ configs \subseteq Sides
    BY DEF Init, WorkspaceInit, Sides
  <2> QED
    BY <2>1, <2>2, <2>3, <2>4, <2>5 DEF Init, WorkspaceInit, WorkspaceTypes, WorkspaceTypeOK, Moves
<1>2. LabelTypes
  BY DEF Init, WorkspaceInit, LabelTypes, Tools, Labels, CleanupLabels, RenameLabels, SyncLabels, PruneLabels
<1>3. CleanupTypes
  BY DEF Init, CleanupInit, CleanupTypes, NoPlan, Moves
<1>4. StoreTypes
  BY DEF Init, StoreInit, StoreTypes
<1> QED
  BY <1>1, <1>2, <1>3, <1>4 DEF Types

\* The lock table stays one.
LEMMA HeldTypes ==
    ASSUME Types, Next
    PROVE  held' \subseteq Locks \X Owners
<1>1. held \subseteq Locks \X Owners /\ pc \in [Tools -> Labels]
  BY DEF Types, WorkspaceTypes, WorkspaceTypeOK, LabelTypes, Owners
<1> QED
  BY <1>1, WorkspaceFrame, CleanupFrame, RenameFrame, StoreFrame DEF Next, LocksOf

\* A row keeps what its run was inserted with.
SameIdentity(j) ==
    rows'[j].name = rows[j].name /\ rows'[j].parent = rows[j].parent /\ rows'[j].stray = rows[j].stray

\* A run's row changes its status.
LEMMA RowChanged ==
    ASSUME rows \in [Registered -> Rows], NEW i \in Registered,
           NEW status \in {"pending", "running", "completed", "failed"},
           rows' = [rows EXCEPT ![i].status = status]
    PROVE  /\ rows' \in [Registered -> Rows] /\ Registered' = Registered
           /\ \A j \in Registered : SameIdentity(j)
           /\ rows'[i].status = status
           /\ \A j \in Registered : j # i => rows'[j] = rows[j]
<1>1. Registered' = Registered
  BY DEF Registered
<1>2. \A j \in Registered : rows[j] \in Rows
  OBVIOUS
<1>3. \A j \in Registered : rows'[j] = IF j = i THEN [rows[j] EXCEPT !.status = status] ELSE rows[j]
  BY DEF Registered
<1>4. \A j \in Registered : rows'[j] \in Rows
  BY <1>2, <1>3 DEF Rows
<1>5. rows' = [j \in Registered |-> rows'[j]]
  BY <1>1 DEF Registered
<1>6. rows' \in [Registered -> Rows]
  BY <1>4, <1>5
<1> QED
  BY <1>1, <1>2, <1>3, <1>6 DEF Rows, SameIdentity

\* What a worker's step does to rows, next and place.
LEMMA WorkspaceTypesByWorker ==
    ASSUME Types, WorkspaceTurn, WorkerInv
    PROVE  WorkspaceTypes'
<1> DEFINE pcs == {"off", "ready", "inserted", "running", "stored", "reporting"}
<1>1. /\ MaxId \in Nat \ {0} /\ play.faults \in Nat
      /\ rows \in [Registered -> Rows] /\ Registered \subseteq Ids
      /\ next \in 1 .. MaxId + 1 /\ place \in [Ids -> SUBSET {"own", "trash"}]
      /\ worker \in [pc : pcs, id : 0 .. MaxId, name : Sides, orphan : BOOLEAN]
      /\ configs \subseteq Sides /\ faults \in 0 .. play.faults
  BY PlaysAssumption DEF Types, WorkspaceTypes, WorkspaceTypeOK
<1>2. UNCHANGED <<play, configs, journal, pending>> /\ held' \subseteq Locks \X Owners
  BY WorkspaceFrame DEF LocksOf, Types, WorkspaceTypes, WorkspaceTypeOK, Owners
<1>3. Off \in [pc : pcs, id : 0 .. MaxId, name : Sides, orphan : BOOLEAN]
  BY <1>1 DEF Off, Sides
<1>4. \/ rows' = rows
      \/ InsertRow
      \/ \E i \in Registered, status \in {"running", "completed", "failed"} :
            rows' = [rows EXCEPT ![i].status = status]
  BY DEF WorkspaceTurn, WorkspaceNext, StartQueue, EndQueue, KillQueue, dataVars, WorkerStep, StartWorker, MarkRunning,
     StoreCheckpoint, CompleteRun, RenderArtifacts, FailWorker, KillWorker, MarkAbandoned, SetStatus
<1>5. rows' \in [Registered' -> Rows] /\ Registered' \subseteq Ids
  <2>1. CASE rows' = rows
    BY <1>1, <2>1 DEF Registered
  <2>2. CASE InsertRow
    <3>1. PICK parent \in {0} \cup Ids :
             rows' = [i \in Registered \cup {next} |->
                        IF i = next THEN [status |-> "pending", name |-> worker.name, parent |-> parent,
                         stray |-> worker.orphan]
                        ELSE rows[i]]
      BY <1>1, <2>2 DEF InsertRow, Completed
    <3>2. next \in Ids /\ parent \in 0 .. MaxId /\ worker.name \in Sides
      BY <1>1, <2>2, <3>1 DEF InsertRow, Ids
    <3>3. [status |-> "pending", name |-> worker.name, parent |-> parent,
                         stray |-> worker.orphan] \in Rows
      BY <1>1, <3>2 DEF Rows
    <3>4. Registered' = Registered \cup {next}
      BY <3>1 DEF Registered
    <3> QED
      BY <1>1, <3>1, <3>2, <3>3, <3>4
  <2>3. CASE \E i \in Registered, status \in {"running", "completed", "failed"} :
                rows' = [rows EXCEPT ![i].status = status]
    BY <1>1, <2>3, RowChanged
  <2> QED
    BY <1>4, <2>1, <2>2, <2>3
<1>6. /\ next' \in 1 .. MaxId + 1
      /\ place' \in [Ids -> SUBSET {"own", "trash"}]
      /\ faults' \in 0 .. play.faults
  <2>1. next' = next \/ (next \in Ids /\ next' = next + 1)
    BY DEF WorkspaceTurn, WorkspaceNext, StartQueue, EndQueue, KillQueue, dataVars, WorkerStep,
       StartWorker, InsertRow, MarkRunning,
       StoreCheckpoint, CompleteRun, RenderArtifacts, FailWorker, KillWorker, MarkAbandoned, workerLeft
  <2>2. next' \in 1 .. MaxId + 1
    BY <1>1, <2>1 DEF Ids
  <2>3. place' = place \/ WriteFile
    BY DEF WorkspaceTurn, WorkspaceNext, StartQueue, EndQueue, KillQueue, dataVars, WorkerStep,
       StartWorker, InsertRow, MarkRunning,
       StoreCheckpoint, CompleteRun, RenderArtifacts, FailWorker, KillWorker, MarkAbandoned
  <2>4. place' \in [Ids -> SUBSET {"own", "trash"}]
    BY <1>1, <2>3 DEF WriteFile
  <2>5. faults' = faults \/ (faults < play.faults /\ faults' = faults + 1)
    BY DEF WorkspaceTurn, WorkspaceNext, StartQueue, EndQueue, KillQueue, dataVars, WorkerStep,
       StartWorker, InsertRow, MarkRunning,
       StoreCheckpoint, CompleteRun, RenderArtifacts, FailWorker, KillWorker, MarkAbandoned
  <2>6. faults' \in 0 .. play.faults
    BY <1>1, <2>5
  <2> QED
    BY <2>2, <2>4, <2>6
<1>7. worker' \in [pc : pcs, id : 0 .. MaxId, name : Sides, orphan : BOOLEAN]
  <2>1. \/ worker' = worker \/ worker' = Off
        \/ \E name \in configs : worker' = [pc |-> "ready", id |-> 0, name |-> name, orphan |-> FALSE]
        \/ \E to \in pcs : worker' = [worker EXCEPT !.pc = to]
        \/ next \in Ids /\ worker' = [worker EXCEPT !.pc = "inserted", !.id = next]
        \/ worker' = [worker EXCEPT !.orphan = TRUE]
    BY DEF WorkspaceTurn, WorkspaceNext, StartQueue, EndQueue, KillQueue, dataVars, WorkerStep,
       StartWorker, InsertRow, MarkRunning,
       StoreCheckpoint, CompleteRun, RenderArtifacts, FailWorker, KillWorker, MarkAbandoned,
       Step
  <2>2. CASE \E name \in configs : worker' = [pc |-> "ready", id |-> 0, name |-> name, orphan |-> FALSE]
    BY <1>1, <2>2
  <2>3. CASE next \in Ids /\ worker' = [worker EXCEPT !.pc = "inserted", !.id = next]
    <3>1. next \in 0 .. MaxId
      BY <1>1, <2>3 DEF Ids
    <3>2. worker' = [[worker EXCEPT !.pc = "inserted"] EXCEPT !.id = next]
      BY <2>3
    <3>3. [worker EXCEPT !.pc = "inserted"] \in [pc : pcs, id : 0 .. MaxId, name : Sides, orphan : BOOLEAN]
      BY <1>1
    <3> QED
      BY <3>1, <3>2, <3>3
  <2> QED
    BY <1>1, <1>3, <2>1, <2>2, <2>3
<1> QED
  BY <1>1, <1>2, <1>5, <1>6, <1>7 DEF Types, WorkspaceTypes, WorkspaceTypeOK, Registered, Owners

\* What a step of clean_training.py does to them and to the journal.
LEMMA WorkspaceTypesByCleanup ==
    ASSUME Types, CleanupTurn
    PROVE  WorkspaceTypes'
<1>1. /\ MaxId \in Nat \ {0} /\ play.faults \in Nat
      /\ rows \in [Registered -> Rows] /\ Registered \subseteq Ids
      /\ next \in 1 .. MaxId + 1 /\ place \in [Ids -> SUBSET {"own", "trash"}]
      /\ faults \in 0 .. play.faults
      /\ plan \in Moves /\ journal \in Moves
  BY PlaysAssumption DEF Types, WorkspaceTypes, WorkspaceTypeOK, CleanupTypes, Moves
<1>2. UNCHANGED <<play, worker, configs, pending>> /\ held' \subseteq Locks \X Owners
  BY CleanupFrame DEF LocksOf, Types, WorkspaceTypes, WorkspaceTypeOK, LabelTypes, Owners
<1>3. rows' = rows \/ rows' = [i \in Registered \ plan.ids |-> rows[i]]
  BY DEF CleanupTurn, CleanupNext, CleanupStep, OpenCleanup, LockTables, MakePlan, PlanReset,
     Decline, WriteTemporary, WriteJournal, StageDirectory, DeleteRows, Relock, Judge,
     RestoreDirectory, PurgeDirectory, FinishPending, CommitCleanup, StopCleanup, Restrict
<1>4. rows' \in [Registered' -> Rows] /\ Registered' \subseteq Ids
  BY <1>1, <1>3 DEF Registered
<1>5. next' \in {next, 1} /\ faults' \in 0 .. play.faults
  BY <1>1 DEF CleanupTurn, CleanupNext, CleanupStep, OpenCleanup, LockTables, MakePlan, PlanReset,
     Decline, WriteTemporary, WriteJournal, StageDirectory, DeleteRows, Relock, Judge,
     RestoreDirectory, PurgeDirectory, FinishPending, CommitCleanup, StopCleanup, CommitSequences,
     RestartValue
<1>6. place' = place \/ \E i, new : place' = [place EXCEPT ![i] = new]
                                      /\ (i \in Ids => new \in SUBSET {"own", "trash"})
  BY <1>1 DEF CleanupTurn, CleanupNext, CleanupStep, OpenCleanup, LockTables, MakePlan, PlanReset,
     Decline, WriteTemporary, WriteJournal, StageDirectory, DeleteRows, Relock, Judge,
     RestoreDirectory, PurgeDirectory, FinishPending, CommitCleanup, StopCleanup, Put
<1>7. place' \in [Ids -> SUBSET {"own", "trash"}]
  BY <1>1, <1>6
<1>8. journal' \in {journal, plan, NoPlan}
  BY DEF CleanupTurn, CleanupNext, CleanupStep, OpenCleanup, LockTables, MakePlan, PlanReset,
     Decline, WriteTemporary, WriteJournal, StageDirectory, DeleteRows, Relock, Judge,
     RestoreDirectory, PurgeDirectory, FinishPending, CommitCleanup, StopCleanup
<1>9. journal' \in Moves
  <2>1. NoPlan \in Moves
    BY DEF NoPlan, Moves
  <2> QED
    BY <1>1, <1>8, <2>1
<1> QED
  BY <1>1, <1>2, <1>4, <1>5, <1>7, <1>9
     DEF Types, WorkspaceTypes, WorkspaceTypeOK, Registered, Owners, Moves

\* What a step of rename_runs.py does to rows, files and pending.json.
LEMMA WorkspaceTypesByRename ==
    ASSUME Types, RenameTurn, RenameInv
    PROVE  WorkspaceTypes'
<1>1. /\ play.faults \in Nat
      /\ rows \in [Registered -> Rows] /\ Registered \subseteq Ids
      /\ configs \subseteq Sides /\ faults \in 0 .. play.faults /\ side \in {"none"} \cup Sides
      /\ pending \in [on : BOOLEAN, ids : SUBSET Ids]
  BY PlaysAssumption DEF Types, WorkspaceTypes, WorkspaceTypeOK, LabelTypes
<1>2. UNCHANGED <<play, worker, next, place, journal>> /\ held' \subseteq Locks \X Owners
  BY RenameFrame DEF LocksOf, Types, WorkspaceTypes, WorkspaceTypeOK, LabelTypes, Owners
<1>3. rows' = rows \/ rows' = [i \in Registered |-> [rows[i] EXCEPT !.name = "new"]]
  BY DEF RenameTurn, RenameNext, RenameStep, OpenMigration, OpenRecovery, BuildPlan, WritePending,
     ApplyDatabase, LookAtDatabase, FinishFile, ClearPending, StopRename
<1>4. rows' \in [Registered' -> Rows] /\ Registered' \subseteq Ids
  BY <1>1, <1>3 DEF Registered, Rows, Sides
<1>5. faults' \in 0 .. play.faults
  BY <1>1 DEF RenameTurn, RenameNext, RenameStep, OpenMigration, OpenRecovery, BuildPlan, WritePending,
     ApplyDatabase, LookAtDatabase, FinishFile, ClearPending, StopRename
<1>6. pending' \in {pending, [on |-> TRUE, ids |-> Registered], NoRename}
  BY DEF RenameTurn, RenameNext, RenameStep, OpenMigration, OpenRecovery, BuildPlan, WritePending,
     ApplyDatabase, LookAtDatabase, FinishFile, ClearPending, StopRename
<1>7. pending' \in [on : BOOLEAN, ids : SUBSET Ids]
  <2>1. NoRename \in [on : BOOLEAN, ids : SUBSET Ids]
    BY DEF NoRename
  <2>2. [on |-> TRUE, ids |-> Registered] \in [on : BOOLEAN, ids : SUBSET Ids]
    BY <1>1
  <2> QED
    BY <1>1, <1>6, <2>1, <2>2
<1>8. configs' \subseteq Sides
  <2>1. CASE FinishFile
    BY <1>1, <2>1 DEF FinishFile, Sides, RenameInv, AtRename
  <2>2. CASE ~ FinishFile
    BY <1>1, <2>2 DEF RenameTurn, RenameNext, RenameStep, OpenMigration, OpenRecovery, BuildPlan,
       WritePending, ApplyDatabase, LookAtDatabase, ClearPending, StopRename
  <2> QED
    BY <2>1, <2>2
<1> QED
  BY <1>1, <1>2, <1>4, <1>5, <1>7, <1>8
     DEF Types, WorkspaceTypes, WorkspaceTypeOK, Registered, Owners

\* A step of cold_storage.py leaves the project alone.
LEMMA WorkspaceTypesByStore ==
    ASSUME Types, StoreTurn
    PROVE  WorkspaceTypes'
<1>1. /\ play.faults \in Nat /\ faults \in 0 .. play.faults
  BY PlaysAssumption DEF Types, WorkspaceTypes, WorkspaceTypeOK
<1>2. UNCHANGED <<play, worker, dataVars>> /\ held' \subseteq Locks \X Owners
  BY StoreFrame DEF LocksOf, Types, WorkspaceTypes, WorkspaceTypeOK, LabelTypes, Owners
<1>3. faults' \in 0 .. play.faults
  <2>1. faults' = faults \/ (faults < play.faults /\ faults' = faults + 1)
    BY DEF StoreTurn, StoreNext, SyncStep, PruneStep, OpenSync, CheckPrevious, Freeze, PutObject,
     Recheck, MarkCleanup, NameGeneration, PointCurrent, OpenPrune, ListGarbage, DeleteGeneration,
     GenerationsDeleted, DeleteObject, ClearMarker, StopStore, DamageObject
  <2> QED
    BY <1>1, <2>1
<1> QED
  BY <1>1, <1>2, <1>3 DEF dataVars, Types, WorkspaceTypes, WorkspaceTypeOK, Registered, Owners

\* Every tool stays at one of its own places.
LEMMA LabelTypesKept ==
    ASSUME Types, Next
    PROVE  LabelTypes'
<1>1. LabelTypes /\ held \subseteq Locks \X Owners /\ pc \in [Tools -> Labels]
  BY DEF Types, LabelTypes, WorkspaceTypes, WorkspaceTypeOK, Owners
<1>2. CASE WorkspaceTurn
  BY <1>1, <1>2, WorkspaceFrame DEF LabelTypes
<1>3. CASE CleanupTurn
  <2>1. pc' = pc \/ \E label \in CleanupLabels : pc' = [pc EXCEPT !["cleanup"] = label]
    BY <1>3 DEF CleanupTurn, CleanupNext, CleanupStep, OpenCleanup, LockTables, MakePlan, PlanReset,
     Decline, WriteTemporary, WriteJournal, StageDirectory, DeleteRows, Relock, Judge,
     RestoreDirectory, PurgeDirectory, FinishPending, CommitCleanup, StopCleanup, CloseCleanup,
     Leave, Goto, AfterLock, CleanupLabels, cleanupVars
  <2>2. side' = side
    BY <1>3 DEF CleanupTurn
  <2> QED
    BY <1>1, <2>1, <2>2 DEF LabelTypes, CleanupLabels, Labels, Tools
<1>4. CASE RenameTurn
  <2>1. pc' = pc \/ \E label \in RenameLabels : pc' = [pc EXCEPT !["rename"] = label]
    BY <1>4 DEF RenameTurn, RenameNext, RenameStep, OpenMigration, OpenRecovery, BuildPlan, WritePending,
     ApplyDatabase, LookAtDatabase, FinishFile, ClearPending, StopRename, CloseRename, Leave, Goto,
     RenameLabels
  <2>2. side' \in {side, "none"} \/ (side' = DbSide /\ DbSide # "neither")
    BY <1>4 DEF RenameTurn, RenameNext, RenameStep, OpenMigration, OpenRecovery, BuildPlan, WritePending,
     ApplyDatabase, LookAtDatabase, FinishFile, ClearPending, StopRename, CloseRename
  <2>3. DbSide \in {"neither", "old", "new"}
    BY DEF DbSide
  <2>4. side' \in {"none"} \cup Sides
    BY <1>1, <2>2, <2>3 DEF LabelTypes, Sides
  <2> QED
    BY <1>1, <2>1, <2>4 DEF LabelTypes, RenameLabels, Labels, Tools
<1>5. CASE StoreTurn
  <2>1. \/ pc' = pc
        \/ \E label \in SyncLabels : pc' = [pc EXCEPT !["sync"] = label]
        \/ \E label \in PruneLabels : pc' = [pc EXCEPT !["prune"] = label]
    <3>1. CASE OpenSync \/ SyncStep
      BY <3>1 DEF SyncStep, OpenSync, CheckPrevious, Freeze, PutObject,
         Recheck, MarkCleanup, NameGeneration, PointCurrent, CloseStore, Leave, Goto, SyncLabels
    <3>2. CASE OpenPrune \/ DamageObject
      BY <3>2 DEF OpenPrune, DamageObject, Goto, PruneLabels
    <3>3. CASE \E t \in Stores : PruneStep(t) \/ StopStore(t)
      BY <3>3 DEF PruneStep, ListGarbage, DeleteGeneration, Stores, SyncLabels, PruneLabels,
         GenerationsDeleted, DeleteObject, ClearMarker, StopStore, CloseStore, Leave, Goto
    <3> QED
      BY <1>5, <3>1, <3>2, <3>3 DEF StoreTurn, StoreNext
  <2>2. side' = side
    BY <1>5 DEF StoreTurn
  <2> QED
    BY <1>1, <2>1, <2>2 DEF LabelTypes, SyncLabels, PruneLabels, Labels, Tools
<1> QED
  BY <1>2, <1>3, <1>4, <1>5 DEF Next

\* The local variables of clean_training.py.
LEMMA CleanupTypesKept ==
    ASSUME Types, Next
    PROVE  CleanupTypes'
<1>1. CleanupTypes /\ Registered \subseteq Ids /\ journal \in Moves
  BY DEF Types, WorkspaceTypes, WorkspaceTypeOK, Moves
<1>2. CASE WorkspaceTurn \/ RenameTurn \/ StoreTurn
  BY <1>1, <1>2 DEF WorkspaceTurn, RenameTurn, StoreTurn, cleanupVars, CleanupTypes
<1>3. CASE CleanupTurn
  <2>1. plan' = plan \/ plan' = NoPlan \/ MakePlan
    BY <1>3 DEF CleanupTurn, CleanupNext, CleanupStep, OpenCleanup, LockTables, PlanReset,
     Decline, WriteTemporary, WriteJournal, StageDirectory, DeleteRows, Relock, Judge,
     RestoreDirectory, PurgeDirectory, FinishPending, CommitCleanup, StopCleanup, CloseCleanup,
     cleanupVars, cleanupLocals
  <2>2. plan' \in Moves /\ plan'.moves \subseteq plan'.ids \cup plan'.orphans
    <3>1. CASE MakePlan
      BY <1>1, <3>1 DEF MakePlan, Moves, Orphans
    <3> QED
      <4>1. NoPlan \in Moves /\ NoPlan.moves \subseteq NoPlan.ids \cup NoPlan.orphans
        BY DEF NoPlan, Moves
      <4> QED
        BY <1>1, <2>1, <3>1, <4>1 DEF CleanupTypes
  <2>3. left' \in {left, {}, plan.moves, journal.moves} \/ \E i : left' = left \ {i}
    BY <1>3 DEF CleanupTurn, CleanupNext, CleanupStep, OpenCleanup, LockTables, PlanReset, MakePlan,
     Decline, WriteTemporary, WriteJournal, StageDirectory, DeleteRows, Relock, Judge,
     RestoreDirectory, PurgeDirectory, FinishPending, CommitCleanup, StopCleanup, CloseCleanup,
     cleanupVars, cleanupLocals, Done
  <2>4. left' \subseteq Ids
    BY <1>1, <2>3 DEF CleanupTypes, Moves
  <2>5. /\ tmp' \in BOOLEAN /\ resetting' \in BOOLEAN
        /\ verdict' \in {"none", "restore", "purge"}
    <3>1. journal.all \in BOOLEAN
      BY <1>1 DEF Moves
    <3>2. tmp' \in {tmp, TRUE, FALSE}
      BY <1>3 DEF CleanupTurn, CleanupNext, CleanupStep, OpenCleanup, LockTables, PlanReset,
       MakePlan, Decline, WriteTemporary, WriteJournal, StageDirectory, DeleteRows, Relock, Judge,
       RestoreDirectory, PurgeDirectory, FinishPending, CommitCleanup, StopCleanup, cleanupVars
    <3>3. resetting' \in {resetting, TRUE, FALSE}
      BY <1>3, <3>1, Zenon DEF CleanupTurn, CleanupNext, CleanupStep, OpenCleanup, LockTables, PlanReset,
       MakePlan, Decline, WriteTemporary, WriteJournal, StageDirectory, DeleteRows, Relock, Judge,
       RestoreDirectory, PurgeDirectory, FinishPending, CommitCleanup, StopCleanup, CloseCleanup,
       cleanupVars, cleanupLocals, CommitSequences
    <3>4. verdict' \in {verdict, "none", Judged}
      BY <1>3 DEF CleanupTurn, CleanupNext, CleanupStep, OpenCleanup, LockTables, PlanReset,
       MakePlan, Decline, WriteTemporary, WriteJournal, StageDirectory, DeleteRows, Relock, Judge,
       RestoreDirectory, PurgeDirectory, FinishPending, CommitCleanup, StopCleanup, CloseCleanup,
       cleanupVars, cleanupLocals, CommitSequences
    <3> QED
      BY <1>1, <3>2, <3>3, <3>4 DEF CleanupTypes, Judged
  <2> QED
    BY <2>2, <2>4, <2>5 DEF CleanupTypes
<1> QED
  BY <1>2, <1>3 DEF Next

\* The backup disk.
LEMMA StoreTypesKept ==
    ASSUME Types, DocumentInv, Next
    PROVE  StoreTypes'
<1>1. StoreTypes
  BY DEF Types
<1>2. CASE WorkspaceTurn \/ CleanupTurn \/ RenameTurn
  BY <1>1, <1>2 DEF WorkspaceTurn, CleanupTurn, RenameTurn, storeVars, StoreTypes
<1>3. CASE StoreTurn
  <2>1. bad' \subseteq objects'
    <3>1. CASE OpenSync \/ SyncStep
      BY <1>1, <3>1 DEF SyncStep, OpenSync, CheckPrevious, Freeze, PutObject,
         Recheck, MarkCleanup, NameGeneration, PointCurrent, storeVars, StoreTypes
    <3>2. CASE OpenPrune \/ DamageObject
      BY <1>1, <3>2 DEF OpenPrune, DamageObject, storeVars, StoreTypes
    <3>3. CASE \E t \in Stores : PruneStep(t) \/ StopStore(t)
      BY <1>1, <3>3 DEF PruneStep, ListGarbage, DeleteGeneration, StoreTypes,
         GenerationsDeleted, DeleteObject, ClearMarker, StopStore
    <3> QED
      BY <1>3, <3>1, <3>2, <3>3 DEF StoreTurn, StoreNext
  <2>2. \/ gens' = gens
        \/ \E g \in Generations : gens' = [gens EXCEPT ![g] = Nothing]
        \/ \E g \in Generations : pc["sync"] = "publish" /\ gens' = [gens EXCEPT ![g] = doc]
    <3>1. CASE OpenSync \/ SyncStep
      BY <3>1 DEF SyncStep, OpenSync, CheckPrevious, Freeze, PutObject,
         Recheck, MarkCleanup, NameGeneration, PointCurrent, storeVars, AtStore
    <3>2. CASE OpenPrune \/ DamageObject
      BY <3>2 DEF OpenPrune, DamageObject, storeVars
    <3>3. CASE \E t \in Stores : PruneStep(t) \/ StopStore(t)
      BY <3>3 DEF PruneStep, ListGarbage, DeleteGeneration, Old,
         GenerationsDeleted, DeleteObject, ClearMarker, StopStore
    <3> QED
      BY <1>3, <3>1, <3>2, <3>3 DEF StoreTurn, StoreNext
  <2>3. gens' \in [Generations -> Documents \cup {Nothing}]
    <3>1. gens \in [Generations -> Documents \cup {Nothing}]
      BY <1>1 DEF StoreTypes
    <3>2. pc["sync"] = "publish" => doc \in Documents
      BY DEF DocumentInv
    <3> QED
      BY <2>2, <3>1, <3>2
  <2>4. current' = current \/ (pc["sync"] = "point" /\ current' = fresh)
    <3>1. CASE OpenSync \/ SyncStep
      BY <3>1 DEF SyncStep, OpenSync, CheckPrevious, Freeze, PutObject,
         Recheck, MarkCleanup, NameGeneration, PointCurrent, storeVars, AtStore
    <3>2. CASE OpenPrune \/ DamageObject
      BY <3>2 DEF OpenPrune, DamageObject, storeVars
    <3>3. CASE \E t \in Stores : PruneStep(t) \/ StopStore(t)
      BY <3>3 DEF PruneStep, ListGarbage, DeleteGeneration,
         GenerationsDeleted, DeleteObject, ClearMarker, StopStore
    <3> QED
      BY <1>3, <3>1, <3>2, <3>3 DEF StoreTurn, StoreNext
  <2>5. current' \in Generations \cup {Nothing}
    BY <1>1, <2>4 DEF DocumentInv, StoreTypes
  <2>6. marker' \in BOOLEAN /\ litter' \in BOOLEAN
    <3>1. marker' \in {marker, TRUE, FALSE} /\ litter' \in {litter, TRUE, FALSE}
      <4>1. CASE OpenSync \/ SyncStep
        BY <4>1 DEF SyncStep, OpenSync, CheckPrevious, Freeze, PutObject,
           Recheck, MarkCleanup, NameGeneration, PointCurrent, storeVars, AtStore
      <4>2. CASE OpenPrune \/ DamageObject
        BY <4>2 DEF OpenPrune, DamageObject, storeVars
      <4>3. CASE \E t \in Stores : PruneStep(t) \/ StopStore(t)
        BY <4>3 DEF PruneStep, ListGarbage, DeleteGeneration,
           GenerationsDeleted, DeleteObject, ClearMarker, StopStore
      <4> QED
        BY <1>3, <4>1, <4>2, <4>3 DEF StoreTurn, StoreNext
    <3> QED
      BY <1>1, <3>1 DEF StoreTypes
  <2>7. sweep' = sweep \/ \E t, s : sweep' = [sweep EXCEPT ![t] = s]
    <3>1. CASE OpenSync \/ SyncStep
      BY <3>1 DEF SyncStep, OpenSync, CheckPrevious, Freeze, PutObject,
         Recheck, MarkCleanup, NameGeneration, PointCurrent, storeVars, CloseStore
    <3>2. CASE OpenPrune \/ DamageObject
      BY <3>2 DEF OpenPrune, DamageObject, storeVars
    <3>3. CASE \E t \in Stores : PruneStep(t) \/ StopStore(t)
      BY <3>3 DEF PruneStep, ListGarbage, DeleteGeneration,
         GenerationsDeleted, DeleteObject, ClearMarker, StopStore, CloseStore
    <3> QED
      BY <1>3, <3>1, <3>2, <3>3 DEF StoreTurn, StoreNext
  <2>8. DOMAIN sweep' = Stores
    BY <1>1, <2>7 DEF StoreTypes
  <2> QED
    BY <2>1, <2>3, <2>5, <2>6, <2>8 DEF StoreTypes
<1> QED
  BY <1>2, <1>3 DEF Next

\* The types are kept by every step.
LEMMA TypesKept ==
    ASSUME Types, WorkerInv, RenameInv, DocumentInv, Next
    PROVE  Types'
<1>1. WorkspaceTypes'
  BY WorkspaceTypesByWorker, WorkspaceTypesByCleanup, WorkspaceTypesByRename, WorkspaceTypesByStore
     DEF Next
<1> QED
  BY <1>1, LabelTypesKept, CleanupTypesKept, StoreTypesKept DEF Types

-----------------------------------------------------------------------------
(* Locks *)

\* Whoever takes a lock found it free, whoever gives one back is its owner.
LEMMA OneOwnerKept ==
    ASSUME Types, LockInv, Next
    PROVE  OneOwner'
<1>1. OneOwner /\ held \subseteq Locks \X Owners /\ Tools \subseteq Owners
  BY DEF Types, WorkspaceTypes, WorkspaceTypeOK, LockInv, Owners
<1>2. \/ held' \subseteq held
      \/ held' = held \cup {<<"activity", "queue">>}
         /\ \A t \in Tools : <<"activity", t>> \notin held
      \/ \E o \in Tools, locks \in SUBSET Locks : Acquire(o, locks)
  <2>1. CASE WorkspaceTurn
    <3>1. CASE StartQueue
      BY <3>1 DEF StartQueue, QueueGuard
    <3>2. CASE StartWorker
      BY <3>2 DEF StartWorker
    <3> QED
      BY <2>1, <3>1, <3>2 DEF WorkspaceTurn, WorkspaceNext, EndQueue, KillQueue, WorkerStep, InsertRow, MarkRunning,
         StoreCheckpoint, CompleteRun, RenderArtifacts, FailWorker, KillWorker, MarkAbandoned, Release
  <2>2. CASE CleanupTurn
    <3>1. /\ {"maintenance"} \in SUBSET Locks /\ {"tables"} \in SUBSET Locks
          /\ "cleanup" \in Tools
      BY DEF Locks, Tools
    <3> QED
      BY <2>2, <3>1 DEF CleanupTurn, CleanupNext, CleanupStep, OpenCleanup, LockTables, MakePlan,
       PlanReset, Decline, WriteTemporary, WriteJournal, StageDirectory, DeleteRows, Relock, Judge,
       RestoreDirectory, PurgeDirectory, FinishPending, CommitCleanup, StopCleanup, CloseCleanup,
       Release, Leave, cleanupLocals, cleanupVars
  <2>3. CASE RenameTurn
    <3>1. RenameLocks \in SUBSET Locks /\ {"tables"} \in SUBSET Locks /\ "rename" \in Tools
      BY DEF Locks, RenameLocks, Tools
    <3> QED
      BY <2>3, <3>1 DEF RenameTurn, RenameNext, RenameStep, OpenMigration, OpenRecovery, BuildPlan,
       WritePending, ApplyDatabase, LookAtDatabase, FinishFile, ClearPending, StopRename,
       CloseRename, Release, Leave
  <2>4. CASE StoreTurn
    <3>1. /\ {"maintenance", "activity", "store"} \in SUBSET Locks /\ {"tables"} \in SUBSET Locks
          /\ {"store"} \in SUBSET Locks /\ "sync" \in Tools /\ "prune" \in Tools
      BY DEF Locks, Tools
    <3>2. CASE OpenSync \/ SyncStep
      BY <3>1, <3>2 DEF SyncStep, OpenSync, CheckPrevious, Freeze, PutObject,
       Recheck, MarkCleanup, NameGeneration, PointCurrent, CloseStore, Release, Leave
    <3>3. CASE OpenPrune \/ DamageObject
      BY <3>1, <3>3 DEF OpenPrune, DamageObject
    <3>4. CASE \E t \in Stores : PruneStep(t) \/ StopStore(t)
      BY <3>4 DEF PruneStep, ListGarbage, DeleteGeneration,
       GenerationsDeleted, DeleteObject, ClearMarker, StopStore, CloseStore, Release, Leave
    <3> QED
      BY <2>4, <3>2, <3>3, <3>4 DEF StoreTurn, StoreNext
  <2> QED
    BY <2>1, <2>2, <2>3, <2>4 DEF Next
<1>3. CASE held' \subseteq held
  BY <1>1, <1>3 DEF OneOwner
<1>4. CASE held' = held \cup {<<"activity", "queue">>}
           /\ \A t \in Tools : <<"activity", t>> \notin held
  BY <1>1, <1>4 DEF OneOwner, Owners
<1>5. CASE \E o \in Tools, locks \in SUBSET Locks : Acquire(o, locks)
  <2>1. PICK o \in Tools, locks \in SUBSET Locks : Acquire(o, locks)
    BY <1>5
  <2>2. \A l \in locks, b \in Owners : <<l, b>> \notin held
    BY <2>1 DEF Acquire, Free, Owners
  <2>3. \A l, b : <<l, b>> \in held' <=> <<l, b>> \in held \/ (l \in locks /\ b = o)
    BY <2>1 DEF Acquire
  <2> QED
    BY <1>1, <2>1, <2>2, <2>3 DEF OneOwner
<1> QED
  BY <1>2, <1>3, <1>4, <1>5

\* What cleanup holds at each of its places.
LEMMA CleanupLockedKept ==
    ASSUME Types, LockInv, Next
    PROVE  CleanupLocked'
<1>1. /\ CleanupLocked /\ held \subseteq Locks \X Owners /\ pc \in [Tools -> Labels]
      /\ "maintenance" \in Locks /\ "tables" \in Locks /\ "cleanup" \in Owners
  BY DEF Types, LabelTypes, WorkspaceTypes, WorkspaceTypeOK, LockInv, Owners, Locks, Tools
<1>2. CASE WorkspaceTurn \/ RenameTurn \/ StoreTurn
  <2>1. \E o \in Owners : o # "cleanup" /\ LocksOf(o)
    BY <1>1, <1>2, WorkspaceFrame, RenameFrame, StoreFrame DEF Owners, Tools, Stores
  <2>2. pc'["cleanup"] = pc["cleanup"]
    BY <1>1, <1>2, WorkspaceFrame, RenameFrame, StoreFrame DEF TurnOf, Tools, Stores
  <2> QED
    BY <1>1, <2>1, <2>2 DEF LocksOf, CleanupLocked
<1>3. CASE CleanupTurn
  <2> USE <1>1 DEF CleanupLocked, TablesHeld, Writing, At, Goto, Tools
  <2>1. CASE OpenCleanup
    BY <2>1 DEF OpenCleanup, Acquire
  <2>2. CASE LockTables
    BY <2>2 DEF LockTables, Acquire
  <2>3. CASE MakePlan \/ PlanReset \/ Decline
    BY <2>3 DEF MakePlan, PlanReset, Decline
  <2>4. CASE WriteTemporary
    BY <2>4 DEF WriteTemporary, CloseCleanup, Leave
  <2>5. CASE WriteJournal \/ StageDirectory
    BY <2>5 DEF WriteJournal, StageDirectory
  <2>6. CASE DeleteRows
    BY <2>6 DEF DeleteRows, Release
  <2>7. CASE Relock
    BY <2>7 DEF Relock, Acquire
  <2>8. CASE Judge
    BY <2>8 DEF Judge, CloseCleanup, Leave
  <2>9. CASE RestoreDirectory
    BY <2>9 DEF RestoreDirectory, CloseCleanup, Leave
  <2>10. CASE PurgeDirectory
    BY <2>10 DEF PurgeDirectory, CloseCleanup, Leave
  <2>11. CASE FinishPending
    BY <2>11 DEF FinishPending, CloseCleanup, Leave
  <2>12. CASE CommitCleanup \/ StopCleanup
    BY <2>12 DEF CommitCleanup, StopCleanup, CloseCleanup, Leave
  <2> QED
    BY <1>3, <2>1, <2>2, <2>3, <2>4, <2>5, <2>6, <2>7, <2>8, <2>9, <2>10, <2>11, <2>12
       DEF CleanupTurn, CleanupNext, CleanupStep
<1> QED
  BY <1>2, <1>3 DEF Next

\* What rename holds at each of its places.
LEMMA RenameLockedKept ==
    ASSUME Types, LockInv, Next
    PROVE  RenameLocked'
<1>1. /\ RenameLocked /\ held \subseteq Locks \X Owners /\ pc \in [Tools -> Labels]
      /\ "maintenance" \in Locks /\ "tables" \in Locks /\ "activity" \in Locks /\ "rename" \in Owners
  BY DEF Types, LabelTypes, WorkspaceTypes, WorkspaceTypeOK, LockInv, Owners, Locks, Tools
<1>2. CASE WorkspaceTurn \/ CleanupTurn \/ StoreTurn
  <2>1. \E o \in Owners : o # "rename" /\ LocksOf(o)
    BY <1>1, <1>2, WorkspaceFrame, CleanupFrame, StoreFrame DEF Owners, Tools, Stores
  <2>2. pc'["rename"] = pc["rename"]
    BY <1>1, <1>2, WorkspaceFrame, CleanupFrame, StoreFrame DEF TurnOf, Tools, Stores
  <2> QED
    BY <1>1, <2>1, <2>2 DEF LocksOf, RenameLocked
<1>3. CASE RenameTurn
  <2> USE <1>1 DEF RenameLocked, AtRename, Goto, Tools
  <2>1. CASE OpenMigration \/ OpenRecovery
    BY <2>1 DEF OpenMigration, OpenRecovery, RenameLocks, Acquire
  <2>2. CASE BuildPlan \/ LookAtDatabase
    BY <2>2 DEF BuildPlan, LookAtDatabase, CloseRename, Leave, Acquire
  <2>3. CASE WritePending \/ FinishFile
    BY <2>3 DEF WritePending, FinishFile
  <2>4. CASE ApplyDatabase
    BY <2>4 DEF ApplyDatabase, Release
  <2>5. CASE ClearPending \/ StopRename
    BY <2>5 DEF ClearPending, StopRename, CloseRename, Leave
  <2> QED
    BY <1>3, <2>1, <2>2, <2>3, <2>4, <2>5 DEF RenameTurn, RenameNext, RenameStep
<1> QED
  BY <1>2, <1>3 DEF Next

\* What sync and prune hold: the lock of the disk.
LEMMA StoreLockedKept ==
    ASSUME Types, LockInv, Next
    PROVE  StoreLocked'
<1>1. /\ StoreLocked /\ held \subseteq Locks \X Owners /\ pc \in [Tools -> Labels]
      /\ "store" \in Locks /\ Stores \subseteq Owners /\ Stores \subseteq Tools
  BY DEF Types, LabelTypes, WorkspaceTypes, WorkspaceTypeOK, LockInv, Owners, Locks, Tools, Stores
<1>2. CASE WorkspaceTurn \/ CleanupTurn \/ RenameTurn
  <2>1. \E o \in Owners : o \notin Stores /\ LocksOf(o)
    BY <1>1, <1>2, WorkspaceFrame, CleanupFrame, RenameFrame DEF Owners, Tools, Stores
  <2>2. \A t \in Stores : pc'[t] = pc[t]
    BY <1>1, <1>2, WorkspaceFrame, CleanupFrame, RenameFrame DEF TurnOf, Tools, Stores
  <2> QED
    BY <1>1, <2>1, <2>2 DEF LocksOf, StoreLocked
<1>3. CASE StoreTurn
  <2>1. PICK t \in Stores : LocksOf(t) /\ TurnOf(t)
    BY <1>1, <1>3, StoreFrame
  <2>2. ASSUME NEW u \in Stores, u # t PROVE pc'[u] # "off" => <<"store", u>> \in held'
    BY <1>1, <2>1, <2>2 DEF LocksOf, TurnOf, StoreLocked
  <2>3. pc'[t] # "off" => <<"store", t>> \in held'
    <3> USE <1>1 DEF StoreLocked, AtStore, Goto
    <3>1. CASE OpenSync
      <4>1. pc'["sync"] # "off" => <<"store", "sync">> \in held'
        BY <3>1 DEF OpenSync, Acquire
      <4>2. pc'["prune"] # "off" => <<"store", "prune">> \in held'
        BY <3>1 DEF OpenSync, Acquire, Stores
      <4> QED
        BY <4>1, <4>2 DEF Stores
    <3>2. CASE OpenPrune
      <4>1. pc'["prune"] # "off" => <<"store", "prune">> \in held'
        BY <3>2 DEF OpenPrune, Acquire
      <4>2. pc'["sync"] # "off" => <<"store", "sync">> \in held'
        BY <3>2 DEF OpenPrune, Acquire, Stores
      <4> QED
        BY <4>1, <4>2 DEF Stores
    <3>3. CASE DamageObject
      BY <3>3 DEF DamageObject
    <3>4. CASE SyncStep
      <4>1. "sync" \in Stores /\ "prune" \in Stores /\ pc["sync"] # "off"
        BY <3>4 DEF SyncStep, CheckPrevious, Freeze, PutObject, Recheck, MarkCleanup,
           NameGeneration, PointCurrent, Stores
      <4>2. \/ held \subseteq held' /\ pc'["prune"] = pc["prune"]
            \/ pc'["sync"] = "off" /\ held' = held \ (Locks \X {"sync"})
               /\ pc'["prune"] = pc["prune"]
        BY <3>4, <4>1 DEF SyncStep, CheckPrevious, Freeze, PutObject, Recheck, MarkCleanup,
           NameGeneration, PointCurrent, CloseStore, Leave, Release, Acquire
      <4> QED
        BY <4>1, <4>2 DEF Stores
    <3>5. ASSUME NEW u \in Stores, PruneStep(u) \/ StopStore(u)
          PROVE  pc'[t] # "off" => <<"store", t>> \in held'
      <4>1. pc[u] # "off"
        BY <3>5 DEF PruneStep, ListGarbage, DeleteGeneration, GenerationsDeleted, DeleteObject,
           ClearMarker, StopStore
      <4>2. \/ held' = held
            \/ pc'[u] = "off" /\ held' = held \ (Locks \X {u})
        BY <3>5 DEF PruneStep, ListGarbage, DeleteGeneration, GenerationsDeleted, DeleteObject,
           ClearMarker, StopStore, CloseStore, Leave, Release
      <4>3. \A v \in Stores : v # u => pc'[v] = pc[v]
        BY <3>5 DEF PruneStep, ListGarbage, DeleteGeneration, GenerationsDeleted, DeleteObject,
           ClearMarker, StopStore, CloseStore, Leave
      <4> QED
        BY <4>1, <4>2, <4>3
    <3> QED
      BY <1>3, <3>1, <3>2, <3>3, <3>4, <3>5 DEF StoreTurn, StoreNext
  <2> QED
    BY <2>2, <2>3 DEF StoreLocked
<1> QED
  BY <1>2, <1>3 DEF Next

\* A queue has the activity lock as long as it has a worker.
LEMMA WorkerLockedKept ==
    ASSUME Types, LockInv, Next
    PROVE  WorkerLocked'
<1>1. /\ WorkerLocked /\ held \subseteq Locks \X Owners /\ pc \in [Tools -> Labels]
      /\ "activity" \in Locks /\ "queue" \in Owners
  BY DEF Types, LabelTypes, WorkspaceTypes, WorkspaceTypeOK, LockInv, Owners, Locks, Tools
<1>2. CASE CleanupTurn \/ RenameTurn \/ StoreTurn
  <2>1. \E o \in Owners : o # "queue" /\ LocksOf(o)
    BY <1>1, <1>2, CleanupFrame, RenameFrame, StoreFrame DEF Owners, Tools, Stores
  <2>2. worker' = worker /\ play' = play
    BY <1>1, <1>2, CleanupFrame, RenameFrame, StoreFrame
  <2> QED
    BY <1>1, <2>1, <2>2 DEF LocksOf, WorkerLocked, QueueUp
<1>3. CASE WorkspaceTurn
  <2>1. play' = play
    BY <1>1, <1>3, WorkspaceFrame
  <2>2. CASE StartQueue
    BY <1>1, <2>1, <2>2 DEF StartQueue, WorkerLocked, QueueUp
  <2>3. CASE EndQueue
    BY <2>3 DEF EndQueue, WorkerLocked
  <2>4. CASE KillQueue
    <3>1. worker'.orphan
      BY <2>4 DEF KillQueue, Types, WorkspaceTypes, WorkspaceTypeOK
    <3> QED
      BY <3>1 DEF WorkerLocked
  <2>5. CASE StartWorker
    BY <1>1, <2>1, <2>5 DEF StartWorker, WorkerLocked, QueueUp
  <2>6. CASE worker' = Off
    BY <2>6 DEF WorkerLocked, Off
  <2>7. CASE held' = held /\ worker.pc # "off" /\ worker'.orphan = worker.orphan
    BY <1>1, <2>1, <2>7 DEF WorkerLocked, QueueUp
  <2>8. CASE held' = held /\ worker' = worker
    BY <1>1, <2>1, <2>8 DEF WorkerLocked, QueueUp
  <2>9. worker \in [pc : {"off", "ready", "inserted", "running", "stored", "reporting"},
                   id : 0 .. MaxId, name : Sides, orphan : BOOLEAN]
    BY DEF Types, WorkspaceTypes, WorkspaceTypeOK
  <2> QED
    BY <1>3, <2>2, <2>3, <2>4, <2>5, <2>6, <2>7, <2>8, <2>9 DEF WorkspaceTurn, WorkspaceNext,
       WorkerStep, InsertRow, MarkRunning, StoreCheckpoint, CompleteRun, RenderArtifacts, FailWorker,
       KillWorker, MarkAbandoned, Step, workerLeft
<1> QED
  BY <1>2, <1>3 DEF Next

\* The locks, all together.
LEMMA LocksKept ==
    ASSUME Types, LockInv, Next
    PROVE  LockInv'
BY OneOwnerKept, CleanupLockedKept, RenameLockedKept, StoreLockedKept, WorkerLockedKept DEF LockInv

-----------------------------------------------------------------------------
(* Rows, the worker and the journal *)

\* While cleanup holds the tables, nobody else changes a row.
LEMMA RowsStandStill ==
    ASSUME Types, LockInv, pc["cleanup"] \in TablesHeld, WorkspaceTurn \/ RenameTurn \/ StoreTurn
    PROVE  rows' = rows /\ next' = next /\ pc'["cleanup"] = pc["cleanup"]
<1>1. <<"tables", "cleanup">> \in held /\ ~ Free("tables")
  BY DEF LockInv, CleanupLocked, Free, Tools
<1>2. /\ held \subseteq Locks \X Owners /\ pc \in [Tools -> Labels]
      /\ "tables" \in Locks /\ "cleanup" \in Owners /\ "rename" \in Owners
  BY DEF Types, LabelTypes, WorkspaceTypes, WorkspaceTypeOK, Owners, Locks, Tools
<1>3. pc["rename"] # "apply"
  BY <1>1, <1>2 DEF LockInv, OneOwner, RenameLocked
<1>4. rows' = rows /\ next' = next
  BY <1>1, <1>3 DEF WorkspaceTurn, WorkspaceNext, StartQueue, EndQueue, KillQueue, dataVars, WorkerStep,
     StartWorker, InsertRow, MarkRunning,
     StoreCheckpoint, CompleteRun, RenderArtifacts, FailWorker, KillWorker, MarkAbandoned, workerLeft,
     RenameTurn, RenameNext, RenameStep, OpenMigration, OpenRecovery, BuildPlan, WritePending,
     ApplyDatabase, LookAtDatabase, FinishFile, ClearPending, StopRename, besides, AtRename,
     StoreTurn, StoreNext, SyncStep, PruneStep, OpenSync, CheckPrevious, Freeze, PutObject,
     Recheck, MarkCleanup, NameGeneration, PointCurrent, OpenPrune, ListGarbage, DeleteGeneration,
     GenerationsDeleted, DeleteObject, ClearMarker, StopStore, DamageObject, projectVars, dataVars
<1>5. pc'["cleanup"] = pc["cleanup"]
  BY <1>2, WorkspaceFrame, RenameFrame, StoreFrame DEF TurnOf, Tools, Stores
<1> QED
  BY <1>4, <1>5

\* A worker's row is new, or changes its status.
InsertedRow ==
    /\ Registered' = Registered \cup {next} /\ next' = next + 1
    /\ \A i \in Registered : rows'[i] = rows[i]
    /\ rows'[next].status = "pending" /\ rows'[next].name = worker.name
    /\ rows'[next].stray = worker.orphan
    /\ rows'[next].parent \in {0} \cup Registered
ChangedRow(i, status) ==
    /\ i \in Registered /\ Registered' = Registered /\ next' = next
    /\ \A j \in Registered : SameIdentity(j)
    /\ rows'[i].status = status
    /\ \A j \in Registered : j # i => rows'[j] = rows[j]
    /\ status \in {"running", "completed", "failed"}

\* A worker inserts one row or moves one row on.
LEMMA WorkerRows ==
    ASSUME Types, RowsInv, WorkspaceTurn
    PROVE  \/ rows' = rows /\ next' = next
           \/ InsertRow /\ InsertedRow
           \/ \E i, status : /\ ChangedRow(i, status)
                             /\ status = "completed" => CompleteRun /\ i = worker.id
<1>1. /\ rows \in [Registered -> Rows] /\ Registered \subseteq Ids /\ next \in 1 .. MaxId + 1
      /\ MaxId \in Nat
  BY PlaysAssumption DEF Types, WorkspaceTypes, WorkspaceTypeOK
<1>2. \/ rows' = rows /\ next' = next
      \/ InsertRow
      \/ /\ next' = next
         /\ \E i \in Registered, status \in {"running", "completed", "failed"} :
               /\ rows' = [rows EXCEPT ![i].status = status]
               /\ status = "completed" => CompleteRun /\ i = worker.id
  BY DEF WorkspaceTurn, WorkspaceNext, StartQueue, EndQueue, KillQueue, dataVars, WorkerStep, StartWorker, MarkRunning, workerLeft,
     StoreCheckpoint, CompleteRun, RenderArtifacts, FailWorker, KillWorker, MarkAbandoned, SetStatus
<1>3. CASE InsertRow
  <2>1. PICK parent \in {0} \cup Registered :
           rows' = [i \in Registered \cup {next} |->
                      IF i = next THEN [status |-> "pending", name |-> worker.name, parent |-> parent,
                         stray |-> worker.orphan]
                      ELSE rows[i]]
    BY <1>3 DEF InsertRow, Completed
  <2>2. next \notin Registered
    BY <1>1 DEF RowsInv, Ids
  <2>3. Registered' = Registered \cup {next}
    BY <2>1 DEF Registered
  <2>4. next' = next + 1
    BY <1>3 DEF InsertRow
  <2> QED
    BY <1>3, <2>1, <2>2, <2>3, <2>4 DEF InsertedRow
<1>4. CASE /\ next' = next
           /\ \E i \in Registered, status \in {"running", "completed", "failed"} :
                 /\ rows' = [rows EXCEPT ![i].status = status]
                 /\ status = "completed" => CompleteRun /\ i = worker.id
  <2>1. PICK i \in Registered, status \in {"running", "completed", "failed"} :
           /\ rows' = [rows EXCEPT ![i].status = status]
           /\ status = "completed" => CompleteRun /\ i = worker.id
    BY <1>4
  <2>2. ChangedRow(i, status)
    BY <1>1, <1>4, <2>1, RowChanged DEF ChangedRow
  <2> QED
    BY <2>1, <2>2
<1> QED
  BY <1>2, <1>3, <1>4

\* A worker only adds its own directory, and only as a run it trains or reports.
LEMMA WorkerPlaces ==
    ASSUME Types, WorkerInv, WorkspaceTurn
    PROVE  /\ place' \in [Ids -> SUBSET {"own", "trash"}]
           /\ \A i \in Ids : place[i] \subseteq place'[i] /\ place'[i] \subseteq place[i] \cup {"own"}
           /\ \/ place' = place
              \/ worker.id \in Ids /\ worker.id \in Registered /\ worker.id \in Running
              \/ play.plots
<1>1. place \in [Ids -> SUBSET {"own", "trash"}]
  BY DEF Types, WorkspaceTypes, WorkspaceTypeOK
<1>2. place' = place \/ (worker.pc \in {"running", "reporting"} /\ WriteFile)
  BY DEF WorkspaceTurn, WorkspaceNext, StartQueue, EndQueue, KillQueue, dataVars, WorkerStep, StartWorker, InsertRow, MarkRunning, Step,
     StoreCheckpoint, CompleteRun, RenderArtifacts, FailWorker, KillWorker, MarkAbandoned
<1>3. worker.pc = "running" => worker.id \in Ids /\ worker.id \in Registered /\ worker.id \in Running
  BY DEF WorkerInv, Running
<1>4. worker.pc = "reporting" => play.plots
  BY DEF WorkerInv
<1> QED
  BY <1>1, <1>2, <1>3, <1>4 DEF WriteFile

\* What cleanup does to the rows: it deletes those of its plan.
LEMMA CleanupRows ==
    ASSUME Types, CleanupTurn
    PROVE  \/ rows' = rows
           \/ /\ DeleteRows
              /\ Registered' = Registered \ plan.ids
              /\ \A i \in Registered' : rows'[i] = rows[i]
<1>1. \/ rows' = rows
      \/ DeleteRows /\ rows' = [i \in Registered \ plan.ids |-> rows[i]]
  BY DEF CleanupTurn, CleanupNext, CleanupStep, OpenCleanup, LockTables, MakePlan, PlanReset,
     Decline, WriteTemporary, WriteJournal, StageDirectory, DeleteRows, Relock, Judge,
     RestoreDirectory, PurgeDirectory, FinishPending, CommitCleanup, StopCleanup, Restrict
<1> QED
  BY <1>1 DEF Registered

\* A rename gives every row its new name and changes nothing else.
LEMMA RenameRows ==
    ASSUME Types, RenameTurn
    PROVE  \/ rows' = rows
           \/ /\ ApplyDatabase
              /\ Registered' = Registered
              /\ \A i \in Registered : /\ rows'[i].status = rows[i].status
                                       /\ rows'[i].parent = rows[i].parent
                                       /\ rows'[i].name = "new"
<1>1. \/ rows' = rows
      \/ ApplyDatabase /\ rows' = [i \in Registered |-> [rows[i] EXCEPT !.name = "new"]]
  BY DEF RenameTurn, RenameNext, RenameStep, OpenMigration, OpenRecovery, BuildPlan, WritePending,
     ApplyDatabase, LookAtDatabase, FinishFile, ClearPending, StopRename
<1>2. rows \in [Registered -> Rows]
  BY DEF Types, WorkspaceTypes
<1> QED
  BY <1>1, <1>2 DEF Registered, Rows

\* New ids are handed out in order, and a parent is not deleted before its child.
LEMMA RowsKept ==
    ASSUME Types, LockInv, RowsInv, PlanInv, ResetInv, Next
    PROVE  RowsInv'
<1>1. /\ rows \in [Registered -> Rows] /\ Registered \subseteq Ids /\ next \in 1 .. MaxId + 1
      /\ MaxId \in Nat
  BY PlaysAssumption DEF Types, WorkspaceTypes, WorkspaceTypeOK
<1>2. CASE WorkspaceTurn
  <2>1. CASE rows' = rows /\ next' = next
    BY <2>1 DEF RowsInv, Registered
  <2>2. CASE InsertedRow
    <3>1. \A i \in Registered : i < next + 1
      BY <1>1 DEF RowsInv, Ids
    <3> QED
      BY <1>1, <2>2, <3>1 DEF InsertedRow, RowsInv
  <2>3. CASE \E i, status : ChangedRow(i, status)
    BY <2>3 DEF ChangedRow, SameIdentity, RowsInv
  <2> QED
    BY <1>2, <2>1, <2>2, <2>3, WorkerRows
<1>3. CASE CleanupTurn
  <2>1. next' = next \/ (resetting /\ (CommitCleanup \/ DeleteRows))
    BY <1>3 DEF CleanupTurn, CleanupNext, CleanupStep, OpenCleanup, LockTables, MakePlan, PlanReset,
     Decline, WriteTemporary, WriteJournal, StageDirectory, DeleteRows, Relock, Judge,
     RestoreDirectory, PurgeDirectory, FinishPending, CommitCleanup, StopCleanup, CommitSequences
  <2>2. resetting => Registered = {}
    BY DEF ResetInv, ResetOpen
  <2>3. CASE rows' = rows
    BY <2>1, <2>2, <2>3 DEF RowsInv, Registered
  <2>4. CASE DeleteRows /\ Registered' = Registered \ plan.ids
             /\ \A i \in Registered' : rows'[i] = rows[i]
    <3>1. \A i \in Registered \ plan.ids : rows[i].parent \notin plan.ids
      BY <2>4 DEF PlanInv, Deletable, DeleteRows, At, Writing
    <3> QED
      BY <2>1, <2>2, <2>4, <3>1 DEF RowsInv
  <2> QED
    BY <1>3, <2>3, <2>4, CleanupRows
<1>4. CASE RenameTurn
  <2>1. next' = next
    BY <1>4 DEF RenameTurn, RenameNext, RenameStep, OpenMigration, OpenRecovery, BuildPlan, WritePending,
     ApplyDatabase, LookAtDatabase, FinishFile, ClearPending, StopRename, besides
  <2> QED
    BY <1>4, <2>1, RenameRows DEF RowsInv, Registered
<1>5. CASE StoreTurn
  <2>1. UNCHANGED <<rows, next>>
    BY <1>5, StoreFrame DEF dataVars, Types, WorkspaceTypes, WorkspaceTypeOK, LabelTypes, Owners
  <2> QED
    BY <2>1 DEF RowsInv, Registered
<1> QED
  BY <1>2, <1>3, <1>4, <1>5 DEF Next

\* Where cleanup takes directories while a worker trains: never its own.
LEMMA WorkersFilesStay ==
    ASSUME Types, WorkerInv, PlanInv, JournalInv, CleanupTurn, worker.pc = "stored"
    PROVE  "own" \in place'[worker.id]
<1>1. /\ worker.id \in Ids /\ worker.id \in Registered /\ worker.id \in Running
      /\ "own" \in place[worker.id]
      /\ place \in [Ids -> SUBSET {"own", "trash"}] /\ left \subseteq Ids
  BY DEF WorkerInv, Running, Types, CleanupTypes, WorkspaceTypes, WorkspaceTypeOK
<1>2. ~ StageDirectory
  BY <1>1 DEF StageDirectory, PlanInv, At, Writing
<1>3. CASE RestoreDirectory
  <2>1. First(left) \in left
    BY <1>1, <1>3, FirstIsOne DEF RestoreDirectory
  <2> QED
    BY <1>1, <1>3, <2>1 DEF RestoreDirectory, Put
<1>4. CASE PurgeDirectory
  <2>1. First(left) \in left
    BY <1>1, <1>4, FirstIsOne DEF PurgeDirectory
  <2>2. left \subseteq journal.ids \cup journal.orphans
        /\ (OrphanOnly => journal.orphans \cap Registered = {})
    BY <1>4 DEF JournalInv, PurgeDirectory
  <2>3. OrphanOnly => First(left) # worker.id
    BY <1>1, <2>1, <2>2 DEF OrphanOnly
  <2> QED
    BY <1>1, <1>4, <2>1, <2>3 DEF PurgeDirectory, Put
<1>5. StageDirectory \/ RestoreDirectory \/ PurgeDirectory \/ place' = place
  BY DEF CleanupTurn, CleanupNext, CleanupStep, OpenCleanup, LockTables, MakePlan, PlanReset,
     Decline, WriteTemporary, WriteJournal, DeleteRows, Relock, Judge, FinishPending, CommitCleanup,
     StopCleanup
<1> QED
  BY <1>1, <1>2, <1>3, <1>4, <1>5

\* The worker's row is the one it inserted, running while it trains.
LEMMA WorkerKept ==
    ASSUME Types, LockInv, RowsInv, WorkerInv, PlanInv, JournalInv, Next
    PROVE  WorkerInv'
<1>1. /\ rows \in [Registered -> Rows] /\ Registered \subseteq Ids
      /\ place \in [Ids -> SUBSET {"own", "trash"}]
      /\ worker \in [pc : {"off", "ready", "inserted", "running", "stored", "reporting"},
                     id : 0 .. MaxId, name : Sides, orphan : BOOLEAN]
  BY DEF Types, WorkspaceTypes, WorkspaceTypeOK
<1>2. CASE WorkspaceTurn
  <2>1. play' = play
    BY <1>2, WorkspaceFrame DEF Types, WorkspaceTypes, WorkspaceTypeOK, Owners
  <2>2. CASE StartWorker
    BY <2>2 DEF StartWorker, WorkerInv
  <2>3. CASE InsertRow
    BY <1>1, <2>3 DEF InsertRow, WorkerInv
  <2>4. CASE MarkRunning
    <3>1. worker.id \in Ids
      BY <2>4 DEF MarkRunning, Step, WorkerInv
    <3>2. /\ worker.id \in Registered' /\ rows'[worker.id].status = "running"
      BY <1>1, <2>4, RowChanged DEF MarkRunning, SetStatus
    <3>3. worker' = [worker EXCEPT !.pc = "running"]
      BY <2>4 DEF MarkRunning, Step
    <3> QED
      BY <1>1, <3>1, <3>2, <3>3 DEF WorkerInv
  <2>5. CASE StoreCheckpoint
    BY <1>1, <2>5 DEF StoreCheckpoint, Step, WorkerInv, WriteFile, Registered
  <2>6. CASE CompleteRun
    BY <1>1, <2>1, <2>6 DEF CompleteRun, WorkerInv, Off
  <2>7. CASE RenderArtifacts \/ FailWorker \/ KillWorker
    BY <2>7 DEF RenderArtifacts, FailWorker, KillWorker, WorkerInv, Off
  <2>8. CASE MarkAbandoned
    BY <2>8 DEF MarkAbandoned, WorkerInv
  <2>9. CASE StartQueue \/ EndQueue
    BY <2>9 DEF StartQueue, EndQueue, dataVars, WorkerInv, Registered
  <2>10. CASE KillQueue
    <3>1. worker'.pc = worker.pc /\ worker'.id = worker.id /\ UNCHANGED <<rows, place, play>>
      BY <1>1, <2>10 DEF KillQueue, dataVars
    <3> QED
      BY <3>1 DEF WorkerInv, Registered
  <2> QED
    BY <1>2, <2>2, <2>3, <2>4, <2>5, <2>6, <2>7, <2>8, <2>9, <2>10 DEF WorkspaceTurn, WorkspaceNext,
       WorkerStep
<1>3. CASE CleanupTurn
  <2>1. play' = play /\ worker' = worker
    BY <1>3, CleanupFrame DEF Types, WorkspaceTypes, WorkspaceTypeOK, LabelTypes, Owners
  <2>2. worker.pc \in {"running", "stored"} => rows' = rows
    <3>1. worker.pc \in {"running", "stored"} => worker.id \in Running
      BY DEF WorkerInv, Running
    <3>2. DeleteRows => Running = {}
      BY DEF DeleteRows, PlanInv, At, Writing
    <3> QED
      BY <1>3, <3>1, <3>2, CleanupRows
  <2> QED
    BY <1>3, <2>1, <2>2, WorkersFilesStay DEF WorkerInv, Registered
<1>4. CASE RenameTurn
  <2>1. play' = play /\ worker' = worker /\ place' = place
    BY <1>4, RenameFrame DEF Types, WorkspaceTypes, WorkspaceTypeOK, LabelTypes, Owners
  <2> QED
    BY <1>4, <2>1, RenameRows DEF WorkerInv, Registered
<1>5. CASE StoreTurn
  <2>1. UNCHANGED <<play, worker, rows, place>>
    BY <1>5, StoreFrame DEF dataVars, Types, WorkspaceTypes, WorkspaceTypeOK, LabelTypes, Owners
  <2> QED
    BY <2>1 DEF WorkerInv, Registered
<1> QED
  BY <1>2, <1>3, <1>4, <1>5 DEF Next

\* Nobody changes what cleanup planned while it holds the tables.
LEMMA PlanKeptByOthers ==
    ASSUME Types, LockInv, WorkerInv, PlanInv, WorkspaceTurn \/ RenameTurn \/ StoreTurn
    PROVE  PlanInv'
<1>1. UNCHANGED <<play, journal, plan, left>> /\ pc'["cleanup"] = pc["cleanup"]
  BY WorkspaceFrame, RenameFrame, StoreFrame DEF dataVars, cleanupVars, TurnOf, Tools, Stores,
     Types, WorkspaceTypes, WorkspaceTypeOK, LabelTypes, Owners
<1>2. CASE pc["cleanup"] \notin Writing
  BY <1>1, <1>2 DEF PlanInv, At, Writing
<1>3. CASE pc["cleanup"] \in Writing
  <2>1. rows' = rows /\ Running = {}
    BY <1>3, RowsStandStill DEF TablesHeld, PlanInv
  <2>2. place' = place \/ play.plots
    BY <2>1, WorkerPlaces, RenameFrame, StoreFrame DEF dataVars,
       Types, WorkspaceTypes, WorkspaceTypeOK, LabelTypes, Owners
  <2>3. /\ At("plan")' <=> At("plan")
        /\ At("write")' <=> At("write")
        /\ At("replace")' <=> At("replace")
        /\ At("commit")' <=> At("commit")
        /\ At("move")' <=> At("move")
    BY <1>1 DEF At
  <2>4. Registered' = Registered /\ Running' = Running
    BY <2>1 DEF Registered, Running
  <2>5. Deletable(plan.ids)' <=> Deletable(plan.ids)
    BY <1>1, <2>1 DEF Deletable, Registered
  <2>6. plan.all /\ ~ play.plots => Owned(IF At("move") THEN left ELSE plan.moves)'
    BY <1>1, <1>3, <2>2, <2>3 DEF Owned, PlanInv
  <2> QED
    BY <1>1, <1>3, <2>3, <2>4, <2>5, <2>6 DEF PlanInv
<1> QED
  BY <1>2, <1>3

\* A plan holds from the moment it is made to its commit.
LEMMA PlanKept ==
    ASSUME Types, LockInv, WorkerInv, PlanInv, Next
    PROVE  PlanInv'
<1>1. /\ pc \in [Tools -> Labels] /\ left \subseteq Ids /\ plan \in Moves /\ "cleanup" \in Tools
      /\ place \in [Ids -> SUBSET {"own", "trash"}] /\ Registered \subseteq Ids
  BY DEF Types, LabelTypes, CleanupTypes, WorkspaceTypes, WorkspaceTypeOK, Tools
<1>2. CASE CleanupTurn
  <2>1. play' = play
    BY <1>2 DEF CleanupTurn, CleanupNext, CleanupStep, OpenCleanup, LockTables, MakePlan, PlanReset,
     Decline, WriteTemporary, WriteJournal, StageDirectory, DeleteRows, Relock, Judge,
     RestoreDirectory, PurgeDirectory, FinishPending, CommitCleanup, StopCleanup, shared
  <2> USE <1>1
  <2>2. CASE pc'["cleanup"] \in {"off", "open", "relock", "judge", "finish"}
    BY <2>2 DEF PlanInv, At, Writing
  <2>3. CASE LockTables \/ PlanReset \/ Decline
    <3>1. /\ pc'["cleanup"] \in {"plan", "judge", "commit"} /\ journal' = journal
          /\ journal = NoPlan \/ pc'["cleanup"] = "judge"
      BY <2>3 DEF LockTables, PlanReset, Decline, AfterLock, Goto, PlanInv, At, shared
    <3> QED
      BY <3>1 DEF PlanInv, At, Writing
  <2>4. CASE MakePlan
    <3>1. PICK all \in BOOLEAN, S \in SUBSET Registered :
            LET orphans == IF all THEN Orphans ELSE {}
            IN /\ all => S = Registered
               /\ Deletable(S)
               /\ plan' = [all |-> all, ids |-> S, orphans |-> orphans,
                           moves |-> {i \in S \cup orphans : "own" \in place[i]}]
      BY <2>4 DEF MakePlan
    <3>2. /\ pc'["cleanup"] = "write" /\ journal' = journal /\ journal = NoPlan
          /\ rows' = rows /\ place' = place /\ Running = {}
      BY <2>4 DEF MakePlan, Goto, PlanInv, At
    <3>3. plan'.ids = S /\ plan'.all = all /\ plan'.orphans = (IF all THEN Orphans ELSE {})
          /\ plan'.moves = {i \in S \cup plan'.orphans : "own" \in place[i]}
      BY <3>1
    <3>4. Registered' = Registered /\ Running' = {}
      BY <3>2 DEF Registered, Running
    <3>5. Deletable(plan.ids)'
      BY <3>1, <3>2, <3>3 DEF Deletable, Registered
    <3>6. plan'.orphans \cap Registered = {}
      BY <3>3 DEF Orphans
    <3>7. plan'.all => Owned(plan.moves)'
      BY <3>1, <3>2, <3>3 DEF Owned, Orphans
    <3>8. ~ At("move")'
      BY <3>2 DEF At
    <3> QED
      BY <3>1, <3>2, <3>3, <3>4, <3>5, <3>6, <3>7, <3>8 DEF PlanInv, At
  <2>5. CASE WriteTemporary /\ ~ tmp
    <3>1. /\ pc'["cleanup"] = "replace" /\ pc["cleanup"] = "write"
          /\ UNCHANGED <<journal, plan, left, rows, place>>
      BY <2>5 DEF WriteTemporary, Goto, At, cleanupLocals
    <3> QED
      BY <2>1, <3>1 DEF PlanInv, At, Writing, Owned, Deletable, Running, Registered
  <2>6. CASE WriteJournal
    <3>1. /\ pc'["cleanup"] = "move" /\ pc["cleanup"] = "replace" /\ journal' = plan
          /\ left' = plan.moves /\ UNCHANGED <<plan, rows, place>>
      BY <2>6 DEF WriteJournal, Goto, At
    <3> QED
      BY <2>1, <3>1 DEF PlanInv, At, Writing, Owned, Deletable, Running, Registered
  <2>7. CASE StageDirectory
    <3>1. PICK i \in left : /\ i = First(left) /\ left' = left \ {i}
                            /\ place' = [place EXCEPT ![i] = (@ \ {"own"}) \cup {"trash"}]
      BY <2>7, FirstIsOne DEF StageDirectory
    <3>2. pc' = pc /\ pc["cleanup"] = "move" /\ UNCHANGED <<journal, plan, rows>>
      BY <2>7 DEF StageDirectory, At
    <3>3. Owned(left) => Owned(left)'
      BY <3>1 DEF Owned
    <3>4. Deletable(plan.ids)' <=> Deletable(plan.ids)
      BY <3>2 DEF Deletable, Registered
    <3>5. Registered' = Registered /\ Running' = Running
      BY <3>2 DEF Registered, Running
    <3> QED
      BY <2>1, <3>1, <3>2, <3>3, <3>4, <3>5 DEF PlanInv, At, Writing
  <2>8. CASE FinishPending /\ pc'["cleanup"] # "off"
    <3>1. journal' = NoPlan /\ pc'["cleanup"] \in {"plan", "commit"}
      BY <2>8 DEF FinishPending, CloseCleanup, Leave, Goto
    <3> QED
      BY <3>1 DEF PlanInv, At, Writing
  <2>9. \/ LockTables \/ PlanReset \/ Decline \/ MakePlan \/ WriteJournal \/ StageDirectory
        \/ WriteTemporary /\ ~ tmp
        \/ FinishPending /\ pc'["cleanup"] # "off"
        \/ pc'["cleanup"] \in {"off", "open", "relock", "judge", "finish"}
    <3>1. CloseCleanup => pc'["cleanup"] = "off"
      BY DEF CloseCleanup, Leave, Goto
    <3>2. OpenCleanup \/ Relock \/ DeleteRows \/ CommitCleanup \/ StopCleanup =>
            pc'["cleanup"] \in {"off", "open", "relock", "judge", "finish"}
      BY <3>1 DEF OpenCleanup, Relock, DeleteRows, CommitCleanup, StopCleanup, Goto
    <3>3. Judge \/ RestoreDirectory \/ PurgeDirectory =>
            pc'["cleanup"] \in {"off", "open", "relock", "judge", "finish"}
      BY <3>1 DEF Judge, RestoreDirectory, PurgeDirectory, Goto, At
    <3> QED
      BY <1>2, <3>1, <3>2, <3>3 DEF CleanupTurn, CleanupNext, CleanupStep, WriteTemporary
  <2> QED
    BY <2>2, <2>3, <2>4, <2>5, <2>6, <2>7, <2>8, <2>9
<1> QED
  BY <1>2, PlanKeptByOthers DEF Next

\* The verdict and what is left of the moves stay what the rows say.
LEMMA JournalKept ==
    ASSUME Types, LockInv, JournalInv, PlanInv, Next
    PROVE  JournalInv'
<1>1. /\ pc \in [Tools -> Labels] /\ left \subseteq Ids /\ plan \in Moves /\ "cleanup" \in Tools
      /\ journal \in Moves /\ plan.moves \subseteq plan.ids \cup plan.orphans
      /\ verdict \in {"none", "restore", "purge"}
  BY DEF Types, LabelTypes, CleanupTypes, WorkspaceTypes, WorkspaceTypeOK, Tools, Moves
<1>2. CASE WorkspaceTurn \/ RenameTurn \/ StoreTurn
  <2>1. UNCHANGED <<journal, left, verdict>> /\ pc'["cleanup"] = pc["cleanup"]
    BY <1>2, WorkspaceFrame, RenameFrame, StoreFrame DEF dataVars, cleanupVars, TurnOf, Tools, Stores,
       Types, WorkspaceTypes, WorkspaceTypeOK, LabelTypes, Owners
  <2>2. At("finish") => rows' = rows
    BY <1>2, RowsStandStill DEF TablesHeld, At
  <2> QED
    BY <2>1, <2>2 DEF JournalInv, At, Registered, OrphanOnly
<1>3. CASE CleanupTurn
  <2> USE <1>1
  <2>1. journal' \in {journal, plan, NoPlan}
    BY <1>3 DEF CleanupTurn, CleanupNext, CleanupStep, OpenCleanup, LockTables, MakePlan, PlanReset,
     Decline, WriteTemporary, WriteJournal, StageDirectory, DeleteRows, Relock, Judge,
     RestoreDirectory, PurgeDirectory, FinishPending, CommitCleanup, StopCleanup
  <2>2. journal'.moves \subseteq journal'.ids \cup journal'.orphans
    BY <2>1 DEF JournalInv, NoPlan
  <2>3. CASE Judge
    <3>1. pc'["cleanup"] = "finish" =>
            /\ Existing \in {{}, journal.ids}
            /\ OrphanOnly => journal.orphans \cap Registered = {}
            /\ verdict' = Judged /\ left' = journal.moves
      BY <2>3 DEF Judge, CloseCleanup, Leave, Goto
    <3>2. UNCHANGED <<journal, rows>>
      BY <2>3 DEF Judge
    <3> QED
      BY <2>2, <3>1, <3>2 DEF JournalInv, At, Judged, Existing, OrphanOnly, Registered
  <2>4. CASE RestoreDirectory \/ PurgeDirectory
    <3>1. UNCHANGED <<journal, rows>> /\ pc["cleanup"] = "finish"
      BY <2>4 DEF RestoreDirectory, PurgeDirectory, At
    <3>2. pc'["cleanup"] = "off" \/ (left' \subseteq left /\ verdict' = verdict)
      BY <2>4 DEF RestoreDirectory, PurgeDirectory, CloseCleanup, Leave, Goto, Done
    <3> QED
      BY <2>2, <3>1, <3>2 DEF JournalInv, At, OrphanOnly, Registered
  <2>5. Judge \/ RestoreDirectory \/ PurgeDirectory \/ pc'["cleanup"] # "finish"
    BY <1>3 DEF CleanupTurn, CleanupNext, CleanupStep, OpenCleanup, LockTables, MakePlan, PlanReset,
     Decline, WriteTemporary, WriteJournal, StageDirectory, DeleteRows, Relock,
     FinishPending, CommitCleanup, StopCleanup, CloseCleanup, Leave, Goto, At, AfterLock
  <2> QED
    BY <2>2, <2>3, <2>4, <2>5 DEF JournalInv, At
<1> QED
  BY <1>2, <1>3 DEF Next

-----------------------------------------------------------------------------
(* Directories *)

\* Who completes a run has stored a checkpoint of it.
LEMMA CompletedHasFiles ==
    ASSUME Types, RowsInv, WorkerInv, WorkspaceTurn
    PROVE  \A i \in Completed' : i \in Completed \/ "own" \in place[i]
<1>1. CASE rows' = rows
  BY <1>1 DEF Completed, Registered
<1>2. CASE InsertedRow
  BY <1>2 DEF InsertedRow, Completed
<1>3. CASE \E i, status : ChangedRow(i, status) /\ (status = "completed" => CompleteRun /\ i = worker.id)
  <2>1. PICK i, status : ChangedRow(i, status) /\ (status = "completed" => CompleteRun /\ i = worker.id)
    BY <1>3
  <2>2. CompleteRun => "own" \in place[worker.id]
    BY DEF CompleteRun, WorkerInv
  <2> QED
    BY <2>1, <2>2 DEF ChangedRow, Completed
<1> QED
  BY <1>1, <1>2, <1>3, WorkerRows

\* A staged directory is named by the journal and is not forgotten.
LEMMA StagedKept ==
    ASSUME Types, WorkerInv, PlanInv, JournalInv, Staged, Next
    PROVE  Staged'
<1>1. /\ pc \in [Tools -> Labels] /\ left \subseteq Ids /\ plan \in Moves /\ "cleanup" \in Tools
      /\ place \in [Ids -> SUBSET {"own", "trash"}]
  BY DEF Types, LabelTypes, CleanupTypes, WorkspaceTypes, WorkspaceTypeOK, Tools
<1>2. CASE WorkspaceTurn \/ RenameTurn \/ StoreTurn
  <2>1. UNCHANGED <<journal, left>> /\ pc'["cleanup"] = pc["cleanup"]
    BY <1>2, WorkspaceFrame, RenameFrame, StoreFrame DEF dataVars, cleanupVars, TurnOf, Tools, Stores,
       Types, WorkspaceTypes, WorkspaceTypeOK, LabelTypes, Owners
  <2>2. \A i \in Ids : "trash" \in place'[i] => "trash" \in place[i]
    BY <1>2, WorkerPlaces, RenameFrame, StoreFrame DEF dataVars,
       Types, WorkspaceTypes, WorkspaceTypeOK, LabelTypes, Owners
  <2> QED
    BY <2>1, <2>2 DEF Staged, At
<1>3. CASE CleanupTurn
  <2> USE <1>1
  <2>1. CASE WriteJournal
    <3>1. journal.moves = {} /\ place' = place
      BY <2>1 DEF WriteJournal, PlanInv, NoPlan
    <3> QED
      BY <3>1 DEF Staged
  <2>2. CASE StageDirectory
    <3>1. PICK i \in left : place' = [place EXCEPT ![i] = (@ \ {"own"}) \cup {"trash"}]
      BY <2>2, FirstIsOne DEF StageDirectory
    <3>2. UNCHANGED <<journal, pc>> /\ pc["cleanup"] = "move" /\ left \subseteq journal.moves
      BY <2>2 DEF StageDirectory, PlanInv, At
    <3> QED
      BY <3>1, <3>2 DEF Staged, At
  <2>3. CASE Judge
    <3>1. UNCHANGED <<journal, place>> /\ (pc'["cleanup"] = "finish" => left' = journal.moves)
      BY <2>3 DEF Judge, CloseCleanup, Leave, Goto
    <3> QED
      BY <3>1 DEF Staged, At
  <2>4. CASE RestoreDirectory \/ PurgeDirectory
    <3>1. First(left) \in left /\ pc["cleanup"] = "finish" /\ left \subseteq journal.moves
      BY <2>4, FirstIsOne DEF RestoreDirectory, PurgeDirectory, At, JournalInv
    <3>2. journal' = journal
      BY <2>4 DEF RestoreDirectory, PurgeDirectory
    <3>3. \/ place' = place /\ pc'["cleanup"] = "off"
          \/ /\ left' = left \/ (left' = left \ {First(left)} /\ "trash" \notin place'[First(left)])
             /\ \A i \in Ids : i # First(left) => place'[i] = place[i]
      BY <2>4, <3>1 DEF RestoreDirectory, PurgeDirectory, CloseCleanup, Leave, Goto, Put, Done
    <3> QED
      BY <3>1, <3>2, <3>3 DEF Staged, At
  <2>5. CASE FinishPending
    <3>1. /\ place' = place /\ pc'["cleanup"] # "finish"
          /\ journal' = journal \/ \A i \in Ids : "trash" \notin place[i]
      BY <2>5 DEF FinishPending, CloseCleanup, Leave, Goto, Staged, At
    <3> QED
      BY <3>1 DEF Staged, At
  <2>6. \/ WriteJournal \/ StageDirectory \/ Judge \/ RestoreDirectory \/ PurgeDirectory \/ FinishPending
        \/ UNCHANGED <<journal, place>> /\ pc'["cleanup"] # "finish"
    BY <1>3 DEF CleanupTurn, CleanupNext, CleanupStep, OpenCleanup, LockTables, MakePlan, PlanReset,
     Decline, WriteTemporary, DeleteRows, Relock, CommitCleanup, StopCleanup, CloseCleanup, Leave,
     Goto, AfterLock
  <2> QED
    BY <2>1, <2>2, <2>3, <2>4, <2>5, <2>6 DEF Staged, At
<1> QED
  BY <1>2, <1>3 DEF Next

\* A completed run keeps its directory, in one of the two places.
LEMMA KeptKept ==
    ASSUME Types, RowsInv, WorkerInv, PlanInv, JournalInv, PlacesInv, Next
    PROVE  Kept'
<1>1. /\ pc \in [Tools -> Labels] /\ left \subseteq Ids /\ plan \in Moves /\ "cleanup" \in Tools
      /\ place \in [Ids -> SUBSET {"own", "trash"}] /\ Registered \subseteq Ids
      /\ Completed \subseteq Registered
  BY DEF Types, LabelTypes, CleanupTypes, WorkspaceTypes, WorkspaceTypeOK, Tools, Completed
<1>2. CASE WorkspaceTurn
  <2>1. journal' = journal
    BY <1>2, WorkspaceFrame DEF Types, WorkspaceTypes, WorkspaceTypeOK, Owners
  <2>2. Completed' \subseteq Ids
    <3>1. WorkspaceTypes'
      BY <1>2, WorkspaceTypesByWorker
    <3> QED
      BY <3>1 DEF WorkspaceTypes, WorkspaceTypeOK, Completed
  <2> QED
    BY <1>2, <2>1, <2>2, WorkerPlaces, CompletedHasFiles DEF PlacesInv, Kept
<1>3. CASE RenameTurn
  <2>1. UNCHANGED <<journal, place>>
    BY <1>3, RenameFrame DEF Types, WorkspaceTypes, WorkspaceTypeOK, LabelTypes, Owners
  <2>2. Completed' = Completed
    BY <1>3, RenameRows DEF Completed, Registered
  <2> QED
    BY <2>1, <2>2 DEF PlacesInv, Kept
<1>4. CASE StoreTurn
  <2>1. UNCHANGED <<journal, place, rows>>
    BY <1>4, StoreFrame DEF dataVars, Types, WorkspaceTypes, WorkspaceTypeOK, LabelTypes, Owners
  <2> QED
    BY <2>1 DEF PlacesInv, Kept, Completed, Registered
<1>5. CASE CleanupTurn
  <2> USE <1>1
  <2>1. CASE WriteJournal
    <3>1. \A i \in Ids : "trash" \notin place[i]
      BY <2>1 DEF WriteJournal, PlanInv, PlacesInv, Staged, NoPlan
    <3>2. UNCHANGED <<rows, place>>
      BY <2>1 DEF WriteJournal
    <3> QED
      BY <3>1, <3>2 DEF PlacesInv, Kept, Completed, Registered
  <2>2. CASE StageDirectory
    <3>1. PICK i \in left : place' = [place EXCEPT ![i] = (@ \ {"own"}) \cup {"trash"}]
      BY <2>2, FirstIsOne DEF StageDirectory
    <3>2. /\ UNCHANGED <<journal, rows>> /\ journal = plan
          /\ i \in plan.ids \cup plan.orphans /\ plan.orphans \cap Registered = {}
      BY <2>2, <3>1 DEF StageDirectory, PlanInv, At, Writing, Types, CleanupTypes
    <3>3. Completed' = Completed
      BY <3>2 DEF Completed, Registered
    <3> QED
      BY <3>1, <3>2, <3>3 DEF PlacesInv, Kept
  <2>3. CASE RestoreDirectory
    <3>1. First(left) \in left /\ UNCHANGED <<journal, rows>>
      BY <2>3, FirstIsOne DEF RestoreDirectory
    <3>2. Completed' = Completed
      BY <3>1 DEF Completed, Registered
    <3>3. place' = place \/ place' = [place EXCEPT ![First(left)] = {"own"}]
      BY <2>3, <3>1 DEF RestoreDirectory, Put
    <3> QED
      BY <3>1, <3>2, <3>3 DEF PlacesInv, Kept
  <2>4. CASE PurgeDirectory
    <3>1. First(left) \in left /\ UNCHANGED <<journal, rows>>
      BY <2>4, FirstIsOne DEF PurgeDirectory
    <3>2. Completed' = Completed
      BY <3>1 DEF Completed, Registered
    <3>3. /\ journal.ids \cap Registered = {}
          /\ OrphanOnly => journal.orphans \cap Registered = {}
          /\ left \subseteq journal.ids \cup journal.orphans
      BY <2>4 DEF PurgeDirectory, JournalInv
    <3>4. OrphanOnly => First(left) \notin Completed
      BY <3>1, <3>3 DEF OrphanOnly
    <3>5. \/ place' = place
          \/ OrphanOnly /\ place' = [place EXCEPT ![First(left)] = {"trash"}]
          \/ place' = [place EXCEPT ![First(left)] = @ \ {"trash"}]
      BY <2>4, <3>1 DEF PurgeDirectory, Put
    <3> QED
      BY <3>1, <3>2, <3>3, <3>4, <3>5 DEF PlacesInv, Kept
  <2>5. CASE FinishPending
    <3>1. /\ UNCHANGED <<rows, place>>
          /\ journal' = journal \/ \A i \in Ids : "trash" \notin place[i]
      BY <2>5 DEF FinishPending, PlacesInv, Staged, At
    <3> QED
      BY <3>1 DEF PlacesInv, Kept, Completed, Registered
  <2>6. CASE DeleteRows
    <3>1. UNCHANGED <<journal, place>>
      BY <2>6 DEF DeleteRows
    <3>2. Completed' \subseteq Completed
      BY <1>5, CleanupRows DEF Completed, Registered
    <3> QED
      BY <3>1, <3>2 DEF PlacesInv, Kept
  <2>7. \/ WriteJournal \/ StageDirectory \/ RestoreDirectory \/ PurgeDirectory \/ FinishPending
        \/ DeleteRows
        \/ UNCHANGED <<journal, place, rows>>
    BY <1>5 DEF CleanupTurn, CleanupNext, CleanupStep, OpenCleanup, LockTables, MakePlan, PlanReset,
     Decline, WriteTemporary, Relock, CommitCleanup, StopCleanup, Judge
  <2> QED
    BY <2>1, <2>2, <2>3, <2>4, <2>5, <2>6, <2>7 DEF PlacesInv, Kept, Completed, Registered
<1> QED
  BY <1>2, <1>3, <1>4, <1>5 DEF Next

\* Nobody but cleanup removes a row, and a worker without rows adds no directory.
LEMMA OthersAddRows ==
    ASSUME Types, RowsInv, WorkerInv, WorkspaceTurn \/ RenameTurn \/ StoreTurn
    PROVE  /\ Registered \subseteq Registered'
           /\ UNCHANGED <<play, journal, cleanupVars>> /\ pc'["cleanup"] = pc["cleanup"]
           /\ Registered = {} /\ ~ play.plots => place' = place
<1>1. UNCHANGED <<play, journal, cleanupVars>> /\ pc'["cleanup"] = pc["cleanup"]
  BY WorkspaceFrame, RenameFrame, StoreFrame DEF dataVars, TurnOf, Tools, Stores,
     Types, WorkspaceTypes, WorkspaceTypeOK, LabelTypes, Owners
<1>2. Registered = {} /\ ~ play.plots => place' = place
  BY WorkerPlaces, RenameFrame, StoreFrame DEF dataVars,
     Types, WorkspaceTypes, WorkspaceTypeOK, LabelTypes, Owners
<1>3. Registered \subseteq Registered'
  <2>1. CASE WorkspaceTurn
    BY <2>1, WorkerRows DEF InsertedRow, ChangedRow, Registered
  <2>2. CASE RenameTurn
    BY <2>2, RenameRows DEF Registered
  <2>3. CASE StoreTurn
    BY <2>3, StoreFrame DEF dataVars, Registered, Types, WorkspaceTypes, WorkspaceTypeOK, LabelTypes, Owners
  <2> QED
    BY <2>1, <2>2, <2>3
<1> QED
  BY <1>1, <1>2, <1>3

\* An open restart of the sequences finds tables and disk empty until it commits.
LEMMA ResetOpenKept ==
    ASSUME Types, LockInv, RowsInv, WorkerInv, PlanInv, JournalInv, ResetInv, Next
    PROVE  ResetOpen'
<1>1. /\ pc \in [Tools -> Labels] /\ left \subseteq Ids /\ plan \in Moves /\ "cleanup" \in Tools
      /\ place \in [Ids -> SUBSET {"own", "trash"}] /\ Registered \subseteq Ids
      /\ resetting \in BOOLEAN
  BY DEF Types, LabelTypes, CleanupTypes, WorkspaceTypes, WorkspaceTypeOK, Tools
<1>2. CASE WorkspaceTurn \/ RenameTurn \/ StoreTurn
  <2>1. UNCHANGED <<play, journal, cleanupVars>> /\ pc'["cleanup"] = pc["cleanup"]
        /\ (Registered = {} /\ ~ play.plots => place' = place)
    BY <1>2, OthersAddRows
  <2>2. resetting => rows' = rows
    BY <1>2, RowsStandStill DEF ResetInv, ResetOpen, TablesHeld
  <2> QED
    BY <2>1, <2>2 DEF ResetInv, ResetOpen, At, Owned, Registered, cleanupVars
<1>3. CASE CleanupTurn
  <2> USE <1>1
  <2>1. play' = play
    BY <1>3, CleanupFrame DEF Types, WorkspaceTypes, WorkspaceTypeOK, LabelTypes, Owners
  <2>2. CASE resetting' = FALSE
    BY <2>2 DEF ResetOpen
  <2>3. CASE OpenCleanup \/ LockTables \/ Relock
    <3>1. ~ resetting /\ resetting' = resetting
      BY <2>3 DEF OpenCleanup, LockTables, Relock, cleanupVars, ResetInv, ResetOpen, At, Writing
    <3> QED
      BY <3>1 DEF ResetOpen
  <2>4. CASE MakePlan
    <3>1. /\ pc'["cleanup"] = "write" /\ UNCHANGED <<rows, place, resetting>>
      BY <2>4 DEF MakePlan, Goto
    <3>2. Registered = {} => plan'.all
      BY <2>4 DEF MakePlan
    <3> QED
      BY <3>1, <3>2 DEF ResetInv, ResetOpen, At, Writing, Registered
  <2>5. CASE PlanReset
    <3>1. pc'["cleanup"] = "commit" /\ UNCHANGED <<rows, place>> /\ Registered = {} /\ Orphans = {}
      BY <2>5 DEF PlanReset, Goto
    <3> QED
      BY <3>1 DEF ResetOpen, At, Writing, Registered, Orphans, Owned
  <2>6. CASE Decline
    <3>1. /\ pc'["cleanup"] = "commit" /\ pc["cleanup"] = "plan"
          /\ UNCHANGED <<rows, place, resetting>>
      BY <2>6 DEF Decline, Goto, At, cleanupVars
    <3> QED
      BY <2>1, <3>1 DEF ResetInv, ResetOpen, At, Writing, Registered, Owned
  <2>7. CASE (WriteTemporary /\ ~ tmp) \/ WriteJournal \/ StageDirectory
    <3>1. /\ pc'["cleanup"] \in Writing /\ pc["cleanup"] \in Writing
          /\ UNCHANGED <<rows, resetting, plan>>
      BY <2>7 DEF WriteTemporary, WriteJournal, StageDirectory, Goto, At, cleanupLocals, Writing
    <3> QED
      BY <3>1 DEF ResetInv, ResetOpen, At, Writing, Registered
  <2>8. CASE Judge \/ RestoreDirectory \/ PurgeDirectory
    <3>1. ~ resetting /\ resetting' \in {resetting, FALSE}
      BY <2>8 DEF Judge, RestoreDirectory, PurgeDirectory, CloseCleanup, ResetInv, ResetOpen, At,
         Writing
    <3> QED
      BY <3>1 DEF ResetOpen
  <2>9. CASE FinishPending
    <3>1. CASE resetting'
      <4>1. /\ journal.all /\ Registered = {} /\ left = {} /\ pc["cleanup"] = "finish"
            /\ pc'["cleanup"] \in {"plan", "commit"} /\ UNCHANGED <<rows, place>>
        BY <2>9, <3>1 DEF FinishPending, CloseCleanup, Leave, Goto, At, ResetAllowed
      <4>2. play.plots \/ Owned({})
        BY <4>1 DEF ResetInv, ResetDue, At
      <4> QED
        BY <2>1, <4>1, <4>2 DEF ResetOpen, At, Writing, Registered, Owned
    <3> QED
      BY <3>1 DEF ResetOpen
  <2>10. \/ OpenCleanup \/ LockTables \/ Relock \/ MakePlan \/ PlanReset \/ Decline
         \/ (WriteTemporary /\ ~ tmp) \/ WriteJournal \/ StageDirectory
         \/ Judge \/ RestoreDirectory \/ PurgeDirectory \/ FinishPending
         \/ resetting' = FALSE
    BY <1>3 DEF CleanupTurn, CleanupNext, CleanupStep, WriteTemporary, DeleteRows, CommitCleanup,
       StopCleanup, CommitSequences, CloseCleanup
  <2> QED
    BY <2>2, <2>3, <2>4, <2>5, <2>6, <2>7, <2>8, <2>9, <2>10
<1> QED
  BY <1>2, <1>3 DEF Next

\* A pending clean-all restarts nothing over a directory.
LEMMA ResetDueKept ==
    ASSUME Types, LockInv, RowsInv, WorkerInv, PlanInv, JournalInv, ResetInv, Next
    PROVE  ResetDue'
<1>1. /\ pc \in [Tools -> Labels] /\ left \subseteq Ids /\ plan \in Moves /\ "cleanup" \in Tools
      /\ place \in [Ids -> SUBSET {"own", "trash"}] /\ Registered \subseteq Ids
  BY DEF Types, LabelTypes, CleanupTypes, WorkspaceTypes, WorkspaceTypeOK, Tools
<1>2. CASE WorkspaceTurn \/ RenameTurn \/ StoreTurn
  <2>1. UNCHANGED <<play, journal, cleanupVars>> /\ pc'["cleanup"] = pc["cleanup"]
        /\ (Registered = {} /\ ~ play.plots => place' = place)
        /\ Registered \subseteq Registered'
    BY <1>2, OthersAddRows
  <2> QED
    BY <2>1 DEF ResetInv, ResetDue, At, Owned, cleanupVars
<1>3. CASE CleanupTurn
  <2> USE <1>1
  <2>1. play' = play
    BY <1>3, CleanupFrame DEF Types, WorkspaceTypes, WorkspaceTypeOK, LabelTypes, Owners
  <2>2. CASE WriteJournal
    <3>1. /\ journal' = plan /\ pc'["cleanup"] = "move" /\ UNCHANGED <<rows, place>>
          /\ plan.all /\ ~ play.plots => Owned(plan.moves)
          /\ plan.all => plan.ids = Registered
      BY <2>2 DEF WriteJournal, Goto, At, PlanInv, Writing
    <3> QED
      BY <2>1, <3>1 DEF ResetDue, At, Owned, Registered
  <2>3. CASE StageDirectory
    <3>1. PICK i \in left : place' = [place EXCEPT ![i] = (@ \ {"own"}) \cup {"trash"}]
      BY <2>3, FirstIsOne DEF StageDirectory
    <3>2. UNCHANGED <<journal, pc, rows>> /\ pc["cleanup"] = "move"
      BY <2>3 DEF StageDirectory, At
    <3>3. \A j \in Ids : "own" \in place'[j] => "own" \in place[j]
      BY <3>1
    <3> QED
      BY <2>1, <3>2, <3>3 DEF ResetInv, ResetDue, At, Owned, Registered
  <2>4. CASE DeleteRows
    <3>1. /\ UNCHANGED <<journal, place>> /\ pc'["cleanup"] = "relock"
          /\ plan.all /\ ~ play.plots => Owned({})
          /\ journal = plan
      BY <2>4 DEF DeleteRows, Goto, At, PlanInv, Writing
    <3> QED
      BY <2>1, <3>1 DEF ResetDue, At, Owned
  <2>5. CASE Judge
    <3>1. /\ UNCHANGED <<journal, place, rows>> /\ pc["cleanup"] = "judge"
          /\ pc'["cleanup"] = "finish" => left' = journal.moves
      BY <2>5 DEF Judge, Goto, At, CloseCleanup, Leave
    <3> QED
      BY <2>1, <3>1 DEF ResetInv, ResetDue, At, Owned, Registered
  <2>6. CASE RestoreDirectory
    <3>1. /\ UNCHANGED <<journal, rows>> /\ pc["cleanup"] = "finish" /\ verdict = "restore"
      BY <2>6 DEF RestoreDirectory, At
    <3>2. Registered # {}
      BY <3>1 DEF JournalInv, At, OrphanOnly
    <3> QED
      BY <3>1, <3>2 DEF ResetDue, Registered
  <2>7. CASE PurgeDirectory
    <3>1. /\ First(left) \in left /\ UNCHANGED <<journal, rows>> /\ pc["cleanup"] = "finish"
          /\ left \subseteq journal.moves
      BY <2>7, FirstIsOne DEF PurgeDirectory, At, JournalInv
    <3>2. \/ place' = place /\ pc'["cleanup"] = "off"
          \/ /\ pc' = pc
             /\ \A j \in Ids : "own" \in place'[j] => "own" \in place[j]
             /\ \/ left' = left
                \/ left' = left \ {First(left)} /\ (OrphanOnly => "own" \notin place'[First(left)])
      BY <2>7, <3>1 DEF PurgeDirectory, Put, Done, CloseCleanup, Leave, Goto
    <3> QED
      BY <2>1, <3>1, <3>2 DEF ResetInv, ResetDue, At, Owned, Registered, OrphanOnly
  <2>8. CASE FinishPending
    <3>1. UNCHANGED <<rows, place>> /\ pc["cleanup"] = "finish"
      BY <2>8 DEF FinishPending, At
    <3>2. \/ journal' = NoPlan
          \/ journal' = journal /\ pc'["cleanup"] = "off" /\ left = {}
      BY <2>8 DEF FinishPending, CloseCleanup, Leave, Goto
    <3>3. ~ NoPlan.all
      BY DEF NoPlan
    <3> QED
      BY <2>1, <3>1, <3>2, <3>3 DEF ResetInv, ResetDue, At, Owned, Registered
  <2>9. CASE StopCleanup
    <3>1. UNCHANGED <<journal, place, rows>> /\ pc'["cleanup"] = "off"
      BY <2>9 DEF StopCleanup, CloseCleanup, Leave, Goto
    <3>2. At("finish") => left \subseteq journal.moves
      BY DEF JournalInv
    <3> QED
      BY <2>1, <3>1, <3>2 DEF ResetInv, ResetDue, At, Owned, Registered
  <2>10. \/ WriteJournal \/ StageDirectory \/ DeleteRows \/ Judge \/ RestoreDirectory
         \/ PurgeDirectory \/ FinishPending \/ StopCleanup
         \/ UNCHANGED <<journal, place, rows>> /\ pc["cleanup"] # "finish" /\ pc'["cleanup"] # "finish"
    BY <1>3 DEF CleanupTurn, CleanupNext, CleanupStep, OpenCleanup, LockTables, MakePlan, PlanReset,
     Decline, WriteTemporary, Relock, CommitCleanup, CloseCleanup, Leave, Goto, AfterLock, At
  <2> QED
    BY <2>1, <2>2, <2>3, <2>4, <2>5, <2>6, <2>7, <2>8, <2>9, <2>10
       DEF ResetInv, ResetDue, At, Owned, Registered
<1> QED
  BY <1>2, <1>3 DEF Next

-----------------------------------------------------------------------------
(* Names *)

\* pending.json is there from the point of no return to the last file.
LEMMA RenameInvKept ==
    ASSUME Types, RenameInv, Next
    PROVE  RenameInv'
<1>1. /\ pc \in [Tools -> Labels] /\ "rename" \in Tools /\ RenameInv
  BY DEF Types, LabelTypes, Tools
<1>2. CASE WorkspaceTurn \/ CleanupTurn \/ StoreTurn
  <2>1. UNCHANGED <<pending, side>> /\ pc'["rename"] = pc["rename"]
    BY <1>2, WorkspaceFrame, CleanupFrame, StoreFrame DEF dataVars, TurnOf, Tools, Stores,
       Types, WorkspaceTypes, WorkspaceTypeOK, LabelTypes, Owners
  <2> QED
    BY <1>1, <2>1 DEF RenameInv
<1>3. CASE RenameTurn
  <2> USE <1>1 DEF AtRename, Goto
  <2>1. CASE WritePending \/ ApplyDatabase
    BY <2>1 DEF WritePending, ApplyDatabase, RenameInv
  <2>2. CASE OpenRecovery
    BY <2>2 DEF OpenRecovery, RenameInv
  <2>3. CASE LookAtDatabase
    <3>1. DbSide \in {"neither", "old", "new"}
      BY DEF DbSide
    <3> QED
      BY <2>3, <3>1 DEF LookAtDatabase, RenameInv, CloseRename, Leave, Sides
  <2>4. CASE FinishFile
    BY <2>4 DEF FinishFile, RenameInv
  <2>5. CASE OpenMigration \/ BuildPlan \/ ClearPending \/ StopRename
    BY <2>5 DEF OpenMigration, BuildPlan, ClearPending, StopRename, RenameInv, CloseRename, Leave
  <2> QED
    BY <1>3, <2>1, <2>2, <2>3, <2>4, <2>5 DEF RenameTurn, RenameNext, RenameStep
<1> QED
  BY <1>2, <1>3 DEF Next

\* Beside queues, rows and files are of one side whenever no rename is pending.
LEMMA OneSideKept ==
    ASSUME Types, LockInv, RowsInv, NamesInv, Next
    PROVE  OneSide'
<1>1. /\ pc \in [Tools -> Labels] /\ "rename" \in Tools /\ RenameInv /\ OneSide
      /\ rows \in [Registered -> Rows]
      /\ worker \in [pc : {"off", "ready", "inserted", "running", "stored", "reporting"},
                     id : 0 .. MaxId, name : Sides, orphan : BOOLEAN]
  BY DEF Types, LabelTypes, WorkspaceTypes, WorkspaceTypeOK, Tools, NamesInv
<1>2. CASE WorkspaceTurn
  <2>1. UNCHANGED <<play, configs, pc, pending, side>>
    BY <1>2, WorkspaceFrame DEF Types, WorkspaceTypes, WorkspaceTypeOK, Owners
  <2>2. play.guarded /\ pending.on => ~ QueueUp'
    <3>1. play.guarded /\ pending.on => <<"activity", "queue">> \notin held /\ ~ QueueGuard
      BY DEF NamesInv, OneSide, QueueGuard, QueueUp
    <3>2. held' \subseteq held \/ StartQueue
      BY <1>2 DEF WorkspaceTurn, WorkspaceNext, EndQueue, KillQueue, WorkerStep, StartWorker, InsertRow,
         MarkRunning, StoreCheckpoint, CompleteRun, RenderArtifacts, FailWorker, KillWorker,
         MarkAbandoned, Release
    <3> QED
      BY <3>1, <3>2 DEF StartQueue, QueueUp
  <2>3. worker'.pc = "ready" /\ ~ worker'.orphan => worker'.name \in configs \/ worker' = worker
    <3>1. \/ \E name \in configs : worker' = [pc |-> "ready", id |-> 0, name |-> name, orphan |-> FALSE]
          \/ worker' = worker \/ worker' = Off
          \/ \E to \in {"running", "stored", "reporting"} : worker' = [worker EXCEPT !.pc = to]
          \/ worker' = [worker EXCEPT !.pc = "inserted", !.id = next]
          \/ worker' = [worker EXCEPT !.orphan = TRUE]
      BY <1>2 DEF WorkspaceTurn, WorkspaceNext, StartQueue, EndQueue, KillQueue, WorkerStep, StartWorker,
         InsertRow, MarkRunning, StoreCheckpoint, CompleteRun, RenderArtifacts, FailWorker, KillWorker,
         MarkAbandoned, Step
    <3>2. CASE \E to \in {"running", "stored", "reporting"} : worker' = [worker EXCEPT !.pc = to]
      <4>1. PICK to \in {"running", "stored", "reporting"} : worker' = [worker EXCEPT !.pc = to]
        BY <3>2
      <4>2. worker'.pc = to
        BY <1>1, <4>1
      <4> QED
        BY <4>1, <4>2
    <3>3. worker' = [worker EXCEPT !.pc = "inserted", !.id = next] => worker'.pc = "inserted"
      BY <1>1
    <3>4. worker' = [worker EXCEPT !.orphan = TRUE] => worker'.orphan
      BY <1>1
    <3> QED
      BY <3>1, <3>2, <3>3, <3>4 DEF Off
  <2>4. CASE rows' = rows
    BY <1>1, <2>1, <2>2, <2>3, <2>4 DEF OneSide
  <2>5. CASE InsertRow /\ InsertedRow
    <3>1. worker.pc = "ready"
      BY <2>5 DEF InsertRow
    <3>2. ASSUME play.guarded, ~ worker.orphan
          PROVE  ~ pending.on /\ worker.name \in configs /\ pc["rename"] # "files"
      <4>1. QueueUp
        BY <3>1, <3>2 DEF LockInv, WorkerLocked
      <4>2. ~ pending.on /\ worker.name \in configs
        BY <1>1, <3>1, <3>2, <4>1 DEF OneSide
      <4> QED
        BY <1>1, <4>2 DEF RenameInv
    <3>3. ASSUME NEW s, Agreed(rows, s), worker.orphan \/ worker.name = s PROVE Agreed(rows', s)
      BY <2>5, <3>3 DEF InsertedRow, Agreed, Registered
    <3>4. CASE worker.orphan
      <4>1. \A s : Agreed(rows, s) => Agreed(rows', s)
        BY <3>3, <3>4
      <4> QED
        BY <1>1, <2>1, <2>2, <2>3, <4>1 DEF OneSide
    <3>5. CASE ~ worker.orphan
      <4>1. ASSUME play.guarded, NEW s \in Sides, configs = {s}, Agreed(rows, s) PROVE Agreed(rows', s)
        BY <3>2, <3>3, <3>5, <4>1
      <4> QED
        BY <1>1, <2>1, <2>2, <2>3, <3>2, <3>5, <4>1 DEF OneSide
    <3> QED
      BY <3>4, <3>5
  <2>6. CASE \E i, status : ChangedRow(i, status)
    <3>1. \A s : Agreed(rows, s) => Agreed(rows', s)
      BY <2>6 DEF ChangedRow, SameIdentity, Agreed, Registered
    <3> QED
      BY <1>1, <2>1, <2>2, <2>3, <3>1 DEF OneSide
  <2> QED
    BY <1>2, <2>4, <2>5, <2>6, WorkerRows
<1>3. CASE CleanupTurn
  <2>1. UNCHANGED <<play, configs, pending, side, worker>> /\ pc'["rename"] = pc["rename"]
    BY <1>3, CleanupFrame DEF TurnOf, Tools, Types, WorkspaceTypes, WorkspaceTypeOK, LabelTypes, Owners
  <2>2. QueueUp' <=> QueueUp
    BY <1>3, CleanupFrame DEF LocksOf, QueueUp, Locks, Tools, Types, WorkspaceTypes, WorkspaceTypeOK,
       LabelTypes, Owners
  <2>3. \A s : Agreed(rows, s) => Agreed(rows', s)
    BY <1>3, CleanupRows DEF Agreed, Registered
  <2> QED
    BY <1>1, <2>1, <2>2, <2>3 DEF OneSide
<1>4. CASE RenameTurn
  <2>1. play' = play /\ worker' = worker
    BY <1>4, RenameFrame DEF Types, WorkspaceTypes, WorkspaceTypeOK, LabelTypes, Owners
  <2>2. pc["rename"] # "off" => /\ ~ QueueUp
                                /\ play.guarded => ~ (worker.pc = "ready" /\ ~ worker.orphan)
    <3>1. "activity" \in Locks /\ "queue" \in Owners /\ "rename" \in Owners /\ "queue" # "rename"
      BY DEF Locks, Owners, Tools
    <3> QED
      BY <3>1 DEF LockInv, OneOwner, RenameLocked, WorkerLocked, QueueUp
  <2>3. QueueUp' <=> QueueUp
    BY <1>4, RenameFrame DEF LocksOf, QueueUp, Locks, Tools, Types, WorkspaceTypes, WorkspaceTypeOK,
       LabelTypes, Owners
  <2> USE <1>1, <2>1, <2>2, <2>3 DEF AtRename, Goto
  <2>4. CASE OpenMigration \/ OpenRecovery \/ BuildPlan \/ StopRename
    <3>1. UNCHANGED <<configs, pending, rows>> /\ pc'["rename"] # "files"
      BY <2>4 DEF OpenMigration, OpenRecovery, BuildPlan, StopRename, CloseRename, Leave
    <3> QED
      BY <3>1 DEF OneSide
  <2>5. CASE WritePending
    <3>1. configs' = configs /\ pending'.on /\ pc'["rename"] # "files" /\ pc["rename"] = "point"
      BY <2>5 DEF WritePending
    <3> QED
      BY <3>1 DEF OneSide
  <2>6. CASE ApplyDatabase
    <3>1. UNCHANGED <<configs, pending>> /\ pending.on /\ pc'["rename"] # "files"
      BY <2>6 DEF ApplyDatabase, RenameInv
    <3> QED
      BY <3>1 DEF OneSide
  <2>7. CASE LookAtDatabase
    <3>1. UNCHANGED <<configs, pending, rows>> /\ pending.on
      BY <2>7 DEF LookAtDatabase, RenameInv
    <3>2. pc'["rename"] = "files" => side' = DbSide /\ DbSide # "neither"
      BY <2>7 DEF LookAtDatabase, CloseRename, Leave
    <3>3. DbSide # "neither" => Agreed(rows, DbSide)
      BY DEF DbSide, NamedAs, Agreed, Registered
    <3> QED
      BY <3>1, <3>2, <3>3 DEF OneSide
  <2>8. CASE FinishFile
    <3>1. UNCHANGED <<pending, rows, pc, side>> /\ pending.on
      BY <2>8 DEF FinishFile, RenameInv
    <3> QED
      BY <2>8, <3>1 DEF FinishFile, OneSide
  <2>9. CASE ClearPending
    <3>1. /\ UNCHANGED <<configs, rows>> /\ configs = {side} /\ side \in Sides
          /\ ~ pending'.on /\ pc'["rename"] = "off" /\ pc["rename"] = "files"
      BY <2>9 DEF ClearPending, CloseRename, Leave, RenameInv, NoRename
    <3> QED
      BY <3>1 DEF OneSide
  <2> QED
    BY <1>4, <2>4, <2>5, <2>6, <2>7, <2>8, <2>9 DEF RenameTurn, RenameNext, RenameStep
<1>5. CASE StoreTurn
  <2>1. UNCHANGED <<play, configs, pending, side, worker, rows>> /\ pc'["rename"] = pc["rename"]
    BY <1>5, StoreFrame DEF dataVars, TurnOf, Tools, Stores, Types, WorkspaceTypes,
       WorkspaceTypeOK, LabelTypes, Owners
  <2>2. QueueUp' <=> QueueUp
    BY <1>5, StoreFrame DEF LocksOf, QueueUp, Locks, Tools, Stores, Types, WorkspaceTypes,
       WorkspaceTypeOK, LabelTypes, Owners
  <2> QED
    BY <1>1, <2>1, <2>2 DEF OneSide
<1> QED
  BY <1>2, <1>3, <1>4, <1>5 DEF Next

-----------------------------------------------------------------------------
(* The backup *)

\* One of sync and prune at most is at work on the disk.
LEMMA StoreIsExclusive ==
    ASSUME LockInv, NEW t \in Stores, NEW u \in Stores, t # u, pc[t] # "off"
    PROVE  pc[u] = "off"
BY DEF LockInv, OneOwner, StoreLocked, Stores, Locks, Owners, Tools

\* What the project is at the moment sync freezes it can be restored.
LEMMA CaptureIsSane ==
    ASSUME Types, PlacesInv, NamesInv, NoWorkers
    PROVE  Capture \in Documents /\ Sane(Capture)
<1>1. /\ rows \in [Registered -> Rows] /\ Registered \subseteq Ids /\ configs \subseteq Sides
  BY DEF Types, WorkspaceTypes, WorkspaceTypeOK
<1>2. \A i \in Completed : "own" \in place[i] /\ i \in Ids
  BY <1>1 DEF NoWorkers, NoPlan, PlacesInv, Staged, Kept, Completed
<1>3. play.guarded => \E s \in Sides : configs = {s} /\ Agreed(rows, s)
  BY DEF NoWorkers, NamesInv, OneSide
<1>4. /\ Capture.rows = rows /\ Capture.configs = configs
      /\ Capture.runs = {i \in Ids : "own" \in place[i]}
  BY DEF Capture
<1>5. Capture \in Documents
  <2>1. rows \in UNION {[S -> Rows] : S \in SUBSET Ids}
    BY <1>1
  <2>2. {i \in Ids : "own" \in place[i]} \in SUBSET Ids
    OBVIOUS
  <2> QED
    BY <1>1, <2>1, <2>2 DEF Capture, Documents
<1>6. \A i \in DOMAIN rows : rows[i].status = "completed" => i \in Capture.runs
  BY <1>2, <1>4 DEF Completed, Registered
<1> QED
  BY <1>3, <1>4, <1>5, <1>6 DEF Sane

\* Sane reads play only, which never changes.
LEMMA SaneStays ==
    ASSUME NEW d, Sane(d), play' = play
    PROVE  \A e : e = d => /\ \A i \in DOMAIN e.rows : e.rows[i].status = "completed" => i \in e.runs
                           /\ play'.guarded => \E s \in Sides : e.configs = {s} /\ Agreed(e.rows, s)
BY DEF Sane

\* Others leave the disk alone.
LEMMA BackupKeptByOthers ==
    ASSUME Types, BackupInv, WorkspaceTurn \/ CleanupTurn \/ RenameTurn
    PROVE  BackupInv'
<1>1. play' = play /\ UNCHANGED storeVars /\ \A t \in Stores : pc'[t] = pc[t]
  BY WorkspaceFrame, CleanupFrame, RenameFrame DEF TurnOf, Tools, Stores, Types, WorkspaceTypes,
     WorkspaceTypeOK, LabelTypes, Owners
<1>2. pc'["sync"] = pc["sync"]
  BY <1>1 DEF Stores
<1>3. DocumentInv'
  BY <1>1, <1>2 DEF BackupInv, DocumentInv, Sane, References, storeVars
<1>4. CurrentInv'
  BY <1>1 DEF BackupInv, CurrentInv, Sane, References, storeVars
<1>5. PruneInv'
  BY <1>1 DEF BackupInv, PruneInv, References, Old, storeVars
<1> QED
  BY <1>3, <1>4, <1>5 DEF BackupInv

\* The document sync makes stays what it was, with its objects on the disk.
LEMMA DocumentKept ==
    ASSUME Types, LockInv, PlacesInv, NamesInv, BackupInv, StoreTurn
    PROVE  DocumentInv'
<1>1. /\ pc \in [Tools -> Labels] /\ "sync" \in Tools /\ "prune" \in Tools /\ play' = play
      /\ gens \in [Generations -> Documents \cup {Nothing}] /\ DocumentInv
      /\ bad \subseteq objects
  BY StoreFrame DEF Types, LabelTypes, Tools, StoreTypes, WorkspaceTypes, WorkspaceTypeOK, Owners, BackupInv
<1> USE <1>1 DEF AtStore, Goto
<1>2. CASE OpenSync \/ CheckPrevious
  <2>1. pc'["sync"] \notin {"put", "mark", "publish", "point"}
    BY <1>2 DEF OpenSync, CheckPrevious, CloseStore, Leave
  <2> QED
    BY <2>1 DEF DocumentInv
<1>3. CASE Freeze
  <2>1. pc'["sync"] \in {"put", "off"} /\ (pc'["sync"] = "put" => NoWorkers /\ doc' = Capture)
    BY <1>3 DEF Freeze, CloseStore, Leave
  <2>2. pc'["sync"] = "put" => doc' \in Documents /\ Sane(doc)'
    BY <2>1, CaptureIsSane DEF Sane
  <2> QED
    BY <2>1, <2>2 DEF DocumentInv
<1>4. CASE PutObject
  <2>1. pc["sync"] = "put" /\ UNCHANGED <<pc, doc, gens>>
    BY <1>4 DEF PutObject
  <2> QED
    BY <2>1 DEF DocumentInv, Sane
<1>5. CASE Recheck
  <2>1. /\ pc["sync"] = "put" /\ objects' = objects /\ pc'["sync"] \in {"mark", "off"}
        /\ pc'["sync"] = "mark" => doc' = doc /\ References(doc) \subseteq objects
    BY <1>5 DEF Recheck, CloseStore, Leave, Sound
  <2> QED
    BY <2>1 DEF DocumentInv, Sane, References
<1>6. CASE MarkCleanup
  <2>1. pc["sync"] = "mark" /\ pc'["sync"] = "publish" /\ UNCHANGED <<doc, objects>>
    BY <1>6 DEF MarkCleanup
  <2> QED
    BY <2>1 DEF DocumentInv, Sane, References
<1>7. CASE NameGeneration
  <2>1. PICK g \in Generations : gens' = [gens EXCEPT ![g] = doc] /\ fresh' = g
    BY <1>7 DEF NameGeneration
  <2>2. pc["sync"] = "publish" /\ pc'["sync"] = "point" /\ UNCHANGED <<doc, objects>>
    BY <1>7 DEF NameGeneration
  <2> QED
    BY <2>1, <2>2 DEF DocumentInv, Sane, References
<1>8. CASE PointCurrent
  <2>1. pc'["sync"] = "keep"
    BY <1>8 DEF PointCurrent
  <2> QED
    BY <2>1 DEF DocumentInv
<1>9. CASE OpenPrune \/ DamageObject
  <2>1. pc'["sync"] = pc["sync"] /\ UNCHANGED <<doc, objects, gens, fresh>>
    BY <1>9 DEF OpenPrune, DamageObject, storeVars
  <2> QED
    BY <2>1 DEF DocumentInv, Sane, References
<1>10. ASSUME NEW t \in Stores, PruneStep(t) \/ StopStore(t) PROVE DocumentInv'
  <2>1. pc[t] # "off" /\ (PruneStep(t) => pc[t] \in {"keep", "generations", "objects"})
    BY <1>10 DEF PruneStep, ListGarbage, DeleteGeneration, GenerationsDeleted, DeleteObject,
       ClearMarker, StopStore
  <2>2. CASE t = "prune"
    <3>1. pc["sync"] = "off"
      BY <2>1, <2>2, StoreIsExclusive DEF Stores
    <3>2. pc'["sync"] = "off"
      BY <1>10, <2>2, <3>1 DEF PruneStep, ListGarbage, DeleteGeneration, GenerationsDeleted,
         DeleteObject, ClearMarker, StopStore, CloseStore, Leave
    <3> QED
      BY <3>2 DEF DocumentInv
  <2>3. CASE t = "sync"
    <3>1. pc'["sync"] \notin {"put", "mark", "publish", "point"}
      BY <1>10, <2>1, <2>3 DEF PruneStep, ListGarbage, DeleteGeneration, GenerationsDeleted,
         DeleteObject, ClearMarker, StopStore, CloseStore, Leave
    <3> QED
      BY <3>1 DEF DocumentInv
  <2> QED
    BY <2>2, <2>3 DEF Stores
<1> QED
  BY <1>2, <1>3, <1>4, <1>5, <1>6, <1>7, <1>8, <1>9, <1>10 DEF StoreTurn, StoreNext, SyncStep

\* CURRENT names a whole generation, and prune takes nothing of it away.
LEMMA CurrentKept ==
    ASSUME Types, LockInv, BackupInv, StoreTurn
    PROVE  CurrentInv'
<1>1. /\ pc \in [Tools -> Labels] /\ "sync" \in Tools /\ "prune" \in Tools /\ play' = play
      /\ gens \in [Generations -> Documents \cup {Nothing}] /\ current \in Generations \cup {Nothing}
      /\ DOMAIN sweep = Stores /\ CurrentInv
      /\ Nothing \notin Generations /\ Nothing \notin Documents
  BY StoreFrame, NothingAssumption
     DEF Types, LabelTypes, Tools, StoreTypes, WorkspaceTypes, WorkspaceTypeOK, Owners, BackupInv
<1> USE <1>1 DEF AtStore, Goto
<1>2. CASE PointCurrent
  <2>1. /\ UNCHANGED <<objects, gens>> /\ current' = fresh /\ gens[fresh] = doc
        /\ doc \in Documents /\ Sane(doc) /\ References(doc) \subseteq objects
    BY <1>2 DEF PointCurrent, BackupInv, DocumentInv
  <2> QED
    BY <2>1 DEF CurrentInv, Sane, References
<1>3. CASE NameGeneration
  <2>1. PICK g \in Generations : gens[g] = Nothing /\ gens' = [gens EXCEPT ![g] = doc]
    BY <1>3 DEF NameGeneration
  <2>2. UNCHANGED <<objects, current>>
    BY <1>3 DEF NameGeneration
  <2>3. current # Nothing => gens'[current] = gens[current]
    BY <2>1 DEF CurrentInv
  <2> QED
    BY <2>2, <2>3 DEF CurrentInv, Sane, References
<1>4. ASSUME NEW t \in Stores, DeleteGeneration(t) PROVE CurrentInv'
  <2>1. PICK g \in Generations : g # current /\ gens' = [gens EXCEPT ![g] = Nothing]
    BY <1>4 DEF DeleteGeneration, Old
  <2>2. UNCHANGED <<objects, current>>
    BY <1>4 DEF DeleteGeneration
  <2>3. current # Nothing => gens'[current] = gens[current]
    BY <2>1
  <2> QED
    BY <2>2, <2>3 DEF CurrentInv, Sane, References
<1>5. ASSUME NEW t \in Stores, DeleteObject(t) PROVE CurrentInv'
  <2>1. PICK o \in sweep[t] : objects' = objects \ {o}
    BY <1>5 DEF DeleteObject
  <2>2. o \notin References(gens[current])
    BY <1>5, <2>1 DEF DeleteObject, BackupInv, PruneInv
  <2>3. UNCHANGED <<gens, current>>
    BY <1>5 DEF DeleteObject
  <2>4. current # Nothing => References(gens[current]) \subseteq objects'
    BY <2>1, <2>2 DEF CurrentInv
  <2>5. current # Nothing => References(gens[current])' \subseteq objects'
    BY <2>3, <2>4 DEF References
  <2> QED
    BY <2>3, <2>5 DEF CurrentInv, Sane
<1>6. CASE objects \subseteq objects' /\ UNCHANGED <<gens, current>>
  BY <1>6 DEF CurrentInv, Sane, References
<1>7. \/ PointCurrent \/ NameGeneration \/ \E t \in Stores : DeleteGeneration(t) \/ DeleteObject(t)
      \/ objects \subseteq objects' /\ UNCHANGED <<gens, current>>
  <2>1. CASE OpenSync \/ SyncStep
    BY <2>1 DEF SyncStep, OpenSync, CheckPrevious, Freeze, PutObject, Recheck, MarkCleanup, storeVars
  <2>2. CASE OpenPrune \/ DamageObject
    BY <2>2 DEF OpenPrune, DamageObject, storeVars
  <2>3. CASE \E t \in Stores : PruneStep(t) \/ StopStore(t)
    BY <2>3 DEF PruneStep, ListGarbage, GenerationsDeleted, ClearMarker, StopStore
  <2> QED
    BY <2>1, <2>2, <2>3 DEF StoreTurn, StoreNext
<1> QED
  BY <1>2, <1>3, <1>4, <1>5, <1>6, <1>7

\* prune's list is everything CURRENT does not name, and nothing else.
LEMMA PruneKept ==
    ASSUME Types, LockInv, BackupInv, StoreTurn
    PROVE  PruneInv'
<1>1. /\ pc \in [Tools -> Labels] /\ Stores = {"sync", "prune"} /\ Stores \subseteq Tools
      /\ DOMAIN sweep = Stores /\ PruneInv /\ CurrentInv
      /\ Nothing \notin Generations
      /\ gens \in [Generations -> Documents \cup {Nothing}] /\ current \in Generations \cup {Nothing}
  BY NothingAssumption DEF Types, LabelTypes, Tools, StoreTypes, BackupInv, Stores
<1>2. /\ "sync" \in Stores /\ "prune" \in Stores
      /\ \A t, u \in Stores : t # u /\ pc[t] # "off" => pc[u] = "off"
  BY StoreIsExclusive DEF Stores
<1> DEFINE Sweeping == {"keep", "generations", "objects"}
<1> USE <1>1, <1>2 DEF AtStore, Goto
\* A step of one store process with the other one off: only its own place matters.
<1>3. ASSUME NEW t \in Stores, pc'[t] \notin Sweeping, \A u \in Stores : u # t => pc'[u] = "off"
      PROVE  PruneInv'
  BY <1>3 DEF PruneInv
<1>4. CASE OpenSync
  <2>1. pc'["sync"] = "previous"
    BY <1>4 DEF OpenSync
  <2>2. pc'["prune"] = "off"
    <3>1. <<"store", "prune">> \notin held /\ "prune" \in Tools
      BY <1>4 DEF OpenSync, Acquire, Free, Tools
    <3>2. pc["prune"] = "off"
      BY <3>1 DEF LockInv, StoreLocked
    <3> QED
      BY <1>4, <3>2 DEF OpenSync
  <2> QED
    BY <1>3, <2>1, <2>2
<1>5. CASE SyncStep
  <2>1. pc["sync"] # "off" /\ pc["prune"] = "off"
    BY <1>5 DEF SyncStep, CheckPrevious, Freeze, PutObject, Recheck, MarkCleanup, NameGeneration,
       PointCurrent
  <2>2. pc'["prune"] = "off"
    BY <1>5, <2>1 DEF SyncStep, CheckPrevious, Freeze, PutObject, Recheck, MarkCleanup, NameGeneration,
       PointCurrent, CloseStore, Leave
  <2>3. CASE pc'["sync"] \notin Sweeping
    BY <1>3, <2>2, <2>3
  <2>4. CASE pc'["sync"] \in Sweeping
    <3>1. pc'["sync"] = "keep" /\ current' # Nothing
      BY <1>5, <2>4 DEF SyncStep, CheckPrevious, Freeze, PutObject, Recheck, MarkCleanup,
         NameGeneration, PointCurrent, CloseStore, Leave, BackupInv, DocumentInv
    <3> QED
      BY <2>2, <3>1 DEF PruneInv
  <2> QED
    BY <2>3, <2>4
<1>6. CASE OpenPrune
  <2>1. pc'["prune"] = "keep" /\ current' = current /\ current # Nothing
    BY <1>6 DEF OpenPrune, storeVars
  <2>2. pc'["sync"] = "off"
    <3>1. <<"store", "sync">> \notin held /\ "sync" \in Tools
      BY <1>6 DEF OpenPrune, Acquire, Free, Tools
    <3>2. pc["sync"] = "off"
      BY <3>1 DEF LockInv, StoreLocked
    <3> QED
      BY <1>6, <3>2 DEF OpenPrune
  <2> QED
    BY <2>1, <2>2 DEF PruneInv
<1>7. CASE DamageObject
  <2>1. UNCHANGED <<pc, objects, gens, current, litter, sweep>>
    BY <1>7 DEF DamageObject
  <2> QED
    BY <2>1 DEF PruneInv, References, Old
<1>8. ASSUME NEW t \in Stores, PruneStep(t) \/ StopStore(t) PROVE PruneInv'
  <2>1. pc[t] # "off" /\ \A u \in Stores : u # t => pc[u] = "off"
    BY <1>8 DEF PruneStep, ListGarbage, DeleteGeneration, GenerationsDeleted, DeleteObject,
       ClearMarker, StopStore
  <2>2. \A u \in Stores : u # t => pc'[u] = "off"
    BY <1>8, <2>1 DEF PruneStep, ListGarbage, DeleteGeneration, GenerationsDeleted, DeleteObject,
       ClearMarker, StopStore, CloseStore, Leave
  <2>3. CASE pc'[t] \notin Sweeping
    BY <1>3, <2>2, <2>3
  <2>4. CASE ListGarbage(t) /\ pc'[t] \in Sweeping
    <3>1. /\ pc'[t] = "generations" /\ current # Nothing
          /\ UNCHANGED <<objects, gens, current>>
          /\ sweep'[t] = Garbage /\ References(gens[current]) \subseteq objects
      BY <2>4 DEF ListGarbage, CloseStore, Leave, Sound, PruneInv
    <3>2. objects = References(gens[current]) \cup sweep'[t]
          /\ sweep'[t] \cap References(gens[current]) = {}
      BY <3>1 DEF Garbage
    <3> QED
      BY <2>2, <3>1, <3>2 DEF PruneInv, References
  <2>5. CASE DeleteGeneration(t)
    <3>1. PICK g \in Generations : g # current /\ gens' = [gens EXCEPT ![g] = Nothing]
      BY <2>5 DEF DeleteGeneration, Old
    <3>2. UNCHANGED <<objects, current, sweep, pc>> /\ pc[t] = "generations"
      BY <2>5 DEF DeleteGeneration
    <3>3. current # Nothing => gens'[current] = gens[current]
      BY <3>1
    <3> QED
      BY <2>2, <3>2, <3>3 DEF PruneInv, References
  <2>6. CASE GenerationsDeleted(t)
    <3>1. /\ UNCHANGED <<objects, gens, current, sweep>> /\ pc'[t] = "objects"
          /\ pc[t] = "generations" /\ Old = {} /\ litter' = FALSE
      BY <2>6 DEF GenerationsDeleted
    <3> QED
      BY <2>2, <3>1 DEF PruneInv, References, Old
  <2>7. CASE DeleteObject(t)
    <3>1. PICK o \in sweep[t] : objects' = objects \ {o} /\ sweep'[t] = sweep[t] \ {o}
      BY <2>7 DEF DeleteObject
    <3>2. UNCHANGED <<gens, current, litter, pc>> /\ pc[t] = "objects"
      BY <2>7 DEF DeleteObject
    <3>3. /\ objects = References(gens[current]) \cup sweep[t]
          /\ sweep[t] \cap References(gens[current]) = {}
      BY <3>2 DEF PruneInv
    <3>4. /\ objects' = References(gens[current]) \cup sweep'[t]
          /\ sweep'[t] \cap References(gens[current]) = {}
      BY <3>1, <3>3
    <3>5. current # Nothing /\ Old = {} /\ ~ litter
      BY <3>2 DEF PruneInv
    <3> QED
      BY <2>2, <3>2, <3>4, <3>5 DEF PruneInv, References, Old
  <2>8. ClearMarker(t) \/ StopStore(t) => pc'[t] \notin Sweeping
    BY DEF ClearMarker, StopStore, CloseStore, Leave
  <2> QED
    BY <1>8, <2>3, <2>4, <2>5, <2>6, <2>7, <2>8 DEF PruneStep
<1> QED
  BY <1>4, <1>5, <1>6, <1>7, <1>8 DEF StoreTurn, StoreNext

\* The backup's part of the invariant, all together.
LEMMA BackupInvKept ==
    ASSUME Types, LockInv, PlacesInv, NamesInv, BackupInv, Next
    PROVE  BackupInv'
BY BackupKeptByOthers, DocumentKept, CurrentKept, PruneKept DEF Next, BackupInv

-----------------------------------------------------------------------------
(* The theorems *)

\* The invariant holds at the start.
LEMMA InvariantInit == Init => IInv
<1> SUFFICES ASSUME Init PROVE IInv
  OBVIOUS
<1>1. Types
  BY TypesInit
<1>2. /\ pc = [t \in Tools |-> "off"] /\ held = {} /\ worker = Off /\ journal = NoPlan
      /\ pending = NoRename /\ configs = {"old"} /\ current = Nothing /\ ~ resetting
      /\ Registered = play.runs /\ play \in Plays
  BY DEF Init, WorkspaceInit, CleanupInit, StoreInit, Registered
<1>3. LockInv
  BY <1>2 DEF LockInv, OneOwner, CleanupLocked, RenameLocked, StoreLocked, WorkerLocked, TablesHeld,
     Writing, Off, Tools, Stores
<1>4. RowsInv
  BY <1>2 DEF RowsInv, Init, WorkspaceInit
<1>5. WorkerInv
  BY <1>2 DEF WorkerInv, Off
<1>6. PlanInv /\ JournalInv /\ ResetInv
  BY <1>2 DEF PlanInv, JournalInv, ResetInv, ResetOpen, ResetDue, At, Writing, NoPlan, Tools
<1>7. PlacesInv
  <2>1. place = [i \in Ids |-> IF i \in play.runs \cup play.orphans THEN {"own"} ELSE {}]
    BY DEF Init, WorkspaceInit
  <2>2. play.runs \subseteq Ids
    BY <1>2, PlaysAssumption
  <2> QED
    BY <1>2, <2>1, <2>2 DEF PlacesInv, Staged, Kept, Completed
<1>8. NamesInv
  <2>1. Agreed(rows, "old")
    BY <1>2 DEF Agreed, Registered, Init, WorkspaceInit
  <2> QED
    BY <1>2, <2>1 DEF NamesInv, RenameInv, OneSide, NoRename, Off, Tools, Sides, QueueUp
<1>9. BackupInv
  BY <1>2 DEF BackupInv, DocumentInv, CurrentInv, PruneInv, Tools, Stores
<1> QED
  BY <1>1, <1>3, <1>4, <1>5, <1>6, <1>7, <1>8, <1>9 DEF IInv

\* Every step keeps it.
LEMMA InvariantKept == IInv /\ [Next]_vars => IInv'
<1> SUFFICES ASSUME IInv, [Next]_vars PROVE IInv'
  OBVIOUS
<1>1. CASE Next
  <2> USE <1>1 DEF IInv
  <2>1. Types'
    BY TypesKept DEF NamesInv, BackupInv
  <2>2. LockInv' /\ RowsInv' /\ WorkerInv' /\ PlanInv' /\ JournalInv'
    BY LocksKept, RowsKept, WorkerKept, PlanKept, JournalKept
  <2>3. PlacesInv'
    BY StagedKept, KeptKept DEF PlacesInv
  <2>4. ResetInv'
    BY ResetOpenKept, ResetDueKept DEF ResetInv
  <2>5. NamesInv'
    BY RenameInvKept, OneSideKept DEF NamesInv
  <2>6. BackupInv'
    BY BackupInvKept
  <2> QED
    BY <2>1, <2>2, <2>3, <2>4, <2>5, <2>6
<1>2. CASE UNCHANGED vars
  <2> USE <1>2 DEF vars, workspaceVars, cleanupVars, storeVars
  <2>1. Types' /\ LockInv'
    BY DEF IInv, Types, WorkspaceTypes, WorkspaceTypeOK, LabelTypes, CleanupTypes, StoreTypes,
       Registered, LockInv, OneOwner, CleanupLocked, RenameLocked, StoreLocked, WorkerLocked, QueueUp
  <2>2. RowsInv' /\ WorkerInv' /\ JournalInv'
    BY DEF IInv, RowsInv, WorkerInv, JournalInv, Registered, At, OrphanOnly
  <2>3. PlanInv'
    BY DEF IInv, PlanInv, Registered, Running, At, Deletable, Owned
  <2>4. PlacesInv' /\ ResetInv'
    BY DEF IInv, PlacesInv, Staged, Kept, Completed, ResetInv, ResetOpen, ResetDue, Registered, At, Owned
  <2>5. NamesInv'
    BY DEF IInv, NamesInv, RenameInv, OneSide, Agreed, QueueUp
  <2>6. BackupInv'
    BY DEF IInv, BackupInv, DocumentInv, CurrentInv, PruneInv, Sane, Agreed, References, Old
  <2> QED
    BY <2>1, <2>2, <2>3, <2>4, <2>5, <2>6 DEF IInv
<1> QED
  BY <1>1, <1>2

\* The inductive invariant of the maintenance tools.
THEOREM InductiveInvariant == Spec => []IInv
BY InvariantInit, InvariantKept, PTL DEF Spec

\* Database, directories and configuration files say the same whenever no tool
\* is under way, and everything has its type.
THEOREM ProjectIsConsistent == Spec => []Consistent
<1>1. IInv => Consistent
  <2> SUFFICES ASSUME IInv PROVE Consistent
    OBVIOUS
  <2>1. TypeOK
    <3>1. plan.moves \subseteq plan.ids \cup plan.orphans /\ left \subseteq Ids
          /\ tmp \in BOOLEAN /\ resetting \in BOOLEAN /\ verdict \in {"none", "restore", "purge"}
      BY DEF IInv, Types, CleanupTypes
    <3>2. /\ current \in Generations \cup {Nothing} /\ marker \in BOOLEAN /\ litter \in BOOLEAN
          /\ \A g \in Generations : gens[g] # Nothing => gens[g] \in Documents
          /\ bad \subseteq objects
      BY DEF IInv, Types, StoreTypes
    <3> QED
      BY <3>1, <3>2 DEF IInv, Types, WorkspaceTypes, LabelTypes, TypeOK
  <2>2. Settled
    <3>1. Completed \subseteq Ids
      BY DEF IInv, Types, WorkspaceTypes, WorkspaceTypeOK, Completed
    <3> QED
      BY <3>1 DEF IInv, Settled, PlacesInv, Staged, Kept, RowsInv, NoPlan
  <2>3. NamesAgree
    BY DEF IInv, NamesAgree, NamesInv, OneSide
  <2> QED
    BY <2>1, <2>2, <2>3 DEF Consistent
<1> QED
  BY <1>1, InductiveInvariant, PTL

\* No files of a registered run leave the disk, by no interleaving of crash,
\* retry, rollback and worker, and the sequences restart over an empty disk.
THEOREM DataIsKept == Spec => DataKept
<1> DEFINE Lost == \A i \in Ids : place[i] # {} /\ place'[i] = {} =>
                      \/ i \notin Registered
                      \/ i \in journal.orphans /\ place[i] = {"trash"}
           Reset == next' < next => /\ Registered = {}
                                    /\ ~ play.plots => \A i \in Ids : "own" \notin place[i]
<1>1. IInv /\ [Next]_vars => [Lost]_vars
  <2> SUFFICES ASSUME IInv, Next PROVE Lost
    BY DEF vars
  <2>1. /\ place \in [Ids -> SUBSET {"own", "trash"}] /\ left \subseteq Ids
    BY DEF IInv, Types, WorkspaceTypes, WorkspaceTypeOK, CleanupTypes
  <2>2. CASE WorkspaceTurn
    BY <2>1, <2>2, WorkerPlaces DEF IInv
  <2>3. CASE RenameTurn \/ StoreTurn
    <3>1. place' = place
      BY <2>3, RenameFrame, StoreFrame DEF dataVars, IInv, Types, WorkspaceTypes, WorkspaceTypeOK,
         LabelTypes, Owners
    <3> QED
      BY <3>1
  <2>4. CASE CleanupTurn
    <3>1. CASE PurgeDirectory
      <4>1. /\ First(left) \in left /\ left \subseteq journal.ids \cup journal.orphans
            /\ journal.ids \cap Registered = {}
        BY <2>1, <3>1, FirstIsOne DEF PurgeDirectory, IInv, JournalInv
      <4>2. \/ place' = place
            \/ \E w : place' = [place EXCEPT ![First(left)] = {"trash"}]
            \/ place' = [place EXCEPT ![First(left)] = @ \ {"trash"}]
        BY <3>1 DEF PurgeDirectory, Put
      <4> QED
        BY <2>1, <4>1, <4>2
    <3>2. CASE StageDirectory \/ RestoreDirectory
      <4>1. \/ place' = place
            \/ \E i, new : new # {} /\ place' = [place EXCEPT ![i] = new]
        BY <3>2 DEF StageDirectory, RestoreDirectory, Put
      <4> QED
        BY <2>1, <4>1
    <3>3. PurgeDirectory \/ StageDirectory \/ RestoreDirectory \/ place' = place
      BY <2>4 DEF CleanupTurn, CleanupNext, CleanupStep, OpenCleanup, LockTables, MakePlan, PlanReset,
         Decline, WriteTemporary, WriteJournal, DeleteRows, Relock, Judge, FinishPending,
         CommitCleanup, StopCleanup
    <3> QED
      BY <3>1, <3>2, <3>3
  <2> QED
    BY <2>2, <2>3, <2>4 DEF Next
<1>2. IInv /\ [Next]_vars => [Reset]_vars
  <2> SUFFICES ASSUME IInv, Next, next' < next PROVE Reset
    BY DEF vars
  <2>1. next \in Int
    BY PlaysAssumption DEF IInv, Types, WorkspaceTypes, WorkspaceTypeOK
  <2>2. CASE WorkspaceTurn
    <3>1. next' = next \/ next' = next + 1
      BY <2>2 DEF WorkspaceTurn, WorkspaceNext, StartQueue, EndQueue, KillQueue, dataVars, WorkerStep,
         StartWorker, InsertRow, MarkRunning,
         StoreCheckpoint, CompleteRun, RenderArtifacts, FailWorker, KillWorker, MarkAbandoned, workerLeft
    <3> QED
      BY <2>1, <3>1
  <2>3. CASE RenameTurn \/ StoreTurn
    <3>1. next' = next
      BY <2>3, RenameFrame, StoreFrame DEF dataVars, IInv, Types, WorkspaceTypes, WorkspaceTypeOK,
         LabelTypes, Owners
    <3> QED
      BY <2>1, <3>1
  <2>4. CASE CleanupTurn
    <3>1. next' = next \/ (resetting /\ (DeleteRows \/ CommitCleanup))
      BY <2>4 DEF CleanupTurn, CleanupNext, CleanupStep, OpenCleanup, LockTables, MakePlan, PlanReset,
         Decline, WriteTemporary, WriteJournal, StageDirectory, DeleteRows, Relock, Judge,
         RestoreDirectory, PurgeDirectory, FinishPending, CommitCleanup, StopCleanup, CommitSequences
    <3>2. resetting => Registered = {}
      BY DEF IInv, ResetInv, ResetOpen
    <3>3. resetting /\ CommitCleanup => play.plots \/ Owned({})
      BY DEF IInv, ResetInv, ResetOpen, CommitCleanup, At
    <3>4. resetting /\ DeleteRows => play.plots \/ Owned({})
      BY DEF IInv, ResetInv, ResetOpen, PlanInv, DeleteRows, At, Writing
    <3> QED
      BY <2>1, <3>1, <3>2, <3>3, <3>4 DEF Owned
  <2> QED
    BY <2>2, <2>3, <2>4 DEF Next
<1>3. Spec => [][Lost]_vars /\ [][Reset]_vars
  BY <1>1, <1>2, InductiveInvariant, PTL DEF Spec
<1> QED
  BY <1>3 DEF DataKept, NothingLost, ResetIsClean

\* The backup CURRENT names can be restored at every moment, and prune leaves
\* it alone with its objects.
THEOREM BackupIsKept == Spec => BackupKept
<1> DEFINE Latest == marker /\ ~ marker' => /\ objects' = References(gens[current])
                                            /\ Old = {} /\ ~ litter'
<1>1. IInv => CurrentRestorable
  BY DEF IInv, BackupInv, CurrentInv, Sane, CurrentRestorable
<1>2. IInv /\ [Next]_vars => [Latest]_vars
  <2> SUFFICES ASSUME IInv, Next, marker, ~ marker' PROVE Latest
    BY DEF vars
  <2>1. \E t \in Stores : ClearMarker(t)
    <3>1. StoreTurn
      BY DEF Next, WorkspaceTurn, CleanupTurn, RenameTurn, storeVars
    <3>2. CASE OpenSync \/ SyncStep
      BY <3>2 DEF SyncStep, OpenSync, CheckPrevious, Freeze, PutObject, Recheck, MarkCleanup,
         NameGeneration, PointCurrent, storeVars
    <3>3. CASE OpenPrune \/ DamageObject
      BY <3>3 DEF OpenPrune, DamageObject, storeVars
    <3>4. CASE \E t \in Stores : PruneStep(t) \/ StopStore(t)
      BY <3>4 DEF PruneStep, ListGarbage, DeleteGeneration, GenerationsDeleted, DeleteObject, StopStore
    <3> QED
      BY <3>1, <3>2, <3>3, <3>4 DEF StoreTurn, StoreNext
  <2>2. PICK t \in Stores : ClearMarker(t)
    BY <2>1
  <2>3. pc[t] = "objects" /\ sweep[t] = {} /\ UNCHANGED <<objects, litter>>
    BY <2>2 DEF ClearMarker, AtStore
  <2> QED
    BY <2>3 DEF IInv, BackupInv, PruneInv
<1>3. Spec => []CurrentRestorable /\ [][Latest]_vars
  BY <1>1, <1>2, InductiveInvariant, PTL DEF Spec
<1> QED
  BY <1>3 DEF BackupKept, LatestOnly
=============================================================================
