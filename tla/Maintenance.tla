---------------------------- MODULE Maintenance ----------------------------
(***************************************************************************)
(* Cleanup, rename and cold storage beside a queue and its training worker: *)
(* what their locks and journals promise together.                         *)
(***************************************************************************)
EXTENDS Cleanup, Rename, ColdStorage

vars == <<workspaceVars, cleanupVars, side, storeVars>>

Init == WorkspaceInit /\ CleanupInit /\ side = "none" /\ StoreInit

WorkspaceTurn == WorkspaceNext /\ UNCHANGED <<cleanupVars, side, storeVars>>
CleanupTurn == CleanupNext /\ UNCHANGED <<side, storeVars>>
RenameTurn == RenameNext /\ UNCHANGED <<cleanupVars, storeVars>>
StoreTurn == StoreNext /\ UNCHANGED <<cleanupVars, side>>

Next == WorkspaceTurn \/ CleanupTurn \/ RenameTurn \/ StoreTurn
Spec == Init /\ [][Next]_vars

\* A tool that runs takes its next step, and whoever sees a journal, a pending
\* rename or a cleanup marker calls the tool that finishes it until it does.
\* Nothing is assumed of queue and worker, and of no first call of a tool.
Fairness ==
    /\ WF_vars(CleanupStep /\ UNCHANGED <<side, storeVars>>)
    /\ WF_vars(journal # NoPlan /\ OpenCleanup /\ UNCHANGED <<side, storeVars>>)
    /\ WF_vars((RenameStep \/ OpenRecovery) /\ UNCHANGED <<cleanupVars, storeVars>>)
    /\ WF_vars((SyncStep \/ PruneStep("sync")) /\ UNCHANGED <<cleanupVars, side>>)
    /\ WF_vars((PruneStep("prune") \/ (marker /\ OpenPrune)) /\ UNCHANGED <<cleanupVars, side>>)

FairSpec == Spec /\ Fairness

-----------------------------------------------------------------------------
(* Properties *)

Labels == {"off", "open", "plan", "write", "replace", "move", "relock", "judge", "finish", "commit",
           "point", "apply", "look", "files", "previous", "freeze", "put", "mark", "publish",
           "keep", "generations", "objects"}

\* The types of the shared state, of the journals and of the backup disk.
TypeOK ==
    /\ WorkspaceTypeOK
    /\ pc \in [Tools -> Labels]
    /\ plan.moves \subseteq plan.ids \cup plan.orphans /\ left \subseteq Ids
    /\ tmp \in BOOLEAN /\ resetting \in BOOLEAN /\ verdict \in {"none", "restore", "purge"}
    /\ side \in {"none"} \cup Sides
    /\ current \in Generations \cup {Nothing} /\ marker \in BOOLEAN /\ litter \in BOOLEAN
    /\ \A g \in Generations : gens[g] # Nothing => gens[g] \in Documents
    /\ bad \subseteq objects

\* A directory leaves the disk only when the commit that deleted its row is
\* durable: no crash, retry or rollback loses the files of a registered run.
\* A staged directory the user approved as an orphan was never such files.
NothingLost ==
    [][\A i \in Ids : place[i] # {} /\ place'[i] = {} =>
            \/ i \notin Registered
            \/ i \in journal.orphans /\ place[i] = {"trash"}]_vars

\* Where no cleanup is pending or under way, no directory is staged, every
\* completed run has its directory, and no run continues a deleted one.
Settled ==
    journal = NoPlan /\ At("off") =>
        /\ \A i \in Ids : "trash" \notin place[i]
        /\ \A i \in Completed : "own" \in place[i]
        /\ \A i \in Registered : rows[i].parent \in {0} \cup Registered

Agreed(R, s) == \A i \in DOMAIN R : R[i].stray \/ R[i].name = s

\* Where no rename is pending or under way, the configuration files and the
\* runs of queues bear names of the same side, however queues, workers and
\* renames alternate and break off.  Only a worker whose queue is gone, and
\* the activity lock with it, may insert the name of the other side.
NamesAgree ==
    play.guarded /\ ~ pending.on /\ AtRename("off") =>
        \E s \in Sides : configs = {s} /\ Agreed(rows, s)

\* The sequences restart only on empty tables and, unless a live trainer still
\* draws the plots of a completed run, over no directory a new run would meet.
ResetIsClean ==
    [][next' < next => /\ Registered = {}
                       /\ ~ play.plots => \A i \in Ids : "own" \notin place[i]]_vars

\* CURRENT can be restored at every moment: its objects are on the disk, each
\* completed run of its dump has its directory and the names of its runs from
\* queues agree.
CurrentRestorable ==
    current # Nothing =>
        LET d == gens[current]
        IN /\ d # Nothing
           /\ References(d) \subseteq objects
           /\ \A i \in DOMAIN d.rows : d.rows[i].status = "completed" => i \in d.runs
           /\ play.guarded => \E s \in Sides : d.configs = {s} /\ Agreed(d.rows, s)

\* The marker goes when the latest generation, and only it, is left with the
\* objects it refers to.
LatestOnly ==
    [][marker /\ ~ marker' => /\ objects' = References(gens[current])
                              /\ Old = {} /\ ~ litter']_vars

\* The shared state is well formed and, where no tool is under way, the
\* database, the directories and the configuration files say the same.
Consistent == TypeOK /\ Settled /\ NamesAgree

\* No tool loses or overwrites the files of a registered run: they leave the
\* disk only after their row, and numbers are used again only over an empty
\* disk.
DataKept == NothingLost /\ ResetIsClean

\* The backup is one that can be restored, at every moment and whatever was
\* pruned.
BackupKept == []CurrentRestorable /\ LatestOnly

\* What cannot be finished without a decision: a purge that finds new runs, a
\* run inserted beside a rename, and a damaged or a first backup.
Overtaken ==
    \/ journal.all /\ Registered # {}
    \/ \E i \in Ids : Both(i)
Disturbed == pending.on /\ DbSide = "neither"
Unusable == IF current = Nothing THEN TRUE ELSE References(gens[current]) \cap bad # {}

\* Every interrupted cleanup, rename and prune is finished by calling it again.
RecoveryEnds ==
    /\ journal # NoPlan ~> journal = NoPlan \/ Overtaken
    /\ pending.on ~> ~ pending.on \/ Disturbed
    /\ marker ~> ~ marker \/ Unusable
=============================================================================
