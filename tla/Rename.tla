------------------------------- MODULE Rename -------------------------------
(***************************************************************************)
(* rename_runs.py: one audited migration of the names of every run and of  *)
(* the configuration files.  The database commits first; pending.json and  *)
(* the rows decide to which side the files are taken.                      *)
(***************************************************************************)
EXTENDS Workspace

VARIABLE side  \* db_side, as _recover found it

AtRename(label) == pc["rename"] = label
besides == <<play, worker, next, place, journal>>

NamedAs(name) == \A i \in Registered : rows[i].name = name
CloseRename == Leave("rename") /\ side' = "none"

\* maintenance_guard, then activity_guard(exclusive).
RenameLocks == {"maintenance", "activity"}
OpenMigration ==
    /\ InPlay("rename") /\ AtRename("off")
    /\ ~ pending.on /\ journal = NoPlan
    /\ Acquire("rename", RenameLocks)
    /\ Goto("rename", "plan")
    /\ UNCHANGED <<besides, rows, configs, pending, faults, side>>

\* build_plan accepts what the audit described: completed runs, all their
\* checkpoints on disk, every name and file still on its old side.
Auditable == /\ Registered = Completed /\ NamedAs("old") /\ configs = {"old"}
             /\ \A i \in Registered : "own" \in place[i]
BuildPlan ==
    /\ AtRename("plan") /\ Free("tables")
    /\ IF Auditable THEN /\ Acquire("rename", {"tables"})
                         /\ Goto("rename", "point") /\ side' = side
                    ELSE CloseRename
    /\ UNCHANGED <<besides, rows, configs, pending, faults>>

\* The manifest and the copies are on disk before pending.json names them.
WritePending ==
    /\ AtRename("point")
    /\ pending' = [on |-> TRUE, ids |-> Registered]
    /\ Goto("rename", "apply")
    /\ UNCHANGED <<besides, rows, configs, held, faults, side>>

\* apply_database and the commit; a migration without rows is file_only.
ApplyDatabase ==
    /\ AtRename("apply")
    /\ rows' = [i \in Registered |-> [rows[i] EXCEPT !.name = "new"]]
    /\ Release("rename", {"tables"})
    /\ Goto("rename", "look")
    /\ UNCHANGED <<besides, configs, pending, faults, side>>

OpenRecovery ==
    /\ InPlay("rename") /\ AtRename("off")
    /\ pending.on /\ journal = NoPlan
    /\ Acquire("rename", RenameLocks)
    /\ Goto("rename", "look")
    /\ UNCHANGED <<besides, rows, configs, pending, faults, side>>

\* db_side: rows that match neither side stop the recovery.
DbSide == IF Registered # pending.ids THEN "neither"
          ELSE IF pending.ids = {} THEN "new"
          ELSE IF NamedAs("old") THEN "old"
          ELSE IF NamedAs("new") THEN "new"
          ELSE "neither"

LookAtDatabase ==
    /\ AtRename("look") /\ Free("tables")
    /\ IF DbSide = "neither" THEN CloseRename
       ELSE /\ Acquire("rename", {"tables"})
            /\ Goto("rename", "files") /\ side' = DbSide
    /\ UNCHANGED <<besides, rows, configs, pending, faults>>

\* finish_files: files of this side first, those of the other one after.
FinishFile ==
    /\ AtRename("files") /\ configs # {side}
    /\ configs' = IF side \in configs THEN {side} ELSE configs \cup {side}
    /\ UNCHANGED <<besides, rows, pending, held, pc, faults, side>>

ClearPending ==
    /\ AtRename("files") /\ configs = {side}
    /\ pending' = NoRename
    /\ CloseRename
    /\ UNCHANGED <<besides, rows, configs, faults>>

StopRename ==
    /\ ~ AtRename("off") /\ faults < play.faults
    /\ faults' = faults + 1
    /\ CloseRename
    /\ UNCHANGED <<besides, rows, configs, pending>>

RenameStep ==
    \/ BuildPlan \/ WritePending \/ ApplyDatabase \/ LookAtDatabase \/ FinishFile \/ ClearPending

RenameNext == OpenMigration \/ OpenRecovery \/ RenameStep \/ StopRename
=============================================================================
