---------------------------- MODULE ColdStorage ----------------------------
(***************************************************************************)
(* cold_storage.py: sync captures the project and the database into        *)
(* content objects and a generation, points CURRENT at it and prunes       *)
(* everything else; prune does the last part alone.  An object is named by *)
(* its content, so it is modelled as what it contains.                     *)
(***************************************************************************)
EXTENDS Workspace

CONSTANTS
    Generations,  \* directory names a generation may get
    Nothing       \* no generation, no document

Documents == [rows : UNION {[S -> Rows] : S \in SUBSET Ids}, runs : SUBSET Ids,
              configs : SUBSET Sides]

ASSUME NothingAssumption == Nothing \notin Generations \cup Documents

VARIABLES
    objects,   \* on the backup disk
    bad,       \* objects whose bytes no longer match their name
    gens,      \* generation |-> its manifest
    current,   \* CURRENT
    marker,    \* cleanup_pending.json of the backup
    litter,    \* .incomplete-* directories and .object-* files
    doc,       \* the manifest sync is making
    fresh,     \* the generation it was renamed to
    sweep      \* store process |-> objects its prune still has to delete

storeVars == <<objects, bad, gens, current, marker, litter, doc, fresh, sweep>>
projectVars == <<play, worker, dataVars>>
Stores == {"sync", "prune"}

References(d) ==
    {<<"dump", d.rows>>} \cup ({"run"} \X d.runs) \cup ({"config"} \X d.configs)
Capture == [rows |-> rows, runs |-> {i \in Ids : "own" \in place[i]}, configs |-> configs]

StoreInit ==
    /\ objects = {} /\ bad = {}
    /\ gens = [g \in Generations |-> Nothing] /\ current = Nothing
    /\ marker = FALSE /\ litter = FALSE
    /\ doc = Nothing /\ fresh = Nothing
    /\ sweep = [t \in Stores |-> {}]

AtStore(t, label) == pc[t] = label
Sound(d) == References(d) \subseteq objects \ bad

CloseStore(t) ==
    /\ Leave(t)
    /\ sweep' = [sweep EXCEPT ![t] = {}]
    /\ IF t = "sync" THEN doc' = Nothing /\ fresh' = Nothing ELSE UNCHANGED <<doc, fresh>>

\* no_workers looks for the processes of the project, and for the journals.
NoWorkers == worker.pc = "off" /\ journal = NoPlan /\ ~ pending.on /\ pc["cleanup"] = "off"

\* project_operation_guard, the local lock and the lock of the disk.
OpenSync ==
    /\ InPlay("sync") /\ AtStore("sync", "off")
    /\ NoWorkers
    /\ Acquire("sync", {"maintenance", "activity", "store"})
    /\ Goto("sync", "previous")
    /\ UNCHANGED <<projectVars, storeVars, faults>>

\* An interrupted prune is finished first, and the old backup is verified.
CheckPrevious ==
    /\ AtStore("sync", "previous")
    /\ IF current # Nothing /\ marker
          THEN Goto("sync", "keep") /\ UNCHANGED <<held, doc, fresh, sweep>>
       ELSE IF current # Nothing /\ ~ Sound(gens[current]) THEN CloseStore("sync")
       ELSE Goto("sync", "freeze") /\ UNCHANGED <<held, doc, fresh, sweep>>
    /\ UNCHANGED <<projectVars, objects, bad, gens, current, marker, litter, faults>>

\* frozen_database, the scan and the dump: the tables stay locked to the end.
Freeze ==
    /\ AtStore("sync", "freeze") /\ Free("tables")
    /\ IF Running = {} /\ NoWorkers
          THEN /\ Acquire("sync", {"tables"}) /\ Goto("sync", "put")
               /\ doc' = Capture /\ UNCHANGED <<fresh, sweep>>
          ELSE CloseStore("sync")
    /\ UNCHANGED <<projectVars, objects, bad, gens, current, marker, litter, faults>>

\* put_object, one missing object at a time; a damaged one is not overwritten.
PutObject ==
    /\ AtStore("sync", "put") /\ References(doc) \cap bad = {}
    /\ \E o \in References(doc) \ objects : objects' = objects \cup {o}
    /\ UNCHANGED <<projectVars, bad, gens, current, marker, litter, doc, fresh, sweep,
                   held, pc, faults>>

\* verify_generation of the new document and the second scan of the source.
Recheck ==
    /\ AtStore("sync", "put")
    /\ References(doc) \subseteq objects \/ References(doc) \cap bad # {}
    /\ IF Sound(doc) /\ NoWorkers /\ Capture = doc
          THEN Goto("sync", "mark") /\ UNCHANGED <<held, doc, fresh, sweep>>
          ELSE CloseStore("sync")
    /\ UNCHANGED <<projectVars, objects, bad, gens, current, marker, litter, faults>>

MarkCleanup ==
    /\ AtStore("sync", "mark")
    /\ marker' = TRUE
    /\ Goto("sync", "publish")
    /\ UNCHANGED <<projectVars, objects, bad, gens, current, litter, doc, fresh, sweep,
                   held, faults>>

\* publish: the generation gets its name, and then CURRENT names it.
NameGeneration ==
    /\ AtStore("sync", "publish")
    /\ \E g \in Generations :
          /\ gens[g] = Nothing
          /\ gens' = [gens EXCEPT ![g] = doc]
          /\ fresh' = g
    /\ Goto("sync", "point")
    /\ UNCHANGED <<projectVars, objects, bad, current, marker, litter, doc, sweep, held, faults>>

PointCurrent ==
    /\ AtStore("sync", "point")
    /\ current' = fresh
    /\ Goto("sync", "keep")
    /\ UNCHANGED <<projectVars, objects, bad, gens, marker, litter, doc, fresh, sweep,
                   held, faults>>

-----------------------------------------------------------------------------
(* prune, inside sync or alone *)

OpenPrune ==
    /\ InPlay("prune") /\ AtStore("prune", "off")
    /\ current # Nothing
    /\ Acquire("prune", {"store"})
    /\ Goto("prune", "keep")
    /\ UNCHANGED <<projectVars, storeVars, faults>>

\* What the verified CURRENT refers to is kept, the rest is listed.
\* Mutant: what the generations about to be deleted refer to is kept as well.
GarbageOfNone == objects \ UNION {References(gens[g]) : g \in {h \in Generations : gens[h] # Nothing}}
Garbage == objects \ References(gens[current])
ListGarbage(t) ==
    /\ AtStore(t, "keep")
    /\ IF Sound(gens[current])
          THEN /\ sweep' = [sweep EXCEPT ![t] = Garbage]
               /\ Goto(t, "generations") /\ UNCHANGED <<held, doc, fresh>>
          ELSE CloseStore(t)
    /\ UNCHANGED <<projectVars, objects, bad, gens, current, marker, litter, faults>>

Old == {g \in Generations \ {current} : gens[g] # Nothing}

\* Old manifests first: an interruption leaves only objects nobody names.
DeleteGeneration(t) ==
    /\ AtStore(t, "generations")
    /\ \E g \in Old : gens' = [gens EXCEPT ![g] = Nothing]
    /\ UNCHANGED <<projectVars, objects, bad, current, marker, litter, doc, fresh, sweep,
                   held, pc, faults>>

GenerationsDeleted(t) ==
    /\ AtStore(t, "generations") /\ Old = {}
    /\ litter' = FALSE
    /\ Goto(t, "objects")
    /\ UNCHANGED <<projectVars, objects, bad, gens, current, marker, doc, fresh, sweep,
                   held, faults>>

DeleteObject(t) ==
    /\ AtStore(t, "objects")
    /\ \E o \in sweep[t] :
          /\ objects' = objects \ {o} /\ bad' = bad \ {o}
          /\ sweep' = [sweep EXCEPT ![t] = @ \ {o}]
    /\ UNCHANGED <<projectVars, gens, current, marker, litter, doc, fresh, held, pc, faults>>

\* The marker goes last.  sync goes on if it pruned for an interrupted one.
ClearMarker(t) ==
    /\ AtStore(t, "objects") /\ sweep[t] = {}
    /\ marker' = FALSE
    /\ IF t = "sync" /\ doc = Nothing
          THEN Goto(t, "previous") /\ UNCHANGED <<held, doc, fresh, sweep>>
          ELSE CloseStore(t)
    /\ UNCHANGED <<projectVars, objects, bad, gens, current, litter, faults>>

\* An exception removes the pending directories, SIGKILL does not.
StopStore(t) ==
    /\ ~ AtStore(t, "off") /\ faults < play.faults
    /\ faults' = faults + 1
    /\ litter' \in IF AtStore(t, "put") \/ AtStore(t, "mark") \/ AtStore(t, "publish")
                      THEN {litter, TRUE} ELSE {litter}
    /\ CloseStore(t)
    /\ UNCHANGED <<projectVars, objects, bad, gens, current, marker>>

\* The backup disk loses bits.
DamageObject ==
    /\ faults < play.faults /\ InPlay("sync")
    /\ faults' = faults + 1
    /\ \E o \in objects \ bad : bad' = bad \cup {o}
    /\ UNCHANGED <<projectVars, objects, gens, current, marker, litter, doc, fresh, sweep,
                   held, pc>>

SyncStep ==
    \/ CheckPrevious \/ Freeze \/ PutObject \/ Recheck \/ MarkCleanup \/ NameGeneration
    \/ PointCurrent
PruneStep(t) ==
    \/ ListGarbage(t) \/ DeleteGeneration(t) \/ GenerationsDeleted(t) \/ DeleteObject(t)
    \/ ClearMarker(t)

StoreNext ==
    \/ OpenSync \/ SyncStep \/ OpenPrune \/ DamageObject
    \/ \E t \in Stores : PruneStep(t) \/ StopStore(t)
=============================================================================
