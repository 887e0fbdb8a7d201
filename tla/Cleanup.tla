------------------------------ MODULE Cleanup ------------------------------
(***************************************************************************)
(* clean_training.py: directories are staged in a trash directory, the     *)
(* rows are deleted by the commit, and what the journal still names is     *)
(* restored or purged by a second transaction, or by the next call, after  *)
(* a look at the rows.                                                     *)
(***************************************************************************)
EXTENDS Workspace

VARIABLES
    plan,       \* of this call; NoPlan while it recovers an earlier one
    tmp,        \* artifacts/.cleanup_pending.tmp was left or is being written
    left,       \* the moves a loop still has to make
    verdict,    \* finish_pending: restore or purge
    resetting   \* the open transaction has restarted the sequences

cleanupVars == <<plan, tmp, left, verdict, resetting>>
cleanupLocals == <<plan, left, verdict, resetting>>

CleanupInit == plan = NoPlan /\ tmp = FALSE /\ left = {} /\ verdict = "none" /\ resetting = FALSE

At(label) == pc["cleanup"] = label
First(S) == CHOOSE i \in S : \A j \in S : i <= j
shared == <<play, worker, configs, pending>>

\* The end of the call, by an answer, an exception or SIGKILL: an open
\* transaction is rolled back.
CloseCleanup ==
    /\ Leave("cleanup")
    /\ plan' = NoPlan /\ left' = {} /\ verdict' = "none" /\ resetting' = FALSE

OpenCleanup ==
    /\ InPlay("cleanup") /\ At("off")
    /\ ~ pending.on
    /\ Acquire("cleanup", {"maintenance"})
    /\ Goto("cleanup", "open")
    /\ UNCHANGED <<shared, rows, next, place, journal, faults, cleanupVars>>

\* locked(): a journal on disk is finished before anything is planned.
\* Mutant: it is overlooked.
PlanAtOnce == "plan"
AfterLock == IF journal = NoPlan THEN "plan" ELSE "judge"
LockTables ==
    /\ At("open")
    /\ Acquire("cleanup", {"tables"})
    /\ Goto("cleanup", AfterLock)
    /\ UNCHANGED <<shared, rows, next, place, journal, faults, cleanupVars>>

\* make_plan, validated, printed and confirmed with SURE.
\* Mutant: kept runs that continue a selected one are not looked for.
DeletableAnyway(S) == TRUE
Deletable(S) == \A i \in Registered \ S : rows[i].parent \notin S
MakePlan ==
    /\ At("plan")
    /\ Running = {}
    /\ \E all \in BOOLEAN, S \in SUBSET Registered :
          LET orphans == IF all THEN Orphans ELSE {}
          IN /\ all => S = Registered
             /\ Deletable(S)
             /\ S \cup orphans # {}
             /\ plan' = [all |-> all, ids |-> S, orphans |-> orphans,
                         moves |-> {i \in S \cup orphans : "own" \in place[i]}]
    /\ Goto("cleanup", "write")
    /\ UNCHANGED <<shared, rows, next, place, journal, held, faults, tmp, left, verdict, resetting>>

\* clean-all of an empty project restarts the sequences and nothing else.
PlanReset ==
    /\ At("plan") /\ Registered = {} /\ Orphans = {}
    /\ resetting' = TRUE
    /\ Goto("cleanup", "commit")
    /\ UNCHANGED <<shared, rows, next, place, journal, held, faults, plan, tmp, left, verdict>>

\* --dry-run or another answer than SURE: the transaction still commits.
Decline ==
    /\ At("plan")
    /\ Goto("cleanup", "commit")
    /\ UNCHANGED <<shared, rows, next, place, journal, held, faults, cleanupVars>>

\* write_journal: open("x") raises on a file an earlier call left behind.
WriteTemporary ==
    /\ At("write")
    /\ IF tmp THEN CloseCleanup /\ tmp' = tmp
              ELSE /\ tmp' = TRUE /\ Goto("cleanup", "replace")
                   /\ UNCHANGED <<held, cleanupLocals>>
    /\ UNCHANGED <<shared, rows, next, place, journal, faults>>

WriteJournal ==
    /\ At("replace")
    /\ journal' = plan /\ tmp' = FALSE /\ left' = plan.moves
    /\ Goto("cleanup", "move")
    /\ UNCHANGED <<shared, rows, next, place, held, faults, plan, verdict, resetting>>

StageDirectory ==
    /\ At("move") /\ left # {}
    /\ LET i == First(left)
       IN /\ place' = [place EXCEPT ![i] = (@ \ {"own"}) \cup {"trash"}]
          /\ left' = left \ {i}
    /\ UNCHANGED <<shared, rows, next, journal, held, pc, faults, plan, tmp, verdict, resetting>>

RestartValue == 1
CommitSequences ==
    /\ next' = IF resetting THEN RestartValue ELSE next
    /\ resetting' = FALSE

\* delete_rows and the commit of the first transaction, in which a journal
\* found at the start may have been finished.
DeleteRows ==
    /\ At("move") /\ left = {}
    /\ rows' = Restrict(rows, Registered \ plan.ids)
    /\ CommitSequences
    /\ Release("cleanup", {"tables"})
    /\ Goto("cleanup", "relock")
    /\ UNCHANGED <<shared, place, journal, faults, plan, tmp, left, verdict>>

Relock ==
    /\ At("relock")
    /\ Acquire("cleanup", {"tables"})
    /\ Goto("cleanup", "judge")
    /\ UNCHANGED <<shared, rows, next, place, journal, faults, cleanupVars>>

\* finish_pending asks the rows, not a flag, what became of the deletion.
OrphanOnly == journal.ids = {}
Existing == journal.ids \cap Registered
\* Mutant: the journal alone is taken for the commit.
JudgedByJournal == "purge"
Judged == IF Existing = {} THEN "purge" ELSE "restore"
Judge ==
    /\ At("judge")
    /\ IF Existing \in {{}, journal.ids} /\ (OrphanOnly => journal.orphans \cap Registered = {})
          THEN /\ verdict' = Judged /\ left' = journal.moves
               /\ Goto("cleanup", "finish")
               /\ UNCHANGED <<held, plan, resetting>>
          ELSE CloseCleanup
    /\ UNCHANGED <<shared, rows, next, place, journal, faults, tmp>>

Both(i) == place[i] = {"own", "trash"}
Put(i, where) == place' = [place EXCEPT ![i] = where]
Done(i) == left' = left \ {i}

\* staged.rename(original), unless the place is taken.
RestoreDirectory ==
    /\ At("finish") /\ verdict = "restore" /\ left # {}
    /\ LET i == First(left)
       IN IF Both(i) THEN CloseCleanup /\ place' = place
          ELSE /\ IF "trash" \in place[i] THEN Put(i, {"own"}) ELSE place' = place
               /\ Done(i)
               /\ UNCHANGED <<held, pc, plan, verdict, resetting>>
    /\ UNCHANGED <<shared, rows, next, journal, faults, tmp>>

\* shutil.rmtree(staged); an orphan not yet staged is staged first.
PurgeDirectory ==
    /\ At("finish") /\ verdict = "purge" /\ left # {}
    /\ LET i == First(left)
       IN IF OrphanOnly /\ Both(i) THEN CloseCleanup /\ place' = place
          ELSE /\ IF OrphanOnly /\ "own" \in place[i]
                     THEN Put(i, {"trash"}) /\ left' = left
                     ELSE Put(i, place[i] \ {"trash"}) /\ Done(i)
               /\ UNCHANGED <<held, pc, plan, verdict, resetting>>
    /\ UNCHANGED <<shared, rows, next, journal, faults, tmp>>

\* reset_sequences, which refuses tables with rows, then the journal goes.
ResetAllowed == Registered = {}
FinishPending ==
    /\ At("finish") /\ left = {}
    /\ LET reset == journal.all /\ verdict = "purge"
       IN IF reset /\ ~ ResetAllowed THEN CloseCleanup /\ journal' = journal
          ELSE /\ journal' = NoPlan
               /\ resetting' = reset
               /\ verdict' = "none"
               /\ Goto("cleanup", IF plan = NoPlan THEN "plan" ELSE "commit")
               /\ UNCHANGED <<held, plan, left>>
    /\ UNCHANGED <<shared, rows, next, place, faults, tmp>>

CommitCleanup ==
    /\ At("commit")
    /\ CommitSequences
    /\ CloseCleanup
    /\ UNCHANGED <<shared, rows, place, journal, faults, tmp>>

\* An OSError, a lost connection, Ctrl-C or SIGKILL, between any two steps, or
\* an answer other than RECOVER at the start.
StopCleanup ==
    /\ ~ At("off") /\ faults < play.faults
    /\ faults' = faults + 1
    /\ CloseCleanup
    /\ UNCHANGED <<shared, rows, next, place, journal, tmp>>

CleanupStep ==
    \/ LockTables \/ MakePlan \/ PlanReset \/ Decline \/ WriteTemporary \/ WriteJournal
    \/ StageDirectory \/ DeleteRows \/ Relock \/ Judge \/ RestoreDirectory \/ PurgeDirectory
    \/ FinishPending \/ CommitCleanup

CleanupNext == OpenCleanup \/ CleanupStep \/ StopCleanup
=============================================================================
