------------------------------ MODULE WalkForward ------------------------------
(***************************************************************************)
(* A walk-forward study (src/train_and_eval/walk_forward/service.py and    *)
(* config.py): cycle by cycle, the checkpoint carried forward is measured  *)
(* as the reference, candidates are trained from it in grid order until    *)
(* the first strict improvement, the winner is refit on the validation     *)
(* weeks, and the refit is tested on the weeks after them.  The winner,    *)
(* never the refit, is carried into the next cycle.                        *)
(*                                                                         *)
(* Executors are processes running execute().  A study lock keeps them     *)
(* apart as long as its connection lives; every other step is a database   *)
(* transaction or a long computation between two, and an executor may be   *)
(* interrupted or killed at each of them.  The stage runs are trained by   *)
(* train_ppo_run, whose own steps are in TrainingRun.                      *)
(***************************************************************************)
EXTENDS Integers, Sequences, FiniteSets, SequencesExt, MarketDataSplit

CONSTANTS Executors,
          Options,          \* number of grid candidates
          Scores,           \* possible balanced scores
          BootstrapWeeks, ValidationWeeks, StepWeeks, TestWeeks,
          DataWeeks,        \* weeks of data after the initial training range
          RowsPerWeek, Batch,
          MaxFaults,        \* bound: interrupts, kills, lost locks, evaluations by hand
          LosesAt,          \* bound: the cycles and steps in which the connection may die
          Ancestries,       \* stage-one runs a source may descend from, itself first
          None

(* What CheckpointWalkForwardConfig and build_plan accept.                 *)
ASSUME ProtocolAssumption ==
    /\ {Options, BootstrapWeeks, ValidationWeeks, StepWeeks, RowsPerWeek, Batch}
           \subseteq Nat \ {0}
    /\ TestWeeks = StepWeeks /\ StepWeeks <= ValidationWeeks
    /\ DataWeeks \in Nat
    /\ BootstrapWeeks + ValidationWeeks + TestWeeks <= DataWeeks
    /\ Scores \subseteq Int
    /\ MaxFaults \in Nat

VARIABLES
    ancestry,       \* the runs behind the source checkpoint of stage one
    study,          \* walk_forward_studies.status, None before the row
    cycles,         \* walk_forward_cycles by number
    runs,           \* the runs rows of the study, by stage
    evaluations,    \* the completed evaluations rows, in the order of their ids
    lock,           \* the executor whose connection holds the study lock
    pc, local,      \* where each executor is, and its local variables
    faults,         \* faults so far
    lost            \* has the lock's connection ever died?

vars == <<ancestry, study, cycles, runs, evaluations, lock, pc, local, faults, lost>>

-----------------------------------------------------------------------------
(* build_plan: weeks counted from the end of the initial training range.   *)

ValidationStart(c) == BootstrapWeeks + (c - 1) * StepWeeks

Cycles == {c \in 1 .. DataWeeks : ValidationStart(c) + ValidationWeeks + TestWeeks <= DataWeeks}

Weeks(first, past) == [start |-> first * RowsPerWeek, end |-> past * RowsPerWeek]

Validation(c) == Weeks(ValidationStart(c), ValidationStart(c) + ValidationWeeks)

(* Mutant: the update goes on into the cycle's own validation.             *)
UpdateAhead(c) == IF c = 1 THEN Weeks(0, BootstrapWeeks)
                  ELSE Weeks(ValidationStart(c) - StepWeeks, ValidationStart(c) + StepWeeks)

Update(c) == IF c = 1 THEN Weeks(0, BootstrapWeeks)
             ELSE Weeks(ValidationStart(c) - StepWeeks, ValidationStart(c))

TestRange(c) == Weeks(ValidationStart(c) + ValidationWeeks,
                      ValidationStart(c) + ValidationWeeks + TestWeeks)

(* A stage run, and the one checkpoint it leaves: <<cycle, role, order>>.  *)
Base == <<0, "base", 0>>

Stages == Cycles \X {"candidate", "refit"} \X (0 .. Options - 1)

Checkpoints == {Base} \cup Stages

(* None is nothing else.                                                   *)
ASSUME NoneAssumption ==
    None \notin Executors \cup Nat \cup Checkpoints
                \cup [order : Nat, checkpoint : Checkpoints, score : Int, initial : Checkpoints]

(* stage_config: what a stage trains on, aligned by prepending.            *)
TrainRange(stage) ==
    TimeRangeSplit(IF stage[2] = "refit" THEN Validation(stage[1]) ELSE Update(stage[1]),
                   0, Batch, "prepend")

PendingCycle == [status |-> "pending", source |-> None, reference |-> None, records |-> <<>>,
                 selected |-> None, refit |-> None, test |-> None]

-----------------------------------------------------------------------------
(* Mutant: a tie is taken for an improvement.                              *)
ImprovesOrTies(record, score) == record.score >= score

(* select_candidate: the first strict improvement in configured order.     *)
Improves(record, score) == record.score > score

SelectCandidate(records, score) ==
    IF \E k \in DOMAIN records : Improves(records[k], score)
    THEN records[CHOOSE k \in DOMAIN records :
                    /\ Improves(records[k], score)
                    /\ \A j \in 1 .. (k - 1) : ~Improves(records[j], score)]
    ELSE None

(* The completed evaluations an identity query returns.                    *)
Matching(checkpoint, scope, range) ==
    {i \in DOMAIN evaluations :
        /\ evaluations[i].checkpoint = checkpoint
        /\ evaluations[i].scope = scope
        /\ evaluations[i].range = range}

(* A frozen checkpoint scores the same whenever it is measured.            *)
ScoresOf(checkpoint, range) ==
    LET known == {i \in DOMAIN evaluations :
                    evaluations[i].checkpoint = checkpoint /\ evaluations[i].range = range}
    IN  IF known = {} THEN Scores ELSE {evaluations[i].score : i \in known}

Measured(checkpoint, scope, range, score) ==
    Append(evaluations,
           [checkpoint |-> checkpoint, scope |-> scope, range |-> range, score |-> score])

(* _source: only a completed candidate may be carried forward.             *)
Carries(checkpoint) == checkpoint \in DOMAIN runs /\ checkpoint[2] = "candidate"
                       /\ runs[checkpoint].status = "completed"

-----------------------------------------------------------------------------
NoLocal == [max |-> 0, view |-> <<>>, number |-> 0, current |-> 0, previous |-> None,
            records |-> <<>>, winner |-> None, found |-> None, reference |-> None]

Init ==
    /\ ancestry \in Ancestries
    /\ study = None
    /\ cycles = [c \in Cycles |-> PendingCycle]
    /\ runs = <<>>
    /\ evaluations = <<>>
    /\ lock = None
    /\ pc = [e \in Executors |-> "off"]
    /\ local = [e \in Executors |-> NoLocal]
    /\ faults = 0 /\ lost = FALSE

bounds == <<faults, lost>>
data == <<ancestry, study, cycles, runs, evaluations>>

Goto(e, label) == pc' = [pc EXCEPT ![e] = label]

(* Any exception inside the try block.                                     *)
Raise(e) == Goto(e, "raised") /\ UNCHANGED <<data, lock, local, bounds>>

(* _stage_one_source: the whole ancestry is ordinary completed runs on the *)
(* explicit ranges and the data of the source, and the source is validated. *)
SourceAccepted ==
    /\ \A k \in DOMAIN ancestry :
           /\ ancestry[k].status = "completed" /\ ancestry[k].role = None
           /\ ancestry[k].train = ancestry[1].train
    /\ ancestry[1].validated

(* prepare: the plan starts where the source's training ended.             *)
PlanAccepted == ancestry[1].train.end = 0

(* execute: the lock is tried once; an executor that does not get it ends. *)
Acquire(e, max) ==
    /\ pc[e] = "off" /\ lock = None
    /\ SourceAccepted /\ PlanAccepted
    /\ lock' = e
    /\ Goto(e, "open")
    /\ local' = [local EXCEPT ![e] = [NoLocal EXCEPT !.max = max]]
    /\ UNCHANGED <<data, bounds>>

(* prepare raises before anything is written.                              *)
Refuse(e) ==
    /\ pc[e] = "off"
    /\ ~(SourceAccepted /\ PlanAccepted)
    /\ UNCHANGED vars

(* The study and its cycles are inserted once; a stopped study is left.    *)
OpenStudy(e) ==
    /\ pc[e] = "open"
    /\ IF study = "stopped"
       THEN Goto(e, "leave") /\ UNCHANGED study
       ELSE Goto(e, "load") /\ study' = "running"
    /\ UNCHANGED <<ancestry, cycles, runs, evaluations, lock, local, bounds>>

(* The cycles are read once, before the loop over them.                    *)
Load(e) ==
    /\ pc[e] = "load"
    /\ Goto(e, "cycle")
    /\ local' = [local EXCEPT ![e].view = cycles, ![e].number = 1, ![e].previous = Base]
    /\ UNCHANGED <<data, lock, bounds>>

View(e) == local[e].view[local[e].number]

Ends(e) == local[e].number \notin Cycles \/ local[e].number > local[e].max

PassCompleted(e) ==
    /\ pc[e] = "cycle" /\ ~Ends(e) /\ View(e).status = "completed"
    /\ IF View(e).source = local[e].previous /\ View(e).selected # None /\ View(e).test # None
       THEN /\ local' = [local EXCEPT ![e].previous = View(e).selected, ![e].number = @ + 1]
            /\ UNCHANGED <<data, lock, pc, bounds>>
       ELSE Raise(e)

(* Mutant: a resumed cycle starts its grid again.                          *)
BeginCycleAfresh(e) ==
    LET n == local[e].number
    IN  /\ pc[e] = "cycle" /\ n \in Cycles /\ n <= local[e].max /\ View(e).status # "completed"
        /\ local' = [local EXCEPT ![e].current = n, ![e].reference = View(e).reference]
        /\ cycles' = [cycles EXCEPT ![n].source = local[e].previous, ![n].status = "running",
                                    ![n].records = <<>>, ![n].selected = None]
        /\ Goto(e, IF View(e).reference = None THEN "reference" ELSE "grid")
        /\ UNCHANGED <<ancestry, study, runs, evaluations, lock, bounds>>

BeginCycle(e) ==
    LET n == local[e].number
    IN  /\ pc[e] = "cycle" /\ ~Ends(e) /\ View(e).status # "completed"
        /\ local' = [local EXCEPT ![e].current = n, ![e].reference = View(e).reference,
                                  ![e].records = View(e).records]
        /\ IF n = 1 \/ Carries(local[e].previous)
           THEN /\ cycles' = [cycles EXCEPT ![n].source = local[e].previous,
                                            ![n].status = "running"]
                /\ Goto(e, IF View(e).reference = None THEN "reference" ELSE "prefix")
           ELSE Goto(e, "raised") /\ UNCHANGED cycles
        /\ UNCHANGED <<ancestry, study, runs, evaluations, lock, bounds>>

-----------------------------------------------------------------------------
(* _evaluation, for the reference and for the test.                        *)
Target(e) ==
    LET n == local[e].number
    IN  IF pc[e] \in {"reference", "measure_reference"}
        THEN [checkpoint |-> local[e].previous, scope |-> "custom_range", range |-> Validation(n)]
        ELSE [checkpoint |-> <<n, "refit", local[e].winner.order>>,
              scope |-> "extended_out_of_sample", range |-> TestRange(n)]

(* A completed exact evaluation is reused; two of them are ambiguous.      *)
FindEvaluation(e) ==
    LET t == Target(e)
        rows == Matching(t.checkpoint, t.scope, t.range)
        isReference == pc[e] = "reference"
    IN  /\ pc[e] \in {"reference", "test"}
        /\ IF Cardinality(rows) > 1 THEN Raise(e)
           ELSE /\ local' = [local EXCEPT ![e].found =
                                IF rows = {} THEN None ELSE CHOOSE i \in rows : TRUE]
                /\ Goto(e, IF rows = {}
                           THEN (IF isReference THEN "measure_reference" ELSE "measure_test")
                           ELSE (IF isReference THEN "set_reference" ELSE "set_test"))
                /\ UNCHANGED <<data, lock, bounds>>

Measure(e) ==
    LET t == Target(e)
    IN  /\ pc[e] \in {"measure_reference", "measure_test"}
        /\ \E score \in ScoresOf(t.checkpoint, t.range) :
               evaluations' = Measured(t.checkpoint, t.scope, t.range, score)
        /\ local' = [local EXCEPT ![e].found = Len(evaluations) + 1]
        /\ Goto(e, IF pc[e] = "measure_reference" THEN "set_reference" ELSE "set_test")
        /\ UNCHANGED <<ancestry, study, cycles, runs, lock, bounds>>

SetReference(e) ==
    /\ pc[e] = "set_reference"
    /\ cycles' = [cycles EXCEPT ![local[e].number].reference = local[e].found]
    /\ local' = [local EXCEPT ![e].reference = local[e].found]
    /\ Goto(e, "prefix")
    /\ UNCHANGED <<ancestry, study, runs, evaluations, lock, bounds>>

-----------------------------------------------------------------------------
(* Selection.                                                              *)
ReferenceScore(e) == evaluations[local[e].reference].score

ConsistentRecords(e) ==
    /\ Len(local[e].records) <= Options
    /\ \A k \in DOMAIN local[e].records :
           /\ local[e].records[k].order = k - 1
           /\ local[e].records[k].initial = local[e].previous

(* A resumed cycle goes on from the attempts it had recorded.              *)
ResumePrefix(e) ==
    LET winner == SelectCandidate(local[e].records, ReferenceScore(e))
    IN  /\ pc[e] = "prefix"
        /\ IF ~ConsistentRecords(e)
              \/ (View(e).selected # None
                  /\ (winner = None \/ winner.checkpoint # View(e).selected))
           THEN Raise(e)
           ELSE /\ local' = [local EXCEPT ![e].winner = winner]
                /\ Goto(e, IF winner = None THEN "grid" ELSE "refit")
                /\ UNCHANGED <<data, lock, bounds>>

(* The stage run an executor is at, and the checkpoint it resumes.         *)
Stage(e) ==
    IF local[e].winner = None
    THEN <<local[e].number, "candidate", Len(local[e].records)>>
    ELSE <<local[e].number, "refit", local[e].winner.order>>

(* Mutant: every attempt goes on from the one before.                      *)
SourceChained(e) ==
    IF local[e].winner # None THEN local[e].winner.checkpoint
    ELSE IF local[e].records = <<>> THEN local[e].previous ELSE Last(local[e].records).checkpoint

Source(e) == IF local[e].winner = None THEN local[e].previous ELSE local[e].winner.checkpoint

(* Mutant: a run that exists is never reused.                              *)
FindNoStage(e) ==
    /\ \/ pc[e] = "grid" /\ Len(local[e].records) < Options
       \/ pc[e] = "refit"
    /\ Goto(e, IF Stage(e) \in DOMAIN runs THEN "raised" ELSE "create")
    /\ UNCHANGED <<data, lock, local, bounds>>

(* _run_stage: a completed run of the frozen identity is reused, any other *)
(* run of the name is never trained again.                                 *)
FindStage(e) ==
    /\ \/ pc[e] = "grid" /\ Len(local[e].records) < Options
       \/ pc[e] = "refit"
    /\ IF pc[e] = "refit" /\ ~Carries(Source(e)) THEN Raise(e)
       ELSE IF Stage(e) \notin DOMAIN runs
       THEN Goto(e, "create") /\ UNCHANGED <<data, lock, local, bounds>>
       ELSE IF runs[Stage(e)].source = Source(e) /\ runs[Stage(e)].status = "completed"
       THEN /\ Goto(e, IF pc[e] = "grid" THEN "record" ELSE "set_refit")
            /\ UNCHANGED <<data, lock, local, bounds>>
       ELSE Raise(e)

(* train_ppo_run inserts the run; the name is unique.                      *)
CreateStage(e) ==
    /\ pc[e] = "create"
    /\ IF Stage(e) \in DOMAIN runs THEN Raise(e)
       ELSE /\ runs' = [s \in DOMAIN runs \cup {Stage(e)} |->
                          IF s = Stage(e) THEN [status |-> "running", source |-> Source(e)]
                          ELSE runs[s]]
            /\ Goto(e, "training")
            /\ UNCHANGED <<ancestry, study, cycles, evaluations, lock, local, bounds>>

(* A candidate's run ends with its validation; a refit has none.           *)
TrainingCompletes(e) ==
    /\ pc[e] = "training"
    /\ runs[Stage(e)].status = "running"
    /\ runs' = [runs EXCEPT ![Stage(e)].status = "completed"]
    /\ IF local[e].winner = None
       THEN /\ \E score \in ScoresOf(Stage(e), Validation(local[e].number)) :
                   evaluations' = Measured(Stage(e), "run_validation",
                                           Validation(local[e].number), score)
            /\ Goto(e, "record")
       ELSE UNCHANGED evaluations /\ Goto(e, "set_refit")
    /\ UNCHANGED <<ancestry, study, cycles, lock, local, bounds>>

(* The attempt and, if it wins, the selection are committed together.      *)
RecordCandidate(e) ==
    LET n == local[e].number
        rows == Matching(Stage(e), "run_validation", Validation(n))
        record == [order |-> Len(local[e].records), checkpoint |-> Stage(e),
                   score |-> evaluations[CHOOSE i \in rows : TRUE].score,
                   initial |-> runs[Stage(e)].source]
        wins == Improves(record, ReferenceScore(e))
    IN  /\ pc[e] = "record"
        /\ IF Cardinality(rows) # 1 \/ record.initial # local[e].previous THEN Raise(e)
           ELSE /\ local' = [local EXCEPT ![e].records = Append(@, record),
                                          ![e].winner = IF wins THEN record ELSE None]
                /\ cycles' = [cycles EXCEPT ![n].records = Append(local[e].records, record),
                                            ![n].selected = IF wins THEN Stage(e) ELSE None]
                /\ Goto(e, IF wins THEN "refit" ELSE "grid")
                /\ UNCHANGED <<ancestry, study, runs, evaluations, lock, bounds>>

(* Grid exhaustion: the cycle stops, then the study, in two transactions.  *)
StopCycle(e) ==
    /\ pc[e] = "grid" /\ Len(local[e].records) = Options
    /\ cycles' = [cycles EXCEPT ![local[e].number].status = "stopped"]
    /\ Goto(e, "stop_study")
    /\ UNCHANGED <<ancestry, study, runs, evaluations, lock, local, bounds>>

StopStudy(e) ==
    /\ pc[e] = "stop_study"
    /\ study' = "stopped"
    /\ Goto(e, "ending")
    /\ UNCHANGED <<ancestry, cycles, runs, evaluations, lock, local, bounds>>

SetRefit(e) ==
    /\ pc[e] = "set_refit"
    /\ cycles' = [cycles EXCEPT ![local[e].number].refit = Stage(e)]
    /\ Goto(e, "test")
    /\ UNCHANGED <<ancestry, study, runs, evaluations, lock, local, bounds>>

SetTest(e) ==
    /\ pc[e] = "set_test"
    /\ cycles' = [cycles EXCEPT ![local[e].number].test = local[e].found,
                                ![local[e].number].status = "completed"]
    /\ local' = [local EXCEPT ![e].previous = local[e].winner.checkpoint]
    /\ Goto(e, "tested")
    /\ UNCHANGED <<ancestry, study, runs, evaluations, lock, bounds>>

(* Only after the progress was shown is the cycle no longer the current    *)
(* one, which the failure handler would mark failed.                       *)
CloseCycle(e) ==
    /\ pc[e] = "tested"
    /\ local' = [local EXCEPT ![e].current = 0, ![e].number = @ + 1, ![e].winner = None,
                              ![e].records = <<>>, ![e].found = None, ![e].reference = None]
    /\ Goto(e, "cycle")
    /\ UNCHANGED <<data, lock, bounds>>

Finish(e) ==
    /\ pc[e] = "cycle" /\ Ends(e)
    /\ study' = IF \A c \in Cycles : cycles[c].status = "completed" THEN "completed" ELSE "paused"
    /\ Goto(e, "ending")
    /\ UNCHANGED <<ancestry, cycles, runs, evaluations, lock, local, bounds>>

(* The failure handler: the current cycle, then the study.                 *)
FailCycle(e) ==
    /\ pc[e] = "raised"
    /\ cycles' = IF local[e].current = 0 THEN cycles
                 ELSE [cycles EXCEPT ![local[e].current].status = "failed"]
    /\ Goto(e, "fail_study")
    /\ UNCHANGED <<ancestry, study, runs, evaluations, lock, local, bounds>>

FailStudy(e) ==
    /\ pc[e] = "fail_study"
    /\ study' = "failed"
    /\ Goto(e, "leave")
    /\ UNCHANGED <<ancestry, cycles, runs, evaluations, lock, local, bounds>>

Unlock(e) == lock' = IF lock = e THEN None ELSE lock

(* Until the block is left, an interrupt still marks the study failed.     *)
Leave(e) ==
    /\ pc[e] \in {"ending", "leave"}
    /\ Unlock(e)
    /\ Goto(e, "off")
    /\ local' = [local EXCEPT ![e] = NoLocal]
    /\ UNCHANGED <<data, bounds>>

-----------------------------------------------------------------------------
(* Faults.                                                                 *)

Fault == faults < MaxFaults /\ faults' = faults + 1

Outside == {"off", "open", "leave", "raised", "fail_study"}

(* An interrupt, or an error of the database, the trainer or the evaluator; *)
(* a run that was training records its failure.                            *)
Interrupt(e) ==
    /\ Fault /\ pc[e] \notin Outside
    /\ runs' = IF pc[e] = "training" THEN [runs EXCEPT ![Stage(e)].status = "failed"] ELSE runs
    /\ Goto(e, "raised")
    /\ UNCHANGED <<ancestry, study, cycles, evaluations, lock, local, lost>>

Kill(e) ==
    /\ Fault /\ pc[e] # "off"
    /\ Unlock(e)
    /\ Goto(e, "off")
    /\ local' = [local EXCEPT ![e] = NoLocal]
    /\ UNCHANGED <<data, lost>>

(* The connection that holds the lock dies; nothing watches it.  (Bound: no *)
(* other fault in such a behaviour.)                                       *)
LoseLock ==
    /\ faults = 0 /\ faults' = MaxFaults
    /\ lock # None /\ <<local[lock].number, pc[lock]>> \in LosesAt
    /\ lost' = TRUE
    /\ lock' = None
    /\ UNCHANGED <<data, pc, local>>

(* Somebody evaluates a completed candidate on its validation by hand.     *)
EvaluateByHand ==
    /\ Fault
    /\ \E s \in DOMAIN runs :
        /\ s[2] = "candidate" /\ runs[s].status = "completed"
        /\ \E score \in ScoresOf(s, Validation(s[1])) :
               evaluations' = Measured(s, "run_validation", Validation(s[1]), score)
    /\ UNCHANGED <<ancestry, study, cycles, runs, lock, pc, local, lost>>

Step(e) ==
    \/ OpenStudy(e) \/ Load(e) \/ PassCompleted(e) \/ BeginCycle(e)
    \/ FindEvaluation(e) \/ Measure(e) \/ SetReference(e)
    \/ ResumePrefix(e) \/ FindStage(e) \/ CreateStage(e) \/ TrainingCompletes(e)
    \/ RecordCandidate(e) \/ StopCycle(e) \/ StopStudy(e)
    \/ SetRefit(e) \/ SetTest(e) \/ CloseCycle(e) \/ Finish(e)
    \/ FailCycle(e) \/ FailStudy(e) \/ Leave(e)

Next ==
    \/ \E e \in Executors :
        \/ \E max \in Cycles : Acquire(e, max)
        \/ Refuse(e)
        \/ Step(e)
        \/ Interrupt(e)
        \/ Kill(e)
    \/ LoseLock
    \/ EvaluateByHand

(* The operator calls the study again, with no limit of cycles, until it   *)
(* has ended.                                                              *)
Fairness ==
    \A e \in Executors :
        /\ WF_vars(Step(e))
        /\ SF_vars(Acquire(e, Cardinality(Cycles)))

Spec == Init /\ [][Next]_vars /\ Fairness
-----------------------------------------------------------------------------
(* Properties.                                                             *)

Labels == {"off", "open", "load", "cycle", "reference", "measure_reference", "set_reference",
           "prefix", "grid", "create", "training", "record", "stop_study", "refit", "set_refit",
           "test", "measure_test", "set_test", "tested", "ending", "raised", "fail_study", "leave"}

(* Study and cycle have a status the reports know (no CHECK enforces it),  *)
(* the rows a cycle points at exist as its foreign keys demand, and every  *)
(* executor is at a known point.                                           *)
TypeOK ==
    /\ study \in {None, "running", "paused", "completed", "failed", "stopped"}
    /\ \A c \in Cycles :
        /\ cycles[c].status \in {"pending", "running", "completed", "failed", "stopped"}
        /\ cycles[c].source \in {None, Base} \cup DOMAIN runs
        /\ {cycles[c].reference, cycles[c].test} \subseteq {None} \cup DOMAIN evaluations
        /\ {cycles[c].selected, cycles[c].refit} \subseteq {None} \cup DOMAIN runs
        /\ Len(cycles[c].records) <= Options
    /\ DOMAIN runs \subseteq Stages
    /\ \A i \in DOMAIN evaluations : evaluations[i].checkpoint \in {Base} \cup DOMAIN runs
    /\ lock \in Executors \cup {None}
    /\ pc \in [Executors -> Labels]

Sources(checkpoints) == {runs[s].source : s \in checkpoints \cap DOMAIN runs}

(* The checkpoints a policy has been trained through, itself included.     *)
Lineage(checkpoint) ==
    LET f[k \in 0 .. Cardinality(Cycles) + 1] ==
            IF k = 0 THEN {checkpoint}
            ELSE f[k - 1] \cup Sources(f[k - 1])
    IN  f[Cardinality(Cycles) + 1]

(* No evaluation sees the future: the rows scored by any evaluation - of   *)
(* the reference, a candidate or a refit - come after every row any stage  *)
(* of the evaluated policy's lineage was trained on (service.py:84 "reject *)
(* lineage that has already trained ahead", and the order of windows in    *)
(* config.py), and a test is evaluated only after its cycle's selection    *)
(* and refit are stored (service.py:370).                                  *)
NoLookAhead ==
    \A i \in DOMAIN evaluations :
        LET it == evaluations[i]
        IN  /\ \A k \in DOMAIN ancestry : ancestry[k].train.end <= it.range.start
            /\ \A s \in Lineage(it.checkpoint) \ {Base} : TrainRange(s).end <= it.range.start
            /\ it.scope = "extended_out_of_sample" =>
                   LET cycle == cycles[it.checkpoint[1]]
                   IN  /\ cycle.refit = it.checkpoint
                       /\ ~lost => cycle.selected = runs[it.checkpoint].source

(* The lineage of a study: every candidate starts from the winner of the   *)
(* previous cycle, every refit from the winner of its own, all attempts of *)
(* a cycle from one checkpoint, and no refit is the source of anything     *)
(* (service.py:374 "Deliberately never refit").                            *)
LineageSound ==
    \A s \in DOMAIN runs :
        LET n == s[1]
        IN  IF s[2] = "refit"
            THEN runs[s].source = <<n, "candidate", s[3]>> /\ Carries(runs[s].source)
            ELSE IF n = 1 THEN runs[s].source = Base
                 ELSE /\ Carries(runs[s].source)
                      /\ ~lost => runs[s].source = cycles[n - 1].selected

(* The study is well formed, and its lineage is the one described.         *)
StudySound == TypeOK /\ LineageSound

(* What is selected is the first recorded attempt that strictly improves   *)
(* on the reference, after all the attempts before it failed to; a cycle   *)
(* stops only when every option has been tried and none improves; and only *)
(* a completed cycle may lack neither.                                     *)
SelectionSound ==
    \A c \in Cycles :
        LET cycle == cycles[c]
            better(k) == cycle.records[k].score > evaluations[cycle.reference].score
            wins == {k \in DOMAIN cycle.records : better(k)}
        IN  /\ \A k \in DOMAIN cycle.records : cycle.records[k].order = k - 1
            /\ cycle.selected # None =>
                   /\ wins = {Len(cycle.records)}
                   /\ cycle.selected = Last(cycle.records).checkpoint
            /\ cycle.records # <<>> /\ cycle.selected = None => wins = {}
            /\ ~lost /\ cycle.status = "stopped" =>
                   Len(cycle.records) = Options /\ wins = {}
            /\ ~lost /\ cycle.status = "completed" => None \notin {cycle.selected, cycle.refit, cycle.test}

(* As long as the lock holds, whatever crashes and restarts, a decision    *)
(* once stored is never changed: the reference, the winner, the refit and  *)
(* the test of a cycle, and the attempts recorded.                         *)
DecisionStays ==
    [][~lost' =>
        \A c \in Cycles :
            /\ \A f \in {"reference", "selected", "refit", "test"} :
                   cycles[c][f] # None => cycles'[c][f] = cycles[c][f]
            /\ IsPrefix(cycles[c].records, cycles'[c].records)]_vars

(* What a restart cannot get over: a source that is refused, a stage run   *)
(* that was interrupted, two completed evaluations of one identity (a run  *)
(* validation added by hand among them).                                   *)
Blocked ==
    \/ study = None /\ ~SourceAccepted
    \/ \E s \in DOMAIN runs : runs[s].status = "failed"
    \/ \E s \in DOMAIN runs : runs[s].status = "running"
                              /\ \A e \in Executors : pc[e] # "training" \/ Stage(e) # s
    \/ \E i, j \in DOMAIN evaluations :
           /\ i # j
           /\ evaluations[i].checkpoint = evaluations[j].checkpoint
           /\ evaluations[i].scope = evaluations[j].scope
           /\ evaluations[i].range = evaluations[j].range

(* Every study called again after each interruption comes to an end,       *)
(* completed or stopped by an exhausted grid, unless it is blocked: no     *)
(* other crash leaves it where a restart cannot go on.                     *)
StudyEnds == []<>(study \in {"completed", "stopped"} \/ Blocked)
=============================================================================
