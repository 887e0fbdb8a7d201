-------------------------- MODULE WalkForwardProofs --------------------------
(***************************************************************************)
(* What a walk-forward study promises, for every grid, number of cycles,   *)
(* split of the weeks, set of executors and number of faults.              *)
(*                                                                         *)
(* Two invariants carry the proofs.  IInv holds whatever happens to the    *)
(* lock, so with any number of executors in one study: the rows have their *)
(* types, runs and evaluations are only added and stay what they were      *)
(* (KeptRuns, KeptEvaluations), an executor's local variables point at     *)
(* rows that exist, and no two executors train one stage run.  HeldInv     *)
(* holds until the lock's connection dies: the executor at work is alone,  *)
(* what it has read of its cycle and of the cycles to come is still what   *)
(* is stored, and every stored row is a sound decision.  ChangeStep says   *)
(* that a step changes at most one row and only decides what was undecided *)
(* there; from it follow both that the rows stay sound and DecisionStays.  *)
(*                                                                         *)
(* That no evaluation sees the future is an argument about lineages.       *)
(* Lineage is a recursive function over the generations; the lemmas        *)
(* GenerationsExist and LineageWithin unfold it with the least number      *)
(* principle, and TrainingEnds gives the arithmetic of the weeks.          *)
(***************************************************************************)
EXTENDS WalkForward, SequenceTheorems, FiniteSetTheorems, WellFoundedInduction, TLAPS

-----------------------------------------------------------------------------
(* Types *)

Records == [order : 0 .. Options - 1, checkpoint : Checkpoints, score : Int, initial : Checkpoints]

Statuses == {"pending", "running", "completed", "failed", "stopped"}

CycleRows == [status : Statuses, source : Checkpoints \cup {None}, reference : Nat \cup {None},
              records : Seq(Records), selected : Checkpoints \cup {None},
              refit : Checkpoints \cup {None}, test : Nat \cup {None}]

RunRows == [status : {"running", "completed", "failed"}, source : Checkpoints]

Evaluations == [checkpoint : Checkpoints,
                scope : {"custom_range", "run_validation", "extended_out_of_sample"},
                range : [start : Int, end : Int], score : Scores]

Locals == [max : Nat, view : {<<>>} \cup [Cycles -> CycleRows], number : Nat,
           current : Cycles \cup {0}, previous : Checkpoints \cup {None}, records : Seq(Records),
           winner : Records \cup {None}, found : Nat \cup {None}, reference : Nat \cup {None}]

\* The rows but those of cycles, and where the executors are.
ControlOK ==
    /\ study \in {None, "running", "paused", "completed", "failed", "stopped"}
    /\ lock \in Executors \cup {None}
    /\ pc \in [Executors -> Labels]
    /\ faults \in Nat /\ lost \in BOOLEAN

LocalsOK == local \in [Executors -> Locals]

\* What a cycle can start from: the source of the study, or a candidate of a
\* cycle before it.
Candidates(c) == {c} \X {"candidate"} \X (0 .. Options - 1)
Refits(c) == {c} \X {"refit"} \X (0 .. Options - 1)
Earlier(c) == {Base} \cup {s \in Stages : s[1] < c /\ s[2] = "candidate"}

RecordsOf(c) == {r \in Records : r.checkpoint = <<c, "candidate", r.order>>}

\* A row of walk_forward_cycles, now or when it was read.
RowOK(row, c) ==
    /\ row \in CycleRows
    /\ row.source \in {None, Base} \cup DOMAIN runs
    /\ {row.reference, row.test} \subseteq {None} \cup DOMAIN evaluations
    /\ row.selected \in {None} \cup (Candidates(c) \cap DOMAIN runs)
    /\ row.refit \in {None} \cup (Refits(c) \cap DOMAIN runs)
    /\ row.records \in Seq(RecordsOf(c)) /\ Len(row.records) <= Options

Completed(s) == s \in DOMAIN runs /\ runs[s].status = "completed"

\* Where an executor holds a cycle, and where it looks for one.
Choosing == {"reference", "measure_reference", "set_reference", "prefix", "grid", "record",
             "stop_study"}
Refitting == {"refit", "set_refit", "test", "measure_test", "set_test"}
Holding == Choosing \cup Refitting \cup {"create", "training", "tested"}

LoopOK(e) ==
    /\ pc[e] \in Holding \cup {"cycle"} =>
          /\ local[e].view \in [Cycles -> CycleRows]
          /\ \A c \in Cycles : RowOK(local[e].view[c], c)
          /\ local[e].number \in Nat \ {0}
          /\ pc[e] # "tested" =>
                local[e].previous \in Earlier(local[e].number) \cap ({Base} \cup DOMAIN runs)
          /\ pc[e] = "tested" =>
                local[e].previous \in Candidates(local[e].number) \cap DOMAIN runs
    /\ pc[e] \in Holding => local[e].number \in Cycles
    /\ pc[e] \in Holding \ {"tested"} => local[e].number = 1 \/ Carries(local[e].previous)

GridOK(e) ==
    /\ pc[e] \in Choosing \cup {"open", "load", "cycle"} => local[e].winner = None
    /\ pc[e] \in Refitting \cup {"tested"} => local[e].winner # None
    /\ pc[e] \in Holding =>
          /\ local[e].records \in Seq(RecordsOf(local[e].number))
          /\ Len(local[e].records) <= Options
          /\ local[e].winner \in {None} \cup RecordsOf(local[e].number)
    /\ pc[e] \in Holding \ {"reference", "measure_reference", "set_reference"} =>
          local[e].reference \in DOMAIN evaluations
    /\ pc[e] \in {"set_reference", "set_test"} => local[e].found \in DOMAIN evaluations
    /\ pc[e] \in {"create", "training", "record"} /\ local[e].winner = None =>
          Len(local[e].records) < Options

StageOK(e) ==
    /\ pc[e] \in {"create", "training"} /\ local[e].winner # None =>
          Carries(local[e].winner.checkpoint)
    /\ pc[e] = "training" =>
          /\ Stage(e) \in DOMAIN runs
          /\ runs[Stage(e)].status = "running"
    /\ pc[e] = "record" => Completed(Stage(e))
    /\ pc[e] \in {"set_refit", "test", "measure_test", "set_test", "tested"} =>
          Completed(Stage(e)) /\ Carries(local[e].winner.checkpoint)

RunsOK ==
    /\ DOMAIN runs \subseteq Stages
    /\ \A s \in DOMAIN runs : runs[s] \in RunRows
    /\ \A s \in DOMAIN runs :
          IF s[2] = "refit"
          THEN runs[s].source = <<s[1], "candidate", s[3]>> /\ Carries(runs[s].source)
          ELSE runs[s].source \in Earlier(s[1]) /\ (s[1] = 1 \/ Carries(runs[s].source))

EvaluationOK(x) ==
    \E n \in Cycles :
       \/ x.scope = "custom_range" /\ x.checkpoint \in Earlier(n) /\ x.range = Validation(n)
       \/ x.scope = "run_validation" /\ x.checkpoint \in Candidates(n) /\ x.range = Validation(n)
       \/ x.scope = "extended_out_of_sample" /\ x.checkpoint \in Refits(n) /\ x.range = TestRange(n)

EvaluationsOK ==
    /\ evaluations \in Seq(Evaluations)
    /\ \A i \in DOMAIN evaluations :
          EvaluationOK(evaluations[i]) /\ evaluations[i].checkpoint \in {Base} \cup DOMAIN runs

\* Two executors are never in the training of one stage run.
TrainersApart ==
    \A e, f \in Executors :
       pc[e] = "training" /\ pc[f] = "training" /\ Stage(e) = Stage(f) => e = f

\* The source was accepted before anything was trained or measured.
SourceOK ==
    (\E e \in Executors : pc[e] # "off") \/ evaluations # <<>> \/ DOMAIN runs # {} =>
        SourceAccepted /\ PlanAccepted

CyclesOK == cycles \in [Cycles -> CycleRows] /\ \A c \in Cycles : RowOK(cycles[c], c)

ExecutorsOK == \A e \in Executors : LoopOK(e) /\ GridOK(e) /\ StageOK(e)

IInv ==
    /\ ControlOK /\ LocalsOK /\ CyclesOK /\ RunsOK /\ EvaluationsOK
    /\ ExecutorsOK /\ TrainersApart /\ SourceOK

-----------------------------------------------------------------------------

\* The numbers and names of a study.
LEMMA Names ==
    /\ Options \in Nat \ {0} /\ Cycles \subseteq Nat \ {0}
    /\ Base \in Checkpoints /\ Stages \subseteq Checkpoints
    /\ None \notin Executors /\ None \notin Nat /\ None \notin Checkpoints /\ None \notin Records
    /\ Scores \subseteq Int
<1>1. Options \in Nat \ {0} /\ Scores \subseteq Int /\ DataWeeks \in Nat
  BY ProtocolAssumption
<1>2. Cycles \subseteq Nat \ {0}
  BY <1>1 DEF Cycles
<1>3. Base \in Checkpoints /\ Stages \subseteq Checkpoints
  BY DEF Checkpoints
<1>4. Records \subseteq [order : Nat, checkpoint : Checkpoints, score : Int, initial : Checkpoints]
  BY <1>1 DEF Records
<1> QED
  BY <1>1, <1>2, <1>3, <1>4, NoneAssumption

\* What an executor does leaves the others where they are.
Alone(e) ==
    /\ pc' = [pc EXCEPT ![e] = pc'[e]]
    /\ local' = [local EXCEPT ![e] = local'[e]]

\* Every step keeps the types of the control.
LEMMA ControlStep == ControlOK /\ [Next]_vars => ControlOK'
<1> SUFFICES ASSUME ControlOK, [Next]_vars PROVE ControlOK'
  OBVIOUS
<1> USE DEF ControlOK, Goto, Labels
<1>1. ASSUME NEW e \in Executors, OpenStudy(e) PROVE ControlOK'
  BY <1>1 DEF OpenStudy, vars, data, bounds
<1>2. ASSUME NEW e \in Executors, Load(e) PROVE ControlOK'
  BY <1>2 DEF Load, vars, data, bounds
<1>3. ASSUME NEW e \in Executors, PassCompleted(e) PROVE ControlOK'
  BY <1>3 DEF PassCompleted, Raise, Ends, View, vars, data, bounds
<1>4. ASSUME NEW e \in Executors, BeginCycle(e) PROVE ControlOK'
  BY <1>4 DEF BeginCycle, Ends, View, vars, data, bounds
<1>5. ASSUME NEW e \in Executors, FindEvaluation(e) PROVE ControlOK'
  BY <1>5 DEF FindEvaluation, Raise, vars, data, bounds
<1>6. ASSUME NEW e \in Executors, Measure(e) PROVE ControlOK'
  BY <1>6 DEF Measure, vars, data, bounds
<1>7. ASSUME NEW e \in Executors, SetReference(e) PROVE ControlOK'
  BY <1>7 DEF SetReference, vars, data, bounds
<1>8. ASSUME NEW e \in Executors, ResumePrefix(e) PROVE ControlOK'
  BY <1>8 DEF ResumePrefix, Raise, vars, data, bounds
<1>9. ASSUME NEW e \in Executors, FindStage(e) PROVE ControlOK'
  BY <1>9 DEF FindStage, Raise, vars, data, bounds
<1>10. ASSUME NEW e \in Executors, CreateStage(e) PROVE ControlOK'
  BY <1>10 DEF CreateStage, Raise, vars, data, bounds
<1>11. ASSUME NEW e \in Executors, TrainingCompletes(e) PROVE ControlOK'
  BY <1>11 DEF TrainingCompletes, vars, data, bounds
<1>12. ASSUME NEW e \in Executors, RecordCandidate(e) PROVE ControlOK'
  BY <1>12 DEF RecordCandidate, Raise, vars, data, bounds
<1>13. ASSUME NEW e \in Executors, StopCycle(e) PROVE ControlOK'
  BY <1>13 DEF StopCycle, vars, data, bounds
<1>14. ASSUME NEW e \in Executors, StopStudy(e) PROVE ControlOK'
  BY <1>14 DEF StopStudy, vars, data, bounds
<1>15. ASSUME NEW e \in Executors, SetRefit(e) PROVE ControlOK'
  BY <1>15 DEF SetRefit, vars, data, bounds
<1>16. ASSUME NEW e \in Executors, SetTest(e) PROVE ControlOK'
  BY <1>16 DEF SetTest, vars, data, bounds
<1>17. ASSUME NEW e \in Executors, CloseCycle(e) PROVE ControlOK'
  BY <1>17 DEF CloseCycle, vars, data, bounds
<1>18. ASSUME NEW e \in Executors, Finish(e) PROVE ControlOK'
  BY <1>18 DEF Finish, Ends, vars, data, bounds
<1>19. ASSUME NEW e \in Executors, FailCycle(e) PROVE ControlOK'
  BY <1>19 DEF FailCycle, vars, data, bounds
<1>20. ASSUME NEW e \in Executors, FailStudy(e) PROVE ControlOK'
  BY <1>20 DEF FailStudy, vars, data, bounds
<1>21. ASSUME NEW e \in Executors, Leave(e) PROVE ControlOK'
  BY <1>21 DEF Leave, Unlock, vars, data, bounds
<1>22. ASSUME NEW e \in Executors, NEW max \in Cycles, Acquire(e, max) PROVE ControlOK'
  BY <1>22 DEF Acquire, vars, data, bounds
<1>23. ASSUME NEW e \in Executors, Interrupt(e) PROVE ControlOK'
  BY <1>23, ProtocolAssumption DEF Interrupt, Fault, vars, data, bounds
<1>24. ASSUME NEW e \in Executors, Kill(e) PROVE ControlOK'
  BY <1>24, ProtocolAssumption DEF Kill, Fault, Unlock, vars, data, bounds
<1>25. CASE LoseLock
  BY <1>25, ProtocolAssumption DEF LoseLock, Fault, vars, data, bounds
<1>26. CASE EvaluateByHand
  BY <1>26 DEF EvaluateByHand, Fault, vars, data, bounds
<1>27. CASE UNCHANGED vars
  BY <1>27 DEF vars, vars, data, bounds
<1> QED
  BY <1>1, <1>2, <1>3, <1>4, <1>5, <1>6, <1>7, <1>8, <1>9, <1>10, <1>11, <1>12, <1>13, <1>14,
     <1>15, <1>16, <1>17, <1>18, <1>19, <1>20, <1>21, <1>22, <1>23, <1>24, <1>25, <1>26,
     <1>27 DEF Next, Step, Refuse

\* Every nonempty set of natural numbers has a least element.
LEMMA LeastNumber ==
    ASSUME NEW T \in SUBSET Nat, T # {}
    PROVE  \E x \in T : \A y \in T : x <= y
<1> DEFINE R == OpToRel(<, Nat)
<1>1. \A x, y \in Nat : y < x => <<y, x>> \in R
  BY DEF OpToRel
<1>2. IsWellFoundedOn(R, Nat)
  BY NatLessThanWellFounded
<1> HIDE DEF R
<1>3. PICK x \in T : \A y \in T : <<y, x>> \notin R
  BY <1>2, WFMin
<1>4. \A y \in T : x \in Nat /\ y \in Nat /\ ~ (y < x)
  BY <1>1, <1>3
<1>5. \A y \in T : x <= y
  BY <1>4
<1> QED
  BY <1>5

\* One executor's local variables change.
LEMMA LocalSet ==
    ASSUME LocalsOK, NEW e \in Executors, NEW l \in Locals, local' = [local EXCEPT ![e] = l]
    PROVE  LocalsOK'
BY DEF LocalsOK

\* select_candidate returns a recorded attempt that improves, with none before
\* it, or None when no attempt improves.
LEMMA Selected ==
    ASSUME NEW R, NEW records \in Seq(R), NEW score
    PROVE  \/ /\ SelectCandidate(records, score) = None
              /\ \A k \in DOMAIN records : ~ Improves(records[k], score)
           \/ \E k \in DOMAIN records :
                 /\ SelectCandidate(records, score) = records[k]
                 /\ records[k] \in R /\ Improves(records[k], score)
                 /\ \A j \in 1 .. (k - 1) : ~ Improves(records[j], score)
<1>1. CASE ~ \E k \in DOMAIN records : Improves(records[k], score)
  BY <1>1 DEF SelectCandidate
<1>2. CASE \E k \in DOMAIN records : Improves(records[k], score)
  <2> DEFINE T == {k \in DOMAIN records : Improves(records[k], score)}
  <2>1. T # {} /\ T \in SUBSET Nat /\ DOMAIN records = 1 .. Len(records) /\ Len(records) \in Nat
    BY <1>2, LenProperties
  <2>2. PICK x \in T : \A y \in T : x <= y
    <3> HIDE DEF T
    <3> QED
      BY <2>1, LeastNumber
  <2>3. \A j \in 1 .. (x - 1) : j \in DOMAIN records /\ ~ (x <= j)
    BY <2>1
  <2>4. \A j \in 1 .. (x - 1) : ~ Improves(records[j], score)
    BY <2>2, <2>3
  <2>5. \E k \in DOMAIN records :
           /\ Improves(records[k], score)
           /\ \A j \in 1 .. (k - 1) : ~ Improves(records[j], score)
    BY <2>4
  <2> DEFINE w == CHOOSE k \in DOMAIN records :
                    /\ Improves(records[k], score)
                    /\ \A j \in 1 .. (k - 1) : ~ Improves(records[j], score)
  <2>6. /\ w \in DOMAIN records /\ Improves(records[w], score)
        /\ \A j \in 1 .. (w - 1) : ~ Improves(records[j], score)
    BY <2>5, Zenon
  <2>7. SelectCandidate(records, score) = records[w]
    BY <1>2, Zenon DEF SelectCandidate
  <2> HIDE DEF w
  <2>8. records[w] \in R
    BY <2>6, ElementOfSeq, LenProperties
  <2> QED
    BY <2>6, <2>7, <2>8
<1> QED
  BY <1>1, <1>2

\* The record of an attempt.
NewRecord(e, r) ==
    /\ r \in RecordsOf(local[e].number)
    /\ r.order = Len(local[e].records) /\ r.checkpoint = Stage(e)
    /\ r.initial = local[e].previous
    /\ \E i \in Matching(Stage(e), "run_validation", Validation(local[e].number)) :
          r.score = evaluations[i].score

\* What recording an attempt does unless it raises.
LEMMA Recorded ==
    ASSUME IInv, NEW e \in Executors, RecordCandidate(e), ~ Raise(e)
    PROVE  \E r : LET wins == Improves(r, ReferenceScore(e)) IN
              /\ NewRecord(e, r)
              /\ local' = [local EXCEPT ![e].records = Append(@, r),
                                        ![e].winner = IF wins THEN r ELSE None]
              /\ cycles' = [cycles EXCEPT
                    ![local[e].number].records = Append(local[e].records, r),
                    ![local[e].number].selected = IF wins THEN Stage(e) ELSE None]
              /\ Goto(e, IF wins THEN "refit" ELSE "grid")
              /\ UNCHANGED <<ancestry, study, runs, evaluations, lock, bounds>>
<1> DEFINE n == local[e].number
           rows == Matching(Stage(e), "run_validation", Validation(n))
           r == [order |-> Len(local[e].records), checkpoint |-> Stage(e),
                 score |-> evaluations[CHOOSE i \in rows : TRUE].score,
                 initial |-> runs[Stage(e)].source]
<1>1. /\ Cardinality(rows) = 1 /\ r.initial = local[e].previous
      /\ local' = [local EXCEPT ![e].records = Append(@, r),
                                ![e].winner = IF Improves(r, ReferenceScore(e)) THEN r ELSE None]
      /\ cycles' = [cycles EXCEPT
            ![n].records = Append(local[e].records, r),
            ![n].selected = IF Improves(r, ReferenceScore(e)) THEN Stage(e) ELSE None]
      /\ Goto(e, IF Improves(r, ReferenceScore(e)) THEN "refit" ELSE "grid")
      /\ UNCHANGED <<ancestry, study, runs, evaluations, lock, bounds>>
  BY Zenon DEF RecordCandidate
<1>2. PICK i \in rows : r.score = evaluations[i].score
  <2> SUFFICES rows # {}
    OBVIOUS
  <2> HIDE DEF rows, r
  <2>1. Cardinality(rows) # 0
    BY <1>1
  <2>2. Cardinality({}) = 0
    BY FS_EmptySet
  <2> QED
    BY <2>1, <2>2, Zenon
<1>3. i \in DOMAIN evaluations /\ evaluations[i].score \in Int
  <2>1. i \in DOMAIN evaluations /\ evaluations[i] \in Evaluations
    BY <1>2, ElementOfSeq, LenProperties DEF Matching, IInv, EvaluationsOK
  <2> QED
    BY <2>1, Names DEF Evaluations
<1>4. /\ pc[e] = "record" /\ local[e] \in Locals /\ n \in Cycles
      /\ local[e].winner = None /\ local[e].previous \in Checkpoints
      /\ local[e].records \in Seq(RecordsOf(n)) /\ Len(local[e].records) < Options
  <2>1. pc[e] = "record" /\ local[e] \in Locals /\ LoopOK(e) /\ GridOK(e)
    BY DEF RecordCandidate, IInv, ExecutorsOK, LocalsOK
  <2>2. local[e].previous \in Earlier(n)
    BY <2>1 DEF LoopOK, Holding, Choosing
  <2> QED
    BY <2>1, <2>2, Names DEF LoopOK, GridOK, Holding, Choosing, Earlier
<1>5. Stage(e) = <<n, "candidate", Len(local[e].records)>>
  BY <1>4 DEF Stage
<1>6. Len(local[e].records) \in 0 .. Options - 1
  BY <1>4, Names, LenProperties
<1>7. Stage(e) \in Checkpoints
  BY <1>4, <1>5, <1>6, Names DEF Stages
<1>8. r \in RecordsOf(n)
  <2>1. r \in Records
    BY <1>1, <1>2, <1>3, <1>4, <1>6, <1>7 DEF Records
  <2>2. r.checkpoint = <<n, "candidate", r.order>>
    BY <1>5
  <2> HIDE DEF r
  <2> QED
    BY <2>1, <2>2 DEF RecordsOf
<1>9. NewRecord(e, r)
  <2>1. r.order = Len(local[e].records) /\ r.checkpoint = Stage(e)
    OBVIOUS
  <2> HIDE DEF r
  <2> QED
    BY <1>1, <1>2, <1>8, <2>1 DEF NewRecord
<1> HIDE DEF r
<1> QED
  BY <1>1, <1>9, Zenon

\* Every step keeps the types of the local variables.
LEMMA LocalsStep == IInv /\ [Next]_vars => LocalsOK'
<1> SUFFICES ASSUME IInv, [Next]_vars PROVE LocalsOK'
  OBVIOUS
<1> /\ LocalsOK /\ CyclesOK /\ pc \in [Executors -> Labels]
    /\ \A e \in Executors : LoopOK(e) /\ GridOK(e) /\ StageOK(e)
  BY DEF IInv, ControlOK, ExecutorsOK
<1> USE DEF LocalsOK, Goto
<1>n. NoLocal \in Locals
  BY Names DEF NoLocal, Locals
<1>1. ASSUME NEW e \in Executors, OpenStudy(e) PROVE LocalsOK'
  BY <1>1 DEF OpenStudy, vars, data, bounds
<1>2. ASSUME NEW e \in Executors, Load(e) PROVE LocalsOK'
  <2>0. local[e] \in Locals
    OBVIOUS
  <2> DEFINE l == [local[e] EXCEPT !.view = cycles, !.number = 1, !.previous = Base]
  <2>1. local' = [local EXCEPT ![e] = l]
    BY <1>2 DEF Load
  <2>2. l \in Locals
    BY <2>0, Names DEF Locals, CyclesOK
  <2> QED
    BY <2>1, <2>2, LocalSet
<1>3. ASSUME NEW e \in Executors, PassCompleted(e) PROVE LocalsOK'
  <2>0. local[e] \in Locals
    OBVIOUS
  <2>1. CASE UNCHANGED local
    BY <2>1
  <2>2. CASE local' # local
    <3>1. local' = [local EXCEPT ![e].previous = View(e).selected, ![e].number = @ + 1]
      BY <1>3, <2>2 DEF PassCompleted, Raise
    <3>2. View(e) \in CycleRows
      BY <1>3 DEF PassCompleted, Ends, View, LoopOK, Holding
    <3> DEFINE l == [local[e] EXCEPT !.previous = View(e).selected, !.number = @ + 1]
    <3>3. local' = [local EXCEPT ![e] = l]
      BY <3>1
    <3>s. View(e).selected \in Checkpoints \cup {None} /\ local[e].number + 1 \in Nat
      BY <2>0, <3>2 DEF Locals, CycleRows
    <3>4. l \in Locals
      BY <2>0, <3>s DEF Locals
    <3> QED
      BY <3>3, <3>4, LocalSet
  <2> QED
    BY <2>1, <2>2
<1>4. ASSUME NEW e \in Executors, BeginCycle(e) PROVE LocalsOK'
  <2>0. local[e] \in Locals
    OBVIOUS
  <2>v. View(e) \in CycleRows /\ local[e].number \in Cycles
    BY <1>4 DEF BeginCycle, Ends, View, LoopOK, Holding
  <2> DEFINE l == [local[e] EXCEPT !.current = local[e].number, !.reference = View(e).reference,
                               !.records = View(e).records]
  <2>1. local' = [local EXCEPT ![e] = l]
    BY <1>4 DEF BeginCycle
  <2>2. l \in Locals
    BY <2>0, <2>v DEF Locals, CycleRows
  <2> QED
    BY <2>1, <2>2, LocalSet
<1>5. ASSUME NEW e \in Executors, FindEvaluation(e) PROVE LocalsOK'
  <2>0. local[e] \in Locals
    OBVIOUS
  <2>1. CASE UNCHANGED local
    BY <2>1
  <2>2. CASE local' # local
    <3>1. PICK i \in {None} \cup DOMAIN evaluations : local' = [local EXCEPT ![e].found = i]
      BY <1>5, <2>2 DEF FindEvaluation, Raise, Matching
    <3>2. DOMAIN evaluations \subseteq Nat
      BY LenProperties DEF IInv, EvaluationsOK
    <3> DEFINE l == [local[e] EXCEPT !.found = i]
    <3>3. local' = [local EXCEPT ![e] = l]
      BY <3>1
    <3>4. l \in Locals
      BY <2>0, <3>1, <3>2 DEF Locals
    <3> QED
      BY <3>3, <3>4, LocalSet
  <2> QED
    BY <2>1, <2>2
<1>6. ASSUME NEW e \in Executors, Measure(e) PROVE LocalsOK'
  <2>0. local[e] \in Locals
    OBVIOUS
  <2>n. Len(evaluations) + 1 \in Nat
    BY LenProperties DEF IInv, EvaluationsOK
  <2> DEFINE l == [local[e] EXCEPT !.found = Len(evaluations) + 1]
  <2>1. local' = [local EXCEPT ![e] = l]
    BY <1>6 DEF Measure
  <2>2. l \in Locals
    BY <2>0, <2>n DEF Locals
  <2> QED
    BY <2>1, <2>2, LocalSet
<1>7. ASSUME NEW e \in Executors, SetReference(e) PROVE LocalsOK'
  <2>0. local[e] \in Locals
    OBVIOUS
  <2> DEFINE l == [local[e] EXCEPT !.reference = local[e].found]
  <2>1. local' = [local EXCEPT ![e] = l]
    BY <1>7 DEF SetReference
  <2>2. l \in Locals
    BY <2>0 DEF Locals
  <2> QED
    BY <2>1, <2>2, LocalSet
<1>8. ASSUME NEW e \in Executors, ResumePrefix(e) PROVE LocalsOK'
  <2>0. local[e] \in Locals
    OBVIOUS
  <2>1. CASE UNCHANGED local
    BY <2>1
  <2>2. CASE local' # local
    <3> DEFINE w == SelectCandidate(local[e].records, ReferenceScore(e))
    <3>1. local' = [local EXCEPT ![e].winner = w]
      BY <1>8, <2>2 DEF ResumePrefix, Raise
    <3>2. w \in Records \cup {None}
      BY <2>0, Selected DEF Locals
    <3> HIDE DEF w
    <3> DEFINE l == [local[e] EXCEPT !.winner = w]
    <3>3. local' = [local EXCEPT ![e] = l]
      BY <3>1
    <3>4. l \in Locals
      BY <2>0, <3>2 DEF Locals
    <3> QED
      BY <3>3, <3>4, LocalSet
  <2> QED
    BY <2>1, <2>2
<1>9. ASSUME NEW e \in Executors, FindStage(e) PROVE LocalsOK'
  BY <1>9 DEF FindStage, Raise, vars, data, bounds
<1>10. ASSUME NEW e \in Executors, CreateStage(e) PROVE LocalsOK'
  BY <1>10 DEF CreateStage, Raise, vars, data, bounds
<1>11. ASSUME NEW e \in Executors, TrainingCompletes(e) PROVE LocalsOK'
  BY <1>11 DEF TrainingCompletes, vars, data, bounds
<1>12. ASSUME NEW e \in Executors, RecordCandidate(e) PROVE LocalsOK'
  <2>0. local[e] \in Locals
    OBVIOUS
  <2>1. CASE UNCHANGED local
    BY <2>1
  <2>2. CASE local' # local
    <3>1. PICK r \in RecordsOf(local[e].number) : \E w \in {None, r} :
             local' = [local EXCEPT ![e].records = Append(@, r), ![e].winner = w]
      BY <1>12, <2>2, Recorded DEF Raise, data, NewRecord
    <3>w. PICK w \in {None, r} :
             local' = [local EXCEPT ![e].records = Append(@, r), ![e].winner = w]
      BY <3>1
    <3> DEFINE l == [local[e] EXCEPT !.records = Append(@, r), !.winner = w]
    <3>2. local' = [local EXCEPT ![e] = l]
      BY <3>w
    <3>3. r \in Records
      BY DEF RecordsOf
    <3>a. Append(local[e].records, r) \in Seq(Records) /\ w \in Records \cup {None}
      BY <2>0, <3>3 DEF Locals
    <3>4. l \in Locals
      BY <2>0, <3>a DEF Locals
    <3> QED
      BY <3>2, <3>4, LocalSet
  <2> QED
    BY <2>1, <2>2
<1>13. ASSUME NEW e \in Executors, StopCycle(e) PROVE LocalsOK'
  BY <1>13 DEF StopCycle, vars, data, bounds
<1>14. ASSUME NEW e \in Executors, StopStudy(e) PROVE LocalsOK'
  BY <1>14 DEF StopStudy, vars, data, bounds
<1>15. ASSUME NEW e \in Executors, SetRefit(e) PROVE LocalsOK'
  BY <1>15 DEF SetRefit, vars, data, bounds
<1>16. ASSUME NEW e \in Executors, SetTest(e) PROVE LocalsOK'
  <2>0. local[e] \in Locals
    OBVIOUS
  <2>w. local[e].winner.checkpoint \in Checkpoints
    BY <1>16, Names DEF SetTest, Holding, Refitting, GridOK, RecordsOf, Records
  <2> DEFINE l == [local[e] EXCEPT !.previous = local[e].winner.checkpoint]
  <2>1. local' = [local EXCEPT ![e] = l]
    BY <1>16 DEF SetTest
  <2>2. l \in Locals
    BY <2>0, <2>w DEF Locals
  <2> QED
    BY <2>1, <2>2, LocalSet
<1>17. ASSUME NEW e \in Executors, CloseCycle(e) PROVE LocalsOK'
  <2>0. local[e] \in Locals
    OBVIOUS
  <2>c. local[e].number + 1 \in Nat /\ <<>> \in Seq(Records)
    BY <2>0 DEF Locals
  <2> DEFINE l == [local[e] EXCEPT !.current = 0, !.number = @ + 1, !.winner = None,
                               !.records = <<>>, !.found = None, !.reference = None]
  <2>1. local' = [local EXCEPT ![e] = l]
    BY <1>17 DEF CloseCycle
  <2>2. l \in Locals
    BY <2>0, <2>c DEF Locals
  <2> QED
    BY <2>1, <2>2, LocalSet
<1>18. ASSUME NEW e \in Executors, Finish(e) PROVE LocalsOK'
  BY <1>18 DEF Finish, Ends, vars, data, bounds
<1>19. ASSUME NEW e \in Executors, FailCycle(e) PROVE LocalsOK'
  BY <1>19 DEF FailCycle, vars, data, bounds
<1>20. ASSUME NEW e \in Executors, FailStudy(e) PROVE LocalsOK'
  BY <1>20 DEF FailStudy, vars, data, bounds
<1>21. ASSUME NEW e \in Executors, Leave(e) PROVE LocalsOK'
  <2>0. local[e] \in Locals
    OBVIOUS
  <2> DEFINE l == NoLocal
  <2>1. local' = [local EXCEPT ![e] = l]
    BY <1>21 DEF Leave
  <2>2. l \in Locals
    BY <2>0, <1>n
  <2> QED
    BY <2>1, <2>2, LocalSet
<1>22. ASSUME NEW e \in Executors, NEW max \in Cycles, Acquire(e, max) PROVE LocalsOK'
  <2>0. local[e] \in Locals
    OBVIOUS
  <2> DEFINE l == [NoLocal EXCEPT !.max = max]
  <2>1. local' = [local EXCEPT ![e] = l]
    BY <1>22 DEF Acquire
  <2>2. l \in Locals
    BY <2>0, <1>n, Names DEF Locals, NoLocal
  <2> QED
    BY <2>1, <2>2, LocalSet
<1>23. ASSUME NEW e \in Executors, Interrupt(e) PROVE LocalsOK'
  BY <1>23 DEF Interrupt, Fault, vars, data, bounds
<1>24. ASSUME NEW e \in Executors, Kill(e) PROVE LocalsOK'
  <2>0. local[e] \in Locals
    OBVIOUS
  <2> DEFINE l == NoLocal
  <2>1. local' = [local EXCEPT ![e] = l]
    BY <1>24 DEF Kill
  <2>2. l \in Locals
    BY <2>0, <1>n
  <2> QED
    BY <2>1, <2>2, LocalSet
<1>25. CASE LoseLock
  BY <1>25 DEF LoseLock, Fault, vars, data, bounds
<1>26. CASE EvaluateByHand
  BY <1>26 DEF EvaluateByHand, Fault, vars, data, bounds
<1>27. CASE UNCHANGED vars
  BY <1>27 DEF vars, vars, data, bounds
<1> QED
  BY <1>1, <1>2, <1>3, <1>4, <1>5, <1>6, <1>7, <1>8, <1>9, <1>10, <1>11, <1>12, <1>13, <1>14,
     <1>15, <1>16, <1>17, <1>18, <1>19, <1>20, <1>21, <1>22, <1>23, <1>24, <1>25, <1>26,
     <1>27 DEF Next, Step, Refuse

-----------------------------------------------------------------------------
(* The tables *)

\* No run is deleted or gets another source, and a completed one stays so.
KeptRuns ==
    /\ DOMAIN runs \subseteq DOMAIN runs'
    /\ \A s \in DOMAIN runs :
          /\ runs'[s].source = runs[s].source
          /\ runs[s].status = "completed" => runs'[s].status = "completed"

\* No evaluation is deleted or changed.
KeptEvaluations ==
    /\ DOMAIN evaluations \subseteq DOMAIN evaluations'
    /\ \A i \in DOMAIN evaluations : evaluations'[i] = evaluations[i]

\* What an executor in the middle of a cycle is at.
LEMMA StageShape ==
    ASSUME IInv, NEW e \in Executors, pc[e] \in Holding \ {"tested"}
    PROVE  LET n == local[e].number
           IN  /\ n \in Cycles
               /\ local[e].winner = None =>
                     /\ Stage(e) = <<n, "candidate", Len(local[e].records)>>
                     /\ Len(local[e].records) < Options => Stage(e) \in Candidates(n)
                     /\ Source(e) = local[e].previous /\ Source(e) \in Earlier(n)
                     /\ Source(e) \in {Base} \cup DOMAIN runs
                     /\ n = 1 \/ Carries(Source(e))
               /\ local[e].winner # None =>
                     /\ Stage(e) = <<n, "refit", local[e].winner.order>>
                     /\ Stage(e) \in Refits(n)
                     /\ Source(e) = local[e].winner.checkpoint
                     /\ Source(e) = <<n, "candidate", local[e].winner.order>>
                     /\ Source(e) \in Candidates(n)
<1> DEFINE n == local[e].number
<1>1. /\ n \in Cycles /\ local[e].previous \in Earlier(n)
      /\ local[e].previous \in {Base} \cup DOMAIN runs
      /\ n = 1 \/ Carries(local[e].previous)
      /\ local[e].records \in Seq(RecordsOf(n)) /\ Len(local[e].records) <= Options
      /\ local[e].winner \in {None} \cup RecordsOf(n)
  BY DEF IInv, ExecutorsOK, LoopOK, GridOK
<1>2. CASE local[e].winner = None
  <2>1. Len(local[e].records) < Options => Len(local[e].records) \in 0 .. Options - 1
    BY <1>1, Names, LenProperties
  <2> QED
    BY <1>1, <1>2, <2>1 DEF Stage, Source, Candidates
<1>3. CASE local[e].winner # None
  <2>1. /\ local[e].winner.order \in 0 .. Options - 1
        /\ local[e].winner.checkpoint = <<n, "candidate", local[e].winner.order>>
    BY <1>1, <1>3 DEF RecordsOf, Records
  <2> QED
    BY <1>1, <1>3, <2>1 DEF Stage, Source, Candidates, Refits
<1> QED
  BY <1>2, <1>3

\* Candidates and refits are stages, and so are the earlier ones but Base.
LEMMA Kinds ==
    ASSUME NEW n \in Cycles
    PROVE  /\ Candidates(n) \subseteq Stages /\ Refits(n) \subseteq Stages
           /\ Earlier(n) \subseteq Checkpoints
           /\ \A s \in Candidates(n) : s[1] = n /\ s[2] = "candidate" /\ s = <<n, "candidate", s[3]>>
           /\ \A s \in Refits(n) : s[1] = n /\ s[2] = "refit" /\ s = <<n, "refit", s[3]>>
           /\ Base \notin Stages /\ Base \notin Candidates(n) /\ Base \notin Refits(n)
<1>1. Candidates(n) \subseteq Stages /\ Refits(n) \subseteq Stages
  BY DEF Candidates, Refits, Stages
<1>2. Earlier(n) \subseteq Checkpoints
  BY DEF Earlier, Checkpoints
<1>3. \A s \in Candidates(n) : s[1] = n /\ s[2] = "candidate" /\ s = <<n, "candidate", s[3]>>
  BY DEF Candidates
<1>4. \A s \in Refits(n) : s[1] = n /\ s[2] = "refit" /\ s = <<n, "refit", s[3]>>
  BY DEF Refits
<1>5. Base \notin Stages
  BY DEF Base, Stages
<1> QED
  BY <1>1, <1>2, <1>3, <1>4, <1>5

\* A stage run that is inserted, completes or fails.
LEMMA RunSet ==
    ASSUME IInv, NEW s \in Stages, NEW row \in RunRows,
           runs' = [t \in DOMAIN runs \cup {s} |-> IF t = s THEN row ELSE runs[t]],
           s \in DOMAIN runs => row.source = runs[s].source /\ runs[s].status # "completed",
           s[2] = "refit" => row.source = <<s[1], "candidate", s[3]>> /\ Carries(row.source),
           s[2] # "refit" => row.source \in Earlier(s[1]) /\ (s[1] = 1 \/ Carries(row.source))
    PROVE  KeptRuns /\ RunsOK'
<1>1. KeptRuns
  BY DEF KeptRuns
<1>2. DOMAIN runs' \subseteq Stages
  BY DEF IInv, RunsOK
<1>3. \A t \in DOMAIN runs' : runs'[t] \in RunRows
  BY DEF IInv, RunsOK, RunRows
<1>4. \A t \in DOMAIN runs : Carries(t) => t \in DOMAIN runs' /\ runs'[t].status = "completed"
  BY DEF Carries
<1>5. ASSUME NEW t \in DOMAIN runs', t[2] = "refit"
      PROVE  runs'[t].source = <<t[1], "candidate", t[3]>> /\ Carries(runs[t].source)'
  BY <1>1, <1>4, <1>5 DEF IInv, RunsOK, Carries, KeptRuns
<1>6. ASSUME NEW t \in DOMAIN runs', t[2] # "refit"
      PROVE  runs'[t].source \in Earlier(t[1]) /\ (t[1] = 1 \/ Carries(runs[t].source)')
  BY <1>1, <1>4, <1>6 DEF IInv, RunsOK, Carries, KeptRuns
<1> QED
  BY <1>1, <1>2, <1>3, <1>5, <1>6 DEF RunsOK, RunRows, Earlier

\* A step that leaves the runs alone.
LEMMA RunsSame ==
    ASSUME IInv, runs' = runs
    PROVE  KeptRuns /\ RunsOK'
<1>1. KeptRuns
  BY DEF KeptRuns
<1>2. RunsOK
  BY DEF IInv
<1> QED
  BY <1>1, <1>2 DEF RunsOK, Carries

\* The status of a stage run changes.
LEMMA StatusSet ==
    ASSUME IInv, NEW s \in DOMAIN runs, runs[s].status = "running",
           NEW status \in {"completed", "failed"},
           runs' = [runs EXCEPT ![s].status = status]
    PROVE  KeptRuns /\ RunsOK'
<1>1. /\ RunsOK /\ s \in Stages /\ DOMAIN runs \subseteq Stages
      /\ \A t \in DOMAIN runs : runs[t] \in RunRows
  BY DEF IInv, RunsOK, RunRows
<1> DEFINE row == [runs[s] EXCEPT !.status = status]
<1>2. row \in RunRows /\ row.source = runs[s].source
  BY <1>1 DEF RunRows
<1>3. runs' = [t \in DOMAIN runs \cup {s} |-> IF t = s THEN row ELSE runs[t]]
  <2>1. DOMAIN runs \cup {s} = DOMAIN runs
    OBVIOUS
  <2>2. runs' = [t \in DOMAIN runs |-> IF t = s THEN row ELSE runs[t]]
    OBVIOUS
  <2> QED
    BY <2>1, <2>2
<1>4. /\ s[2] = "refit" => row.source = <<s[1], "candidate", s[3]>> /\ Carries(runs[s].source)
      /\ s[2] # "refit" => row.source \in Earlier(s[1]) /\ (s[1] = 1 \/ Carries(runs[s].source))
  BY <1>1, <1>2 DEF RunsOK
<1> HIDE DEF row
<1> QED
  BY <1>1, <1>2, <1>3, <1>4, RunSet

\* Every step keeps the runs: nothing is deleted, no source changes, a
\* completed run stays completed, and a new one has the source it should have.
LEMMA RunsStep == IInv /\ [Next]_vars => KeptRuns /\ RunsOK'
<1> SUFFICES ASSUME IInv, [Next]_vars PROVE KeptRuns /\ RunsOK'
  OBVIOUS
<1>1. ASSUME NEW e \in Executors, OpenStudy(e) PROVE KeptRuns /\ RunsOK'
  BY <1>1, RunsSame DEF OpenStudy, vars, data
<1>2. ASSUME NEW e \in Executors, Load(e) PROVE KeptRuns /\ RunsOK'
  BY <1>2, RunsSame DEF Load, vars, data
<1>3. ASSUME NEW e \in Executors, PassCompleted(e) PROVE KeptRuns /\ RunsOK'
  BY <1>3, RunsSame DEF PassCompleted, Raise, vars, data
<1>4. ASSUME NEW e \in Executors, BeginCycle(e) PROVE KeptRuns /\ RunsOK'
  BY <1>4, RunsSame DEF BeginCycle, Ends, View, vars, data
<1>5. ASSUME NEW e \in Executors, FindEvaluation(e) PROVE KeptRuns /\ RunsOK'
  BY <1>5, RunsSame DEF FindEvaluation, Raise, vars, data
<1>6. ASSUME NEW e \in Executors, Measure(e) PROVE KeptRuns /\ RunsOK'
  BY <1>6, RunsSame DEF Measure, vars, data
<1>7. ASSUME NEW e \in Executors, SetReference(e) PROVE KeptRuns /\ RunsOK'
  BY <1>7, RunsSame DEF SetReference, vars, data
<1>8. ASSUME NEW e \in Executors, ResumePrefix(e) PROVE KeptRuns /\ RunsOK'
  BY <1>8, RunsSame DEF ResumePrefix, Raise, vars, data
<1>9. ASSUME NEW e \in Executors, FindStage(e) PROVE KeptRuns /\ RunsOK'
  BY <1>9, RunsSame DEF FindStage, Raise, vars, data
<1>10. ASSUME NEW e \in Executors, CreateStage(e) PROVE KeptRuns /\ RunsOK'
  <2>1. CASE UNCHANGED runs
    BY <2>1, RunsSame
  <2>2. CASE runs' # runs
    <3> DEFINE row == [status |-> "running", source |-> Source(e)]
    <3>1. /\ pc[e] = "create" /\ Stage(e) \notin DOMAIN runs
          /\ runs' = [s \in DOMAIN runs \cup {Stage(e)} |->
                         IF s = Stage(e) THEN row ELSE runs[s]]
      BY <1>10, <2>2 DEF CreateStage, Raise, data
    <3>2. pc[e] \in Holding \ {"tested"}
      BY <3>1 DEF Holding
    <3>3. local[e].winner = None => Len(local[e].records) < Options
      BY <3>1 DEF IInv, ExecutorsOK, GridOK
    <3>4. local[e].winner # None => Carries(local[e].winner.checkpoint)
      BY <3>1 DEF IInv, ExecutorsOK, StageOK
    <3> DEFINE n == local[e].number
    <3>5. n \in Cycles
      BY <3>2, StageShape
    <3>6. CASE local[e].winner = None
      <4>1. /\ Stage(e) \in Candidates(n) /\ Source(e) \in Earlier(n)
            /\ n = 1 \/ Carries(Source(e))
        BY <3>2, <3>3, <3>6, StageShape
      <4>2. Stage(e) \in Stages /\ Stage(e)[1] = n /\ Stage(e)[2] # "refit" /\ row \in RunRows
        BY <3>5, <4>1, Kinds DEF RunRows
      <4> QED
        BY <3>1, <4>1, <4>2, RunSet
    <3>7. CASE local[e].winner # None
      <4>1. /\ Stage(e) \in Refits(n) /\ Stage(e) = <<n, "refit", local[e].winner.order>>
            /\ Source(e) = <<n, "candidate", local[e].winner.order>>
            /\ Source(e) \in Candidates(n) /\ Carries(Source(e))
        BY <3>2, <3>4, <3>7, StageShape
      <4>2. Stage(e) \in Stages /\ Stage(e)[2] = "refit" /\ row \in RunRows
        BY <3>5, <4>1, Kinds, Names DEF RunRows
      <4>3. row.source = <<Stage(e)[1], "candidate", Stage(e)[3]>>
        BY <4>1
      <4> QED
        BY <3>1, <4>1, <4>2, <4>3, RunSet
    <3> QED
      BY <3>6, <3>7
  <2> QED
    BY <2>1, <2>2
<1>11. ASSUME NEW e \in Executors, TrainingCompletes(e) PROVE KeptRuns /\ RunsOK'
  <2>1. /\ pc[e] = "training" /\ runs[Stage(e)].status = "running"
        /\ runs' = [runs EXCEPT ![Stage(e)].status = "completed"]
    BY <1>11 DEF TrainingCompletes
  <2>2. Stage(e) \in DOMAIN runs
    BY <2>1 DEF IInv, ExecutorsOK, StageOK
  <2> QED
    BY <2>1, <2>2, StatusSet
<1>12. ASSUME NEW e \in Executors, RecordCandidate(e) PROVE KeptRuns /\ RunsOK'
  BY <1>12, RunsSame DEF RecordCandidate, Raise, vars, data
<1>13. ASSUME NEW e \in Executors, StopCycle(e) PROVE KeptRuns /\ RunsOK'
  BY <1>13, RunsSame DEF StopCycle, vars, data
<1>14. ASSUME NEW e \in Executors, StopStudy(e) PROVE KeptRuns /\ RunsOK'
  BY <1>14, RunsSame DEF StopStudy, vars, data
<1>15. ASSUME NEW e \in Executors, SetRefit(e) PROVE KeptRuns /\ RunsOK'
  BY <1>15, RunsSame DEF SetRefit, vars, data
<1>16. ASSUME NEW e \in Executors, SetTest(e) PROVE KeptRuns /\ RunsOK'
  BY <1>16, RunsSame DEF SetTest, vars, data
<1>17. ASSUME NEW e \in Executors, CloseCycle(e) PROVE KeptRuns /\ RunsOK'
  BY <1>17, RunsSame DEF CloseCycle, vars, data
<1>18. ASSUME NEW e \in Executors, Finish(e) PROVE KeptRuns /\ RunsOK'
  BY <1>18, RunsSame DEF Finish, Ends, vars, data
<1>19. ASSUME NEW e \in Executors, FailCycle(e) PROVE KeptRuns /\ RunsOK'
  BY <1>19, RunsSame DEF FailCycle, vars, data
<1>20. ASSUME NEW e \in Executors, FailStudy(e) PROVE KeptRuns /\ RunsOK'
  BY <1>20, RunsSame DEF FailStudy, vars, data
<1>21. ASSUME NEW e \in Executors, Leave(e) PROVE KeptRuns /\ RunsOK'
  BY <1>21, RunsSame DEF Leave, Unlock, vars, data
<1>22. ASSUME NEW e \in Executors, NEW max \in Cycles, Acquire(e, max) PROVE KeptRuns /\ RunsOK'
  BY <1>22, RunsSame DEF Acquire, vars, data
<1>23. ASSUME NEW e \in Executors, Interrupt(e) PROVE KeptRuns /\ RunsOK'
  <2>1. CASE runs' = runs
    BY <2>1, RunsSame
  <2>2. CASE runs' # runs
    <3>1. /\ pc[e] = "training"
          /\ runs' = [runs EXCEPT ![Stage(e)].status = "failed"]
      BY <1>23, <2>2 DEF Interrupt
    <3>2. Stage(e) \in DOMAIN runs /\ runs[Stage(e)].status = "running"
      BY <3>1 DEF IInv, ExecutorsOK, StageOK
    <3> QED
      BY <3>1, <3>2, StatusSet
  <2> QED
    BY <2>1, <2>2
<1>24. ASSUME NEW e \in Executors, Kill(e) PROVE KeptRuns /\ RunsOK'
  BY <1>24, RunsSame DEF Kill, Fault, Unlock, vars, data
<1>25. CASE LoseLock
  BY <1>25, RunsSame DEF LoseLock, Fault, vars, data
<1>26. CASE EvaluateByHand
  BY <1>26, RunsSame DEF EvaluateByHand, Fault, vars, data
<1>27. CASE UNCHANGED vars
  BY <1>27, RunsSame DEF vars, vars, data
<1> QED
  BY <1>1, <1>2, <1>3, <1>4, <1>5, <1>6, <1>7, <1>8, <1>9, <1>10, <1>11, <1>12, <1>13, <1>14,
     <1>15, <1>16, <1>17, <1>18, <1>19, <1>20, <1>21, <1>22, <1>23, <1>24, <1>25, <1>26,
     <1>27 DEF Next, Step, Refuse

\* The scores an evaluation may have are scores.
LEMMA ScoreTypes ==
    ASSUME IInv, NEW checkpoint, NEW range, NEW score \in ScoresOf(checkpoint, range)
    PROVE  score \in Scores
<1>1. \A i \in DOMAIN evaluations : evaluations[i].score \in Scores
  <2>1. \A i \in DOMAIN evaluations : evaluations[i] \in Evaluations
    BY ElementOfSeq, LenProperties DEF IInv, EvaluationsOK
  <2> QED
    BY <2>1 DEF Evaluations
<1> QED
  BY <1>1 DEF ScoresOf

\* The ranges of a cycle are ranges.
LEMMA RangeTypes ==
    ASSUME NEW n \in Cycles
    PROVE  {Validation(n), TestRange(n)} \subseteq [start : Int, end : Int]
<1>1. /\ {BootstrapWeeks, ValidationWeeks, StepWeeks, TestWeeks, RowsPerWeek} \subseteq Int
      /\ n \in Int
  BY ProtocolAssumption, Names
<1>2. ValidationStart(n) \in Int
  BY <1>1 DEF ValidationStart
<1> QED
  BY <1>1, <1>2 DEF Validation, TestRange, Weeks

\* A step that leaves the evaluations alone.
LEMMA EvaluationsSame ==
    ASSUME IInv, evaluations' = evaluations, KeptRuns
    PROVE  KeptEvaluations /\ EvaluationsOK'
<1>1. KeptEvaluations
  BY DEF KeptEvaluations
<1> QED
  BY <1>1 DEF IInv, EvaluationsOK, KeptRuns

\* An evaluation is added.
LEMMA EvaluationAdded ==
    ASSUME IInv, KeptRuns, NEW x \in Evaluations, EvaluationOK(x),
           x.checkpoint \in {Base} \cup DOMAIN runs,
           evaluations' = Append(evaluations, x)
    PROVE  KeptEvaluations /\ EvaluationsOK'
<1>1. evaluations \in Seq(Evaluations)
  BY DEF IInv, EvaluationsOK
<1>2. /\ Len(evaluations) \in Nat /\ DOMAIN evaluations = 1 .. Len(evaluations)
      /\ DOMAIN evaluations' = 1 .. Len(evaluations) + 1
      /\ \A i \in 1 .. Len(evaluations) : evaluations'[i] = evaluations[i]
      /\ evaluations'[Len(evaluations) + 1] = x
      /\ evaluations' \in Seq(Evaluations)
  BY <1>1, AppendProperties, LenProperties
<1>3. \A i \in DOMAIN evaluations' : i \in DOMAIN evaluations \/ i = Len(evaluations) + 1
  BY <1>2
<1>4. \A i \in DOMAIN evaluations :
         EvaluationOK(evaluations[i]) /\ evaluations[i].checkpoint \in {Base} \cup DOMAIN runs
  BY DEF IInv, EvaluationsOK
<1>5. \A i \in DOMAIN evaluations' :
         EvaluationOK(evaluations'[i]) /\ evaluations'[i].checkpoint \in {Base} \cup DOMAIN runs
  BY <1>2, <1>3, <1>4
<1>6. DOMAIN evaluations \subseteq DOMAIN evaluations'
  BY <1>2
<1> QED
  BY <1>2, <1>5, <1>6 DEF EvaluationsOK, KeptEvaluations, KeptRuns

\* What _evaluation looks for: the checkpoint carried forward on the
\* validation weeks, or the refit on the test weeks.
LEMMA TargetShape ==
    ASSUME IInv, NEW e \in Executors,
           pc[e] \in {"reference", "measure_reference", "test", "measure_test"}
    PROVE  LET n == local[e].number
               t == Target(e)
           IN  /\ n \in Cycles
               /\ t.checkpoint \in Checkpoints /\ t.checkpoint \in {Base} \cup DOMAIN runs
               /\ pc[e] \in {"reference", "measure_reference"} =>
                     /\ t.scope = "custom_range" /\ t.checkpoint = local[e].previous
                     /\ t.checkpoint \in Earlier(n) /\ t.range = Validation(n)
               /\ pc[e] \in {"test", "measure_test"} =>
                     /\ t.scope = "extended_out_of_sample" /\ t.checkpoint = Stage(e)
                     /\ t.checkpoint \in Refits(n) /\ t.range = TestRange(n)
<1> DEFINE n == local[e].number
           t == Target(e)
<1>1. pc[e] \in Holding \ {"tested"} /\ n \in Cycles
  BY StageShape DEF Holding, Choosing, Refitting
<1>2. CASE pc[e] \in {"reference", "measure_reference"}
  <2>1. local[e].previous \in Earlier(n) /\ local[e].previous \in {Base} \cup DOMAIN runs
    BY <1>1 DEF IInv, ExecutorsOK, LoopOK
  <2>2. t = [checkpoint |-> local[e].previous, scope |-> "custom_range", range |-> Validation(n)]
    BY <1>2 DEF Target
  <2> QED
    BY <1>1, <1>2, <2>1, <2>2, Kinds
<1>3. CASE pc[e] \in {"test", "measure_test"}
  <2>1. local[e].winner # None /\ Completed(Stage(e))
    BY <1>3 DEF IInv, ExecutorsOK, GridOK, StageOK, Refitting
  <2>2. Stage(e) = <<n, "refit", local[e].winner.order>> /\ Stage(e) \in Refits(n)
    BY <1>1, <2>1, StageShape
  <2>3. t = [checkpoint |-> Stage(e), scope |-> "extended_out_of_sample", range |-> TestRange(n)]
    BY <1>3, <2>2 DEF Target
  <2>4. Stage(e) \in Stages /\ Stage(e) \in DOMAIN runs
    BY <1>1, <2>1, <2>2, Kinds DEF Completed
  <2> QED
    BY <1>1, <1>3, <2>2, <2>3, <2>4, Names
<1> QED
  BY <1>2, <1>3

\* Every step keeps the evaluations and adds only ones of the plan's windows.
LEMMA EvaluationsStep == IInv /\ [Next]_vars => KeptEvaluations /\ EvaluationsOK'
<1> SUFFICES ASSUME IInv, [Next]_vars PROVE KeptEvaluations /\ EvaluationsOK'
  OBVIOUS
<1>k. KeptRuns
  BY RunsStep
<1>1. ASSUME NEW e \in Executors, OpenStudy(e) PROVE KeptEvaluations /\ EvaluationsOK'
  BY <1>1, <1>k, EvaluationsSame DEF OpenStudy, vars, data
<1>2. ASSUME NEW e \in Executors, Load(e) PROVE KeptEvaluations /\ EvaluationsOK'
  BY <1>2, <1>k, EvaluationsSame DEF Load, vars, data
<1>3. ASSUME NEW e \in Executors, PassCompleted(e) PROVE KeptEvaluations /\ EvaluationsOK'
  BY <1>3, <1>k, EvaluationsSame DEF PassCompleted, Raise, vars, data
<1>4. ASSUME NEW e \in Executors, BeginCycle(e) PROVE KeptEvaluations /\ EvaluationsOK'
  BY <1>4, <1>k, EvaluationsSame DEF BeginCycle, Ends, View, vars, data
<1>5. ASSUME NEW e \in Executors, FindEvaluation(e) PROVE KeptEvaluations /\ EvaluationsOK'
  BY <1>5, <1>k, EvaluationsSame DEF FindEvaluation, Raise, vars, data
<1>6. ASSUME NEW e \in Executors, Measure(e) PROVE KeptEvaluations /\ EvaluationsOK'
  <2> DEFINE n == local[e].number
             t == Target(e)
  <2>1. PICK score \in ScoresOf(t.checkpoint, t.range) :
           evaluations' = Measured(t.checkpoint, t.scope, t.range, score)
    BY <1>6 DEF Measure
  <2>2. pc[e] \in {"measure_reference", "measure_test"}
    BY <1>6 DEF Measure
  <2> DEFINE x == [checkpoint |-> t.checkpoint, scope |-> t.scope, range |-> t.range,
                   score |-> score]
  <2>3. evaluations' = Append(evaluations, x)
    BY <2>1 DEF Measured
  <2>4. /\ n \in Cycles /\ t.checkpoint \in Checkpoints
        /\ t.checkpoint \in {Base} \cup DOMAIN runs
        /\ \/ /\ t.scope = "custom_range" /\ t.checkpoint \in Earlier(n)
              /\ t.range = Validation(n)
           \/ /\ t.scope = "extended_out_of_sample" /\ t.checkpoint \in Refits(n)
              /\ t.range = TestRange(n)
    BY <2>2, TargetShape
  <2>5. t.range \in [start : Int, end : Int] /\ score \in Scores
    BY <2>4, RangeTypes, ScoreTypes
  <2> HIDE DEF t
  <2>6. x \in Evaluations
    BY <2>4, <2>5 DEF Evaluations
  <2>7. EvaluationOK(x)
    BY <2>4 DEF EvaluationOK
  <2> QED
    BY <1>k, <2>3, <2>4, <2>6, <2>7, EvaluationAdded
<1>7. ASSUME NEW e \in Executors, SetReference(e) PROVE KeptEvaluations /\ EvaluationsOK'
  BY <1>7, <1>k, EvaluationsSame DEF SetReference, vars, data
<1>8. ASSUME NEW e \in Executors, ResumePrefix(e) PROVE KeptEvaluations /\ EvaluationsOK'
  BY <1>8, <1>k, EvaluationsSame DEF ResumePrefix, Raise, vars, data
<1>9. ASSUME NEW e \in Executors, FindStage(e) PROVE KeptEvaluations /\ EvaluationsOK'
  BY <1>9, <1>k, EvaluationsSame DEF FindStage, Raise, vars, data
<1>10. ASSUME NEW e \in Executors, CreateStage(e) PROVE KeptEvaluations /\ EvaluationsOK'
  BY <1>10, <1>k, EvaluationsSame DEF CreateStage, Raise, vars, data
<1>11. ASSUME NEW e \in Executors, TrainingCompletes(e) PROVE KeptEvaluations /\ EvaluationsOK'
  <2>1. pc[e] = "training" /\ pc[e] \in Holding \ {"tested"}
    BY <1>11 DEF TrainingCompletes, Holding
  <2>2. CASE local[e].winner # None
    <3>1. evaluations' = evaluations
      BY <1>11, <2>2 DEF TrainingCompletes
    <3> QED
      BY <1>k, <3>1, EvaluationsSame
  <2>3. CASE local[e].winner = None
    <3> DEFINE n == local[e].number
    <3>1. PICK score \in ScoresOf(Stage(e), Validation(n)) :
             evaluations' = Measured(Stage(e), "run_validation", Validation(n), score)
      BY <1>11, <2>3 DEF TrainingCompletes
    <3> DEFINE x == [checkpoint |-> Stage(e), scope |-> "run_validation", range |-> Validation(n),
                     score |-> score]
    <3>2. evaluations' = Append(evaluations, x)
      BY <3>1 DEF Measured
    <3>3. Stage(e) \in DOMAIN runs /\ Len(local[e].records) < Options
      BY <2>1, <2>3 DEF IInv, ExecutorsOK, StageOK, GridOK
    <3>4. n \in Cycles /\ Stage(e) \in Candidates(n)
      BY <2>1, <2>3, <3>3, StageShape
    <3>5. x \in Evaluations
      <4>1. Validation(n) \in [start : Int, end : Int] /\ score \in Scores
        BY <3>4, RangeTypes, ScoreTypes
      <4>2. Stage(e) \in Checkpoints
        BY <3>4, Kinds, Names
      <4> QED
        BY <4>1, <4>2 DEF Evaluations
    <3>6. EvaluationOK(x)
      BY <3>4 DEF EvaluationOK
    <3> QED
      BY <1>k, <3>2, <3>3, <3>5, <3>6, EvaluationAdded
  <2> QED
    BY <2>2, <2>3
<1>12. ASSUME NEW e \in Executors, RecordCandidate(e) PROVE KeptEvaluations /\ EvaluationsOK'
  BY <1>12, <1>k, EvaluationsSame DEF RecordCandidate, Raise, vars, data
<1>13. ASSUME NEW e \in Executors, StopCycle(e) PROVE KeptEvaluations /\ EvaluationsOK'
  BY <1>13, <1>k, EvaluationsSame DEF StopCycle, vars, data
<1>14. ASSUME NEW e \in Executors, StopStudy(e) PROVE KeptEvaluations /\ EvaluationsOK'
  BY <1>14, <1>k, EvaluationsSame DEF StopStudy, vars, data
<1>15. ASSUME NEW e \in Executors, SetRefit(e) PROVE KeptEvaluations /\ EvaluationsOK'
  BY <1>15, <1>k, EvaluationsSame DEF SetRefit, vars, data
<1>16. ASSUME NEW e \in Executors, SetTest(e) PROVE KeptEvaluations /\ EvaluationsOK'
  BY <1>16, <1>k, EvaluationsSame DEF SetTest, vars, data
<1>17. ASSUME NEW e \in Executors, CloseCycle(e) PROVE KeptEvaluations /\ EvaluationsOK'
  BY <1>17, <1>k, EvaluationsSame DEF CloseCycle, vars, data
<1>18. ASSUME NEW e \in Executors, Finish(e) PROVE KeptEvaluations /\ EvaluationsOK'
  BY <1>18, <1>k, EvaluationsSame DEF Finish, Ends, vars, data
<1>19. ASSUME NEW e \in Executors, FailCycle(e) PROVE KeptEvaluations /\ EvaluationsOK'
  BY <1>19, <1>k, EvaluationsSame DEF FailCycle, vars, data
<1>20. ASSUME NEW e \in Executors, FailStudy(e) PROVE KeptEvaluations /\ EvaluationsOK'
  BY <1>20, <1>k, EvaluationsSame DEF FailStudy, vars, data
<1>21. ASSUME NEW e \in Executors, Leave(e) PROVE KeptEvaluations /\ EvaluationsOK'
  BY <1>21, <1>k, EvaluationsSame DEF Leave, Unlock, vars, data
<1>22. ASSUME NEW e \in Executors, NEW max \in Cycles, Acquire(e, max)
       PROVE  KeptEvaluations /\ EvaluationsOK'
  BY <1>22, <1>k, EvaluationsSame DEF Acquire, vars, data
<1>23. ASSUME NEW e \in Executors, Interrupt(e) PROVE KeptEvaluations /\ EvaluationsOK'
  BY <1>23, <1>k, EvaluationsSame DEF Interrupt, Fault, vars, data
<1>24. ASSUME NEW e \in Executors, Kill(e) PROVE KeptEvaluations /\ EvaluationsOK'
  BY <1>24, <1>k, EvaluationsSame DEF Kill, Fault, Unlock, vars, data
<1>25. CASE LoseLock
  BY <1>25, <1>k, EvaluationsSame DEF LoseLock, Fault, vars, data
<1>26. CASE EvaluateByHand
  <2>1. PICK s \in DOMAIN runs :
           /\ s[2] = "candidate" /\ runs[s].status = "completed"
           /\ \E score \in ScoresOf(s, Validation(s[1])) :
                  evaluations' = Measured(s, "run_validation", Validation(s[1]), score)
    BY <1>26 DEF EvaluateByHand
  <2>2. PICK score \in ScoresOf(s, Validation(s[1])) :
           evaluations' = Measured(s, "run_validation", Validation(s[1]), score)
    BY <2>1
  <2> DEFINE x == [checkpoint |-> s, scope |-> "run_validation", range |-> Validation(s[1]),
                   score |-> score]
  <2>3. evaluations' = Append(evaluations, x)
    BY <2>2 DEF Measured
  <2>4. s \in Stages /\ s[1] \in Cycles /\ s \in Candidates(s[1])
    <3>1. s \in Stages
      BY DEF IInv, RunsOK
    <3> QED
      BY <3>1, <2>1 DEF Stages, Candidates
  <2>5. x \in Evaluations
    <3>1. Validation(s[1]) \in [start : Int, end : Int] /\ score \in Scores
      BY <2>4, RangeTypes, ScoreTypes
    <3> QED
      BY <2>4, <3>1, Names DEF Evaluations
  <2>6. EvaluationOK(x)
    BY <2>4 DEF EvaluationOK
  <2> QED
    BY <1>k, <2>3, <2>5, <2>6, EvaluationAdded
<1>27. CASE UNCHANGED vars
  BY <1>27, <1>k, EvaluationsSame DEF vars, vars, data
<1> QED
  BY <1>1, <1>2, <1>3, <1>4, <1>5, <1>6, <1>7, <1>8, <1>9, <1>10, <1>11, <1>12, <1>13, <1>14,
     <1>15, <1>16, <1>17, <1>18, <1>19, <1>20, <1>21, <1>22, <1>23, <1>24, <1>25, <1>26,
     <1>27 DEF Next, Step, Refuse

-----------------------------------------------------------------------------
(* The cycles *)

\* A row of a cycle stays one as runs and evaluations are added.
LEMMA RowKept ==
    ASSUME KeptRuns, KeptEvaluations, NEW row, NEW c, RowOK(row, c)
    PROVE  RowOK(row, c)'
BY DEF RowOK, KeptRuns, KeptEvaluations

\* One row changes.
LEMMA RowSet ==
    ASSUME CyclesOK, KeptRuns, KeptEvaluations, NEW n \in Cycles, NEW row, RowOK(row, n)',
           cycles' = [cycles EXCEPT ![n] = row]
    PROVE  CyclesOK'
<1>1. cycles' \in [Cycles -> CycleRows]
  BY DEF CyclesOK, RowOK
<1>2. ASSUME NEW c \in Cycles PROVE RowOK(cycles[c], c)'
  <2>1. CASE c = n
    <3>1. cycles'[c] = row
      BY <2>1 DEF CyclesOK
    <3> QED
      BY <2>1, <3>1
  <2>2. CASE c # n
    <3>1. PICK old : old = cycles[c]
      OBVIOUS
    <3>2. RowOK(old, c) /\ cycles'[c] = old
      BY <2>2, <3>1 DEF CyclesOK
    <3>3. RowOK(old, c)'
      BY <3>2, RowKept
    <3> QED
      BY <3>2, <3>3
  <2> QED
    BY <2>1, <2>2
<1> QED
  BY <1>1, <1>2 DEF CyclesOK

\* No row changes.
LEMMA RowsSame ==
    ASSUME CyclesOK, KeptRuns, KeptEvaluations, cycles' = cycles
    PROVE  CyclesOK'
<1>1. ASSUME NEW c \in Cycles PROVE RowOK(cycles[c], c)'
  <2>1. PICK old : old = cycles[c]
    OBVIOUS
  <2>2. RowOK(old, c) /\ cycles'[c] = old
    BY <2>1 DEF CyclesOK
  <2>3. RowOK(old, c)'
    BY <2>2, RowKept
  <2> QED
    BY <2>2, <2>3
<1> QED
  BY <1>1 DEF CyclesOK

\* Every step keeps the rows of the cycles.
LEMMA CyclesStep == IInv /\ [Next]_vars => CyclesOK'
<1> SUFFICES ASSUME IInv, [Next]_vars PROVE CyclesOK'
  OBVIOUS
<1>k. KeptRuns /\ KeptEvaluations /\ RunsOK' /\ EvaluationsOK'
  BY RunsStep, EvaluationsStep
<1>i. CyclesOK /\ LocalsOK /\ \A e \in Executors : LoopOK(e) /\ GridOK(e) /\ StageOK(e)
  BY DEF IInv, ExecutorsOK
<1>1. ASSUME NEW e \in Executors, OpenStudy(e) PROVE CyclesOK'
  BY <1>1, <1>k, <1>i, RowsSame DEF OpenStudy, vars, data
<1>2. ASSUME NEW e \in Executors, Load(e) PROVE CyclesOK'
  BY <1>2, <1>k, <1>i, RowsSame DEF Load, vars, data
<1>3. ASSUME NEW e \in Executors, PassCompleted(e) PROVE CyclesOK'
  BY <1>3, <1>k, <1>i, RowsSame DEF PassCompleted, Raise, vars, data
<1>4. ASSUME NEW e \in Executors, BeginCycle(e) PROVE CyclesOK'
  <2>a. CASE cycles' = cycles
    BY <1>k, <1>i, <2>a, RowsSame
  <2>b. CASE cycles' # cycles
    <3>0. PICK n : n = local[e].number
      OBVIOUS
    <3>1. /\ pc[e] = "cycle" /\ n \in Cycles
          /\ cycles' = [cycles EXCEPT ![n].source = local[e].previous, ![n].status = "running"]
      BY <1>4, <3>0, <2>b DEF BeginCycle, Ends
    <3>2. n \in Cycles
      BY <1>i, <3>0, <3>1 DEF LoopOK, Holding, Choosing, Refitting
    <3>3. local[e].previous \in {Base} \cup DOMAIN runs /\ local[e].previous \in Checkpoints
      BY <1>i, <3>0, <3>1, <3>2, Kinds DEF LoopOK, Earlier, Checkpoints
    <3>4. PICK old : old = cycles[n]
      OBVIOUS
    <3>5. RowOK(old, n) /\ RowOK(old, n)' /\ cycles \in [Cycles -> CycleRows] /\ old \in CycleRows
      BY <1>k, <1>i, <3>2, <3>4, RowKept DEF CyclesOK
    <3>6. PICK row : row = [old EXCEPT !.source = local[e].previous, !.status = "running"]
      OBVIOUS
    <3>7. cycles' = [cycles EXCEPT ![n] = row]
      BY <3>1, <3>2, <3>4, <3>5, <3>6
    <3>8. row \in CycleRows
      BY <3>5, <3>6, <3>3 DEF CycleRows, Statuses
    <3>9. RowOK(row, n)'
      BY <3>5, <3>6, <3>8, <3>3, <1>k DEF RowOK, CycleRows, KeptRuns
    <3> QED
      BY <1>k, <1>i, <3>2, <3>7, <3>9, RowSet
  <2> QED
    BY <2>a, <2>b
<1>5. ASSUME NEW e \in Executors, FindEvaluation(e) PROVE CyclesOK'
  BY <1>5, <1>k, <1>i, RowsSame DEF FindEvaluation, Raise, vars, data
<1>6. ASSUME NEW e \in Executors, Measure(e) PROVE CyclesOK'
  BY <1>6, <1>k, <1>i, RowsSame DEF Measure, vars, data
<1>7. ASSUME NEW e \in Executors, SetReference(e) PROVE CyclesOK'
  <2>0. PICK n : n = local[e].number
    OBVIOUS
  <2>1. /\ pc[e] = "set_reference"
        /\ cycles' = [cycles EXCEPT ![n].reference = local[e].found]
    BY <1>7, <2>0 DEF SetReference
  <2>2. n \in Cycles
    BY <1>i, <2>0, <2>1 DEF LoopOK, Holding, Choosing, Refitting
  <2>3. local[e].found \in DOMAIN evaluations /\ local[e].found \in Nat
    BY <1>i, <2>0, <2>1, LenProperties DEF GridOK, IInv, EvaluationsOK
  <2>4. PICK old : old = cycles[n]
    OBVIOUS
  <2>5. RowOK(old, n) /\ RowOK(old, n)' /\ cycles \in [Cycles -> CycleRows] /\ old \in CycleRows
    BY <1>k, <1>i, <2>2, <2>4, RowKept DEF CyclesOK
  <2>6. PICK row : row = [old EXCEPT !.reference = local[e].found]
    OBVIOUS
  <2>7. cycles' = [cycles EXCEPT ![n] = row]
    BY <2>1, <2>2, <2>4, <2>5, <2>6
  <2>8. row \in CycleRows
    BY <2>5, <2>6, <2>3 DEF CycleRows, Statuses
  <2>9. RowOK(row, n)'
    BY <2>5, <2>6, <2>8, <2>3, <1>k DEF RowOK, CycleRows, KeptEvaluations
  <2> QED
    BY <1>k, <1>i, <2>2, <2>7, <2>9, RowSet
<1>8. ASSUME NEW e \in Executors, ResumePrefix(e) PROVE CyclesOK'
  BY <1>8, <1>k, <1>i, RowsSame DEF ResumePrefix, Raise, vars, data
<1>9. ASSUME NEW e \in Executors, FindStage(e) PROVE CyclesOK'
  BY <1>9, <1>k, <1>i, RowsSame DEF FindStage, Raise, vars, data
<1>10. ASSUME NEW e \in Executors, CreateStage(e) PROVE CyclesOK'
  BY <1>10, <1>k, <1>i, RowsSame DEF CreateStage, Raise, vars, data
<1>11. ASSUME NEW e \in Executors, TrainingCompletes(e) PROVE CyclesOK'
  BY <1>11, <1>k, <1>i, RowsSame DEF TrainingCompletes, vars, data
<1>12. ASSUME NEW e \in Executors, RecordCandidate(e) PROVE CyclesOK'
  <2>a. CASE cycles' = cycles
    BY <1>k, <1>i, <2>a, RowsSame
  <2>b. CASE cycles' # cycles
    <3>n. PICK n : n = local[e].number
      OBVIOUS
    <3>0. PICK r : /\ NewRecord(e, r)
                   /\ \E w \in {Stage(e), None} : cycles' = [cycles EXCEPT
                          ![n].records = Append(local[e].records, r), ![n].selected = w]
      <4>1. ~ Raise(e)
        BY <2>b DEF Raise, data
      <4>2. PICK r : /\ NewRecord(e, r)
                     /\ cycles' = [cycles EXCEPT
                          ![n].records = Append(local[e].records, r),
                          ![n].selected = IF Improves(r, ReferenceScore(e)) THEN Stage(e) ELSE None]
        BY <1>12, <3>n, <4>1, Recorded
      <4> QED
        BY <4>2
    <3>1. PICK w \in {Stage(e), None} : cycles' = [cycles EXCEPT
                          ![n].records = Append(local[e].records, r), ![n].selected = w]
      BY <3>0
    <3>2. pc[e] = "record" /\ n \in Cycles
      BY <1>i, <3>n, <1>12 DEF RecordCandidate, LoopOK, Holding, Choosing
    <3>3. w = None \/ (w \in Candidates(n) /\ w \in DOMAIN runs /\ w \in Checkpoints)
      <4>1. local[e].winner = None /\ Completed(Stage(e)) /\ pc[e] \in Holding \ {"tested"}
        BY <1>i, <3>2 DEF GridOK, StageOK, Choosing, Holding
      <4>2. Len(local[e].records) < Options
        BY <1>i, <3>2, <4>1 DEF GridOK
      <4> QED
        BY <3>n, <3>2, <4>1, <4>2, StageShape, Kinds, Names DEF Completed
    <3>4. PICK old : old = cycles[n]
      OBVIOUS
    <3>5. RowOK(old, n) /\ RowOK(old, n)' /\ cycles \in [Cycles -> CycleRows] /\ old \in CycleRows
      BY <1>k, <1>i, <3>2, <3>4, RowKept DEF CyclesOK
    <3>r. PICK records : records = Append(local[e].records, r)
      OBVIOUS
    <3>s. records \in Seq(RecordsOf(n)) /\ records \in Seq(Records) /\ Len(records) <= Options
      <4>1. local[e].records \in Seq(RecordsOf(n)) /\ Len(local[e].records) < Options
        BY <1>i, <3>n, <3>2 DEF GridOK, Choosing, Holding
      <4>2. r \in RecordsOf(n) /\ RecordsOf(n) \subseteq Records
        BY <3>n, <3>0 DEF NewRecord, RecordsOf
      <4>3. local[e].records \in Seq(Records)
        BY <1>i DEF LocalsOK, Locals
      <4> QED
        BY <3>r, <4>1, <4>2, <4>3, AppendProperties, LenProperties, Names
    <3>6. PICK row : row = [old EXCEPT !.records = records, !.selected = w]
      OBVIOUS
    <3>7. cycles' = [cycles EXCEPT ![n] = row]
      BY <3>1, <3>2, <3>4, <3>5, <3>6, <3>r
    <3>8. row \in CycleRows
      BY <3>3, <3>5, <3>6, <3>s DEF CycleRows, Statuses
    <3>9. RowOK(row, n)'
      BY <3>3, <3>5, <3>6, <3>8, <3>s, <1>k DEF RowOK, CycleRows, KeptRuns
    <3> QED
      BY <1>k, <1>i, <3>2, <3>7, <3>9, RowSet
  <2> QED
    BY <2>a, <2>b
<1>13. ASSUME NEW e \in Executors, StopCycle(e) PROVE CyclesOK'
  <2>0. PICK n : n = local[e].number
    OBVIOUS
  <2>1. /\ pc[e] = "grid"
        /\ cycles' = [cycles EXCEPT ![n].status = "stopped"]
    BY <1>13, <2>0 DEF StopCycle
  <2>2. n \in Cycles
    BY <1>i, <2>0, <2>1 DEF LoopOK, Holding, Choosing, Refitting
  <2>4. PICK old : old = cycles[n]
    OBVIOUS
  <2>5. RowOK(old, n) /\ RowOK(old, n)' /\ cycles \in [Cycles -> CycleRows] /\ old \in CycleRows
    BY <1>k, <1>i, <2>2, <2>4, RowKept DEF CyclesOK
  <2>6. PICK row : row = [old EXCEPT !.status = "stopped"]
    OBVIOUS
  <2>7. cycles' = [cycles EXCEPT ![n] = row]
    BY <2>1, <2>2, <2>4, <2>5, <2>6
  <2>8. row \in CycleRows
    BY <2>5, <2>6 DEF CycleRows, Statuses
  <2>9. RowOK(row, n)'
    BY <2>5, <2>6, <2>8 DEF RowOK, CycleRows
  <2> QED
    BY <1>k, <1>i, <2>2, <2>7, <2>9, RowSet
<1>14. ASSUME NEW e \in Executors, StopStudy(e) PROVE CyclesOK'
  BY <1>14, <1>k, <1>i, RowsSame DEF StopStudy, vars, data
<1>15. ASSUME NEW e \in Executors, SetRefit(e) PROVE CyclesOK'
  <2>0. PICK n : n = local[e].number
    OBVIOUS
  <2>1. /\ pc[e] = "set_refit"
        /\ cycles' = [cycles EXCEPT ![n].refit = Stage(e)]
    BY <1>15, <2>0 DEF SetRefit
  <2>2. n \in Cycles
    BY <1>i, <2>0, <2>1 DEF LoopOK, Holding, Choosing, Refitting
  <2>3. Stage(e) \in Refits(n) /\ Stage(e) \in DOMAIN runs /\ Stage(e) \in Checkpoints
    <3>1. local[e].winner # None /\ Completed(Stage(e)) /\ pc[e] \in Holding \ {"tested"}
      BY <1>i, <2>1 DEF GridOK, StageOK, Refitting, Holding
    <3> QED
      BY <2>0, <2>2, <3>1, StageShape, Kinds, Names DEF Completed
  <2>4. PICK old : old = cycles[n]
    OBVIOUS
  <2>5. RowOK(old, n) /\ RowOK(old, n)' /\ cycles \in [Cycles -> CycleRows] /\ old \in CycleRows
    BY <1>k, <1>i, <2>2, <2>4, RowKept DEF CyclesOK
  <2>6. PICK row : row = [old EXCEPT !.refit = Stage(e)]
    OBVIOUS
  <2>7. cycles' = [cycles EXCEPT ![n] = row]
    BY <2>1, <2>2, <2>4, <2>5, <2>6
  <2>8. row \in CycleRows
    BY <2>5, <2>6, <2>3 DEF CycleRows, Statuses
  <2>9. RowOK(row, n)'
    BY <2>5, <2>6, <2>8, <2>3, <1>k DEF RowOK, CycleRows, KeptRuns
  <2> QED
    BY <1>k, <1>i, <2>2, <2>7, <2>9, RowSet
<1>16. ASSUME NEW e \in Executors, SetTest(e) PROVE CyclesOK'
  <2>0. PICK n : n = local[e].number
    OBVIOUS
  <2>1. /\ pc[e] = "set_test"
        /\ cycles' = [cycles EXCEPT ![n].test = local[e].found, ![n].status = "completed"]
    BY <1>16, <2>0 DEF SetTest
  <2>2. n \in Cycles
    BY <1>i, <2>0, <2>1 DEF LoopOK, Holding, Choosing, Refitting
  <2>3. local[e].found \in DOMAIN evaluations /\ local[e].found \in Nat
    BY <1>i, <2>0, <2>1, LenProperties DEF GridOK, IInv, EvaluationsOK
  <2>4. PICK old : old = cycles[n]
    OBVIOUS
  <2>5. RowOK(old, n) /\ RowOK(old, n)' /\ cycles \in [Cycles -> CycleRows] /\ old \in CycleRows
    BY <1>k, <1>i, <2>2, <2>4, RowKept DEF CyclesOK
  <2>6. PICK row : row = [old EXCEPT !.test = local[e].found, !.status = "completed"]
    OBVIOUS
  <2>7. cycles' = [cycles EXCEPT ![n] = row]
    BY <2>1, <2>2, <2>4, <2>5, <2>6
  <2>8. row \in CycleRows
    BY <2>5, <2>6, <2>3 DEF CycleRows, Statuses
  <2>9. RowOK(row, n)'
    BY <2>5, <2>6, <2>8, <2>3, <1>k DEF RowOK, CycleRows, KeptEvaluations
  <2> QED
    BY <1>k, <1>i, <2>2, <2>7, <2>9, RowSet
<1>17. ASSUME NEW e \in Executors, CloseCycle(e) PROVE CyclesOK'
  BY <1>17, <1>k, <1>i, RowsSame DEF CloseCycle, vars, data
<1>18. ASSUME NEW e \in Executors, Finish(e) PROVE CyclesOK'
  BY <1>18, <1>k, <1>i, RowsSame DEF Finish, Ends, vars, data
<1>19. ASSUME NEW e \in Executors, FailCycle(e) PROVE CyclesOK'
  <2>a. CASE cycles' = cycles
    BY <1>k, <1>i, <2>a, RowsSame
  <2>b. CASE cycles' # cycles
    <3>0. PICK n : n = local[e].current
      OBVIOUS
    <3>1. /\ local[e].current # 0
          /\ cycles' = [cycles EXCEPT ![n].status = "failed"]
      BY <1>19, <3>0, <2>b DEF FailCycle
    <3>2. n \in Cycles
      BY <1>i, <3>0, <3>1 DEF LocalsOK, Locals
    <3>4. PICK old : old = cycles[n]
      OBVIOUS
    <3>5. RowOK(old, n) /\ RowOK(old, n)' /\ cycles \in [Cycles -> CycleRows] /\ old \in CycleRows
      BY <1>k, <1>i, <3>2, <3>4, RowKept DEF CyclesOK
    <3>6. PICK row : row = [old EXCEPT !.status = "failed"]
      OBVIOUS
    <3>7. cycles' = [cycles EXCEPT ![n] = row]
      BY <3>1, <3>2, <3>4, <3>5, <3>6
    <3>8. row \in CycleRows
      BY <3>5, <3>6 DEF CycleRows, Statuses
    <3>9. RowOK(row, n)'
      BY <3>5, <3>6, <3>8 DEF RowOK, CycleRows
    <3> QED
      BY <1>k, <1>i, <3>2, <3>7, <3>9, RowSet
  <2> QED
    BY <2>a, <2>b
<1>20. ASSUME NEW e \in Executors, FailStudy(e) PROVE CyclesOK'
  BY <1>20, <1>k, <1>i, RowsSame DEF FailStudy, vars, data
<1>21. ASSUME NEW e \in Executors, Leave(e) PROVE CyclesOK'
  BY <1>21, <1>k, <1>i, RowsSame DEF Leave, Unlock, vars, data
<1>22. ASSUME NEW e \in Executors, NEW max \in Cycles, Acquire(e, max) PROVE CyclesOK'
  BY <1>22, <1>k, <1>i, RowsSame DEF Acquire, vars, data
<1>23. ASSUME NEW e \in Executors, Interrupt(e) PROVE CyclesOK'
  BY <1>23, <1>k, <1>i, RowsSame DEF Interrupt, Fault, vars, data
<1>24. ASSUME NEW e \in Executors, Kill(e) PROVE CyclesOK'
  BY <1>24, <1>k, <1>i, RowsSame DEF Kill, Fault, Unlock, vars, data
<1>25. CASE LoseLock
  BY <1>25, <1>k, <1>i, RowsSame DEF LoseLock, Fault, vars, data
<1>26. CASE EvaluateByHand
  BY <1>26, <1>k, <1>i, RowsSame DEF EvaluateByHand, Fault, vars, data
<1>27. CASE UNCHANGED vars
  BY <1>27, <1>k, <1>i, RowsSame DEF vars, vars, data
<1> QED
  BY <1>1, <1>2, <1>3, <1>4, <1>5, <1>6, <1>7, <1>8, <1>9, <1>10, <1>11, <1>12, <1>13, <1>14,
     <1>15, <1>16, <1>17, <1>18, <1>19, <1>20, <1>21, <1>22, <1>23, <1>24, <1>25, <1>26,
     <1>27 DEF Next, Step, Refuse

-----------------------------------------------------------------------------
(* The executors *)

ExecutorOK(e) == LoopOK(e) /\ GridOK(e) /\ StageOK(e)

\* What a step of an executor other than f leaves of f.
Untouched(f) ==
    /\ pc'[f] = pc[f] /\ local'[f] = local[f]
    /\ pc[f] = "training" => Stage(f) \in DOMAIN runs' /\ runs'[Stage(f)].status = "running"

\* A checkpoint that can be carried forward, and a completed run, stay so.
LEMMA CarriesKept ==
    ASSUME KeptRuns, NEW s
    PROVE  (Carries(s) => Carries(s)') /\ (Completed(s) => Completed(s)')
BY DEF Carries, Completed, KeptRuns

\* An executor that did nothing is where it was.
LEMMA OthersKept ==
    ASSUME IInv, KeptRuns, KeptEvaluations, NEW f \in Executors, Untouched(f)
    PROVE  ExecutorOK(f)'
<1>1. LoopOK(f) /\ GridOK(f) /\ StageOK(f) /\ pc'[f] = pc[f] /\ local'[f] = local[f]
  BY DEF IInv, ExecutorsOK, Untouched
<1>2. PICK l : l = local[f]
  OBVIOUS
<1>3. LoopOK(f)'
  <2>1. ASSUME NEW c \in Cycles, RowOK(l.view[c], c) PROVE RowOK(l.view[c], c)'
    BY <2>1, RowKept
  <2>2. \A c \in Cycles : RowOK(l.view[c], c) => RowOK(l.view[c], c)'
    BY <2>1
  <2>3. \A s : Carries(s) => Carries(s)'
    BY CarriesKept
  <2>4. DOMAIN runs \subseteq DOMAIN runs'
    BY DEF KeptRuns
  <2> QED
    BY <1>1, <1>2, <2>2, <2>3, <2>4 DEF LoopOK
<1>4. GridOK(f)'
  BY <1>1, <1>2 DEF GridOK, KeptEvaluations
<1>5. StageOK(f)'
  <2>1. Stage(f)' = Stage(f)
    BY <1>1 DEF Stage
  <2>2. PICK s : s = Stage(f)
    OBVIOUS
  <2>3. (Completed(s) => Completed(s)') /\ \A t : Carries(t) => Carries(t)'
    BY CarriesKept
  <2>4. s = Stage(f)'
    BY <2>1, <2>2
  <2>5. pc'[f] = "training" => Stage(f)' \in DOMAIN runs' /\ runs'[Stage(f)'].status = "running"
    BY <1>1, <2>1 DEF Untouched
  <2>6. Completed(Stage(f)) => Completed(Stage(f))'
    BY <2>2, <2>3, <2>4
  <2>7. Carries(l.winner.checkpoint) => Carries(l.winner.checkpoint)'
    BY <2>3
  <2>8. Carries(local[f].winner.checkpoint) => Carries(local[f].winner.checkpoint)'
    BY <1>1, <1>2, <2>7
  <2> QED
    BY <1>1, <2>5, <2>6, <2>8 DEF StageOK
<1> QED
  BY <1>3, <1>4, <1>5 DEF ExecutorOK

\* Every step of an executor leaves the others untouched.
LEMMA OthersStep ==
    ASSUME IInv, NEW e \in Executors, NEW f \in Executors, f # e,
           \/ \E max \in Cycles : Acquire(e, max)
           \/ Refuse(e) \/ Step(e) \/ Interrupt(e) \/ Kill(e)
    PROVE  Untouched(f)
<1>t. pc[f] = "training" => Stage(f) \in DOMAIN runs /\ runs[Stage(f)].status = "running"
  BY DEF IInv, ExecutorsOK, StageOK
<1>p. pc \in [Executors -> Labels] /\ local \in [Executors -> Locals]
  BY DEF IInv, ControlOK, LocalsOK
<1>1. CASE OpenStudy(e)
  <2>1. pc'[f] = pc[f] /\ local'[f] = local[f] /\ runs' = runs
    BY <1>p, <1>1 DEF OpenStudy, Goto, data
  <2> QED
    BY <1>t, <2>1 DEF Untouched
<1>2. CASE Load(e)
  <2>1. pc'[f] = pc[f] /\ local'[f] = local[f] /\ runs' = runs
    BY <1>p, <1>2 DEF Load, Goto, data
  <2> QED
    BY <1>t, <2>1 DEF Untouched
<1>3. CASE PassCompleted(e)
  <2>1. pc'[f] = pc[f] /\ local'[f] = local[f] /\ runs' = runs
    BY <1>p, <1>3 DEF PassCompleted, Raise, Goto, data
  <2> QED
    BY <1>t, <2>1 DEF Untouched
<1>4. CASE BeginCycle(e)
  <2>1. pc'[f] = pc[f] /\ local'[f] = local[f] /\ runs' = runs
    BY <1>p, <1>4 DEF BeginCycle, Ends, View, Goto, data
  <2> QED
    BY <1>t, <2>1 DEF Untouched
<1>5. CASE FindEvaluation(e)
  <2>1. pc'[f] = pc[f] /\ local'[f] = local[f] /\ runs' = runs
    BY <1>p, <1>5 DEF FindEvaluation, Raise, Goto, data
  <2> QED
    BY <1>t, <2>1 DEF Untouched
<1>6. CASE Measure(e)
  <2>1. pc'[f] = pc[f] /\ local'[f] = local[f] /\ runs' = runs
    BY <1>p, <1>6 DEF Measure, Goto, data
  <2> QED
    BY <1>t, <2>1 DEF Untouched
<1>7. CASE SetReference(e)
  <2>1. pc'[f] = pc[f] /\ local'[f] = local[f] /\ runs' = runs
    BY <1>p, <1>7 DEF SetReference, Goto, data
  <2> QED
    BY <1>t, <2>1 DEF Untouched
<1>8. CASE ResumePrefix(e)
  <2>1. pc'[f] = pc[f] /\ local'[f] = local[f] /\ runs' = runs
    BY <1>p, <1>8 DEF ResumePrefix, Raise, Goto, data
  <2> QED
    BY <1>t, <2>1 DEF Untouched
<1>9. CASE FindStage(e)
  <2>1. pc'[f] = pc[f] /\ local'[f] = local[f] /\ runs' = runs
    BY <1>p, <1>9 DEF FindStage, Raise, Goto, data
  <2> QED
    BY <1>t, <2>1 DEF Untouched
<1>10. CASE CreateStage(e)
  <2>1. pc'[f] = pc[f] /\ local'[f] = local[f]
    BY <1>p, <1>10 DEF CreateStage, Raise, data, Goto
  <2>2. pc[f] = "training" => Stage(f) \in DOMAIN runs' /\ runs'[Stage(f)].status = "running"
    BY <1>t, <1>10 DEF CreateStage, Raise, data
  <2> QED
    BY <2>1, <2>2 DEF Untouched
<1>11. CASE TrainingCompletes(e)
  <2>1. pc'[f] = pc[f] /\ local'[f] = local[f] /\ pc[e] = "training"
    BY <1>p, <1>11 DEF TrainingCompletes, Goto
  <2>2. pc[f] = "training" => Stage(f) # Stage(e)
    BY <2>1 DEF IInv, TrainersApart
  <2>3. runs' = [runs EXCEPT ![Stage(e)].status = "completed"]
    BY <1>11 DEF TrainingCompletes
  <2>4. pc[f] = "training" => Stage(f) \in DOMAIN runs' /\ runs'[Stage(f)].status = "running"
    BY <1>t, <2>2, <2>3
  <2> QED
    BY <2>1, <2>4 DEF Untouched
<1>12. CASE RecordCandidate(e)
  <2>1. pc'[f] = pc[f] /\ local'[f] = local[f] /\ runs' = runs
    BY <1>p, <1>12 DEF RecordCandidate, Raise, Goto, data
  <2> QED
    BY <1>t, <2>1 DEF Untouched
<1>13. CASE StopCycle(e)
  <2>1. pc'[f] = pc[f] /\ local'[f] = local[f] /\ runs' = runs
    BY <1>p, <1>13 DEF StopCycle, Goto, data
  <2> QED
    BY <1>t, <2>1 DEF Untouched
<1>14. CASE StopStudy(e)
  <2>1. pc'[f] = pc[f] /\ local'[f] = local[f] /\ runs' = runs
    BY <1>p, <1>14 DEF StopStudy, Goto, data
  <2> QED
    BY <1>t, <2>1 DEF Untouched
<1>15. CASE SetRefit(e)
  <2>1. pc'[f] = pc[f] /\ local'[f] = local[f] /\ runs' = runs
    BY <1>p, <1>15 DEF SetRefit, Goto, data
  <2> QED
    BY <1>t, <2>1 DEF Untouched
<1>16. CASE SetTest(e)
  <2>1. pc'[f] = pc[f] /\ local'[f] = local[f] /\ runs' = runs
    BY <1>p, <1>16 DEF SetTest, Goto, data
  <2> QED
    BY <1>t, <2>1 DEF Untouched
<1>17. CASE CloseCycle(e)
  <2>1. pc'[f] = pc[f] /\ local'[f] = local[f] /\ runs' = runs
    BY <1>p, <1>17 DEF CloseCycle, Goto, data
  <2> QED
    BY <1>t, <2>1 DEF Untouched
<1>18. CASE Finish(e)
  <2>1. pc'[f] = pc[f] /\ local'[f] = local[f] /\ runs' = runs
    BY <1>p, <1>18 DEF Finish, Ends, Goto, data
  <2> QED
    BY <1>t, <2>1 DEF Untouched
<1>19. CASE FailCycle(e)
  <2>1. pc'[f] = pc[f] /\ local'[f] = local[f] /\ runs' = runs
    BY <1>p, <1>19 DEF FailCycle, Goto, data
  <2> QED
    BY <1>t, <2>1 DEF Untouched
<1>20. CASE FailStudy(e)
  <2>1. pc'[f] = pc[f] /\ local'[f] = local[f] /\ runs' = runs
    BY <1>p, <1>20 DEF FailStudy, Goto, data
  <2> QED
    BY <1>t, <2>1 DEF Untouched
<1>21. CASE Leave(e)
  <2>1. pc'[f] = pc[f] /\ local'[f] = local[f] /\ runs' = runs
    BY <1>p, <1>21 DEF Leave, Unlock, Goto, data
  <2> QED
    BY <1>t, <2>1 DEF Untouched
<1>22. ASSUME NEW max \in Cycles, Acquire(e, max) PROVE Untouched(f)
  <2>1. pc'[f] = pc[f] /\ local'[f] = local[f] /\ runs' = runs
    BY <1>p, <1>22 DEF Acquire, Goto, data
  <2> QED
    BY <1>t, <2>1 DEF Untouched
<1>23. CASE Interrupt(e)
  <2>1. pc'[f] = pc[f] /\ local'[f] = local[f]
    BY <1>p, <1>23 DEF Interrupt, Goto
  <2>2. CASE pc[e] = "training"
    <3>2. pc[f] = "training" => Stage(f) # Stage(e)
      BY <2>2 DEF IInv, TrainersApart
    <3>3. runs' = [runs EXCEPT ![Stage(e)].status = "failed"]
      BY <1>23, <2>2 DEF Interrupt
    <3>4. pc[f] = "training" => Stage(f) \in DOMAIN runs' /\ runs'[Stage(f)].status = "running"
      BY <1>t, <3>2, <3>3
    <3> QED
      BY <2>1, <3>4 DEF Untouched
  <2>3. CASE pc[e] # "training"
    <3>1. runs' = runs
      BY <1>23, <2>3 DEF Interrupt
    <3> QED
      BY <1>t, <2>1, <3>1 DEF Untouched
  <2> QED
    BY <2>2, <2>3
<1>24. CASE Kill(e)
  <2>1. pc'[f] = pc[f] /\ local'[f] = local[f] /\ runs' = runs
    BY <1>p, <1>24 DEF Kill, Fault, Unlock, Goto, data
  <2> QED
    BY <1>t, <2>1 DEF Untouched
<1>0. CASE Refuse(e)
  BY <1>0, <1>t DEF Refuse, vars, Untouched
<1> QED
  BY <1>0, <1>1, <1>2, <1>3, <1>4, <1>5, <1>6, <1>7, <1>8, <1>9, <1>10, <1>11, <1>12, <1>13,
     <1>14, <1>15, <1>16, <1>17, <1>18, <1>19, <1>20, <1>21, <1>22, <1>23, <1>24 DEF Step

\* An executor that holds no cycle.
LEMMA IdleOK ==
    ASSUME NEW e, pc'[e] \notin Holding \cup {"open", "load", "cycle"}
    PROVE  ExecutorOK(e)'
<1>1. LoopOK(e)'
  BY DEF LoopOK
<1>2. GridOK(e)'
  BY DEF GridOK, Holding, Choosing, Refitting
<1>3. StageOK(e)'
  BY DEF StageOK, Holding, Choosing, Refitting
<1> QED
  BY <1>1, <1>2, <1>3 DEF ExecutorOK

\* Rows an executor remembers stay rows.
LEMMA ViewKept ==
    ASSUME KeptRuns, KeptEvaluations, NEW view, \A c \in Cycles : RowOK(view[c], c)
    PROVE  \A c \in Cycles : RowOK(view[c], c)'
<1>1. ASSUME NEW c \in Cycles PROVE RowOK(view[c], c)'
  <2>1. RowOK(view[c], c)
    OBVIOUS
  <2> QED
    BY <2>1, RowKept
<1> QED
  BY <1>1

\* Within a cycle, the place in the loop over the cycles stays.
LEMMA LoopSame ==
    ASSUME IInv, KeptRuns, KeptEvaluations, NEW e \in Executors,
           pc[e] \in Holding \ {"tested"}, pc'[e] \in Holding \ {"tested"},
           local'[e].view = local[e].view, local'[e].number = local[e].number,
           local'[e].previous = local[e].previous
    PROVE  LoopOK(e)'
<1>1. LoopOK(e)
  BY DEF IInv, ExecutorsOK
<1>2. PICK view, number, previous :
         view = local[e].view /\ number = local[e].number /\ previous = local[e].previous
  OBVIOUS
<1>3. \A c \in Cycles : RowOK(view[c], c)'
  BY <1>1, <1>2, ViewKept DEF LoopOK
<1>4. number # 1 => Carries(previous)'
  BY <1>1, <1>2, CarriesKept DEF LoopOK
<1>5. DOMAIN runs \subseteq DOMAIN runs'
  BY DEF KeptRuns
<1> QED
  BY <1>1, <1>2, <1>3, <1>4, <1>5 DEF LoopOK

\* Every step of an executor leaves it in order.
LEMMA OwnStep ==
    ASSUME IInv, [Next]_vars, KeptRuns, KeptEvaluations, NEW e \in Executors,
           (\E max \in Cycles : Acquire(e, max)) \/ Step(e) \/ Interrupt(e) \/ Kill(e)
    PROVE  ExecutorOK(e)'
<1>p. /\ pc \in [Executors -> Labels] /\ local \in [Executors -> Locals]
      /\ LoopOK(e) /\ GridOK(e) /\ StageOK(e)
  BY DEF IInv, ControlOK, LocalsOK, ExecutorsOK
<1>i. Raise(e) => ExecutorOK(e)'
  <2>1. Raise(e) => pc'[e] \notin Holding \cup {"open", "load", "cycle"}
    BY <1>p DEF Raise, Goto, Holding, Choosing, Refitting
  <2> QED
    BY <2>1, IdleOK
<1>1. CASE OpenStudy(e)
  <2>1. pc'[e] \in {"leave", "load"} /\ local'[e].winner = None
    BY <1>p, <1>1 DEF OpenStudy, Goto, GridOK
  <2> QED
    BY <2>1 DEF ExecutorOK, LoopOK, GridOK, StageOK, Holding, Choosing, Refitting
<1>2. CASE Load(e)
  <2>1. /\ pc'[e] = "cycle" /\ local'[e].winner = None
        /\ local'[e].view = cycles /\ local'[e].number = 1 /\ local'[e].previous = Base
    BY <1>p, <1>2 DEF Load, Goto, GridOK, Locals
  <2>2. PICK view : view = cycles
    OBVIOUS
  <2>3. /\ view \in [Cycles -> CycleRows]
        /\ \A c \in Cycles : RowOK(view[c], c)'
    BY <2>2, ViewKept DEF IInv, CyclesOK
  <2>4. LoopOK(e)'
    BY <2>1, <2>2, <2>3 DEF LoopOK, Holding, Choosing, Refitting, Earlier
  <2> QED
    BY <2>1, <2>4 DEF ExecutorOK, GridOK, StageOK, Holding, Choosing, Refitting
<1>3. CASE PassCompleted(e)
  <2>1. CASE Raise(e)
    BY <1>i, <2>1
  <2>2. CASE ~ Raise(e)
    <3>1. /\ pc[e] = "cycle" /\ pc' = pc /\ ~ Ends(e) /\ View(e).selected # None
          /\ local' = [local EXCEPT ![e].previous = View(e).selected, ![e].number = @ + 1]
      BY <2>2, <1>3 DEF PassCompleted
    <3>2. /\ local'[e].view = local[e].view /\ local'[e].number = local[e].number + 1
          /\ local'[e].previous = View(e).selected /\ local'[e].winner = local[e].winner
      BY <1>p, <3>1 DEF Locals
    <3>3. PICK view, n : view = local[e].view /\ n = local[e].number
      OBVIOUS
    <3>4. /\ n \in Cycles /\ view \in [Cycles -> CycleRows] /\ local[e].winner = None
          /\ \A c \in Cycles : RowOK(view[c], c)
      BY <1>p, <3>1, <3>3 DEF Ends, LoopOK, GridOK
    <3>5. \A c \in Cycles : RowOK(view[c], c)'
      BY <3>4, ViewKept
    <3>6. View(e).selected \in Candidates(n) /\ View(e).selected \in DOMAIN runs
      BY <3>1, <3>3, <3>4 DEF RowOK, View
    <3>7. View(e).selected \in Earlier(n + 1) /\ View(e).selected \in DOMAIN runs'
      <4>1. View(e).selected \in Stages /\ View(e).selected[1] = n /\ View(e).selected[2] = "candidate"
        BY <3>4, <3>6, Kinds
      <4>2. n < n + 1
        BY <3>4, Names
      <4> QED
        BY <3>6, <4>1, <4>2 DEF Earlier, KeptRuns
    <3>8. n + 1 \in Nat \ {0}
      BY <3>4, Names
    <3>9. LoopOK(e)'
      BY <3>1, <3>2, <3>3, <3>4, <3>5, <3>7, <3>8 DEF LoopOK, Holding, Choosing, Refitting
    <3> QED
      BY <3>1, <3>2, <3>4, <3>9 DEF ExecutorOK, GridOK, StageOK, Holding, Choosing, Refitting
  <2> QED
    BY <2>1, <2>2
<1>4. CASE BeginCycle(e)
  <2>1. CASE pc'[e] = "raised"
    BY <2>1, IdleOK DEF Holding, Choosing, Refitting
  <2>2. CASE pc'[e] # "raised"
    <3>1. /\ pc[e] = "cycle" /\ ~ Ends(e)
          /\ local[e].number = 1 \/ Carries(local[e].previous)
          /\ local' = [local EXCEPT ![e].current = local[e].number, ![e].reference = View(e).reference,
                                    ![e].records = View(e).records]
          /\ pc'[e] = IF View(e).reference = None THEN "reference" ELSE "prefix"
      BY <1>p, <2>2, <1>4 DEF BeginCycle, Goto
    <3>2. /\ local'[e].view = local[e].view /\ local'[e].number = local[e].number
          /\ local'[e].previous = local[e].previous /\ local'[e].winner = local[e].winner
          /\ local'[e].reference = View(e).reference /\ local'[e].records = View(e).records
      BY <1>p, <3>1 DEF Locals
    <3>3. PICK view, n, previous :
             view = local[e].view /\ n = local[e].number /\ previous = local[e].previous
      OBVIOUS
    <3>4. /\ n \in Cycles /\ view \in [Cycles -> CycleRows] /\ local[e].winner = None
          /\ \A c \in Cycles : RowOK(view[c], c)
          /\ previous \in Earlier(n) /\ previous \in {Base} \cup DOMAIN runs
          /\ n \in Nat \ {0}
      BY <1>p, <3>1, <3>3 DEF Ends, LoopOK, GridOK
    <3>5. \A c \in Cycles : RowOK(view[c], c)'
      BY <3>4, ViewKept
    <3>6. n = 1 \/ Carries(previous)'
      BY <3>1, <3>3, CarriesKept
    <3>7. pc'[e] \in {"reference", "prefix"}
      BY <3>1
    <3>8. LoopOK(e)'
      BY <3>2, <3>3, <3>4, <3>5, <3>6, <3>7 DEF LoopOK, Holding, Choosing, Refitting, KeptRuns
    <3>9. /\ View(e).records \in Seq(RecordsOf(n)) /\ Len(View(e).records) <= Options
          /\ View(e).reference \in {None} \cup DOMAIN evaluations
      BY <3>3, <3>4 DEF RowOK, View
    <3>10. GridOK(e)'
      BY <3>1, <3>2, <3>3, <3>4, <3>7, <3>9 DEF GridOK, Holding, Choosing, Refitting, KeptEvaluations
    <3> QED
      BY <3>7, <3>8, <3>10 DEF ExecutorOK, StageOK
  <2> QED
    BY <2>1, <2>2
<1>5. CASE FindEvaluation(e)
  <2>1. CASE Raise(e)
    BY <1>i, <2>1
  <2>2. CASE ~ Raise(e)
    <3> DEFINE t == Target(e)
               rows == Matching(t.checkpoint, t.scope, t.range)
               i == IF rows = {} THEN None ELSE CHOOSE k \in rows : TRUE
    <3>1. /\ pc[e] \in {"reference", "test"}
          /\ local' = [local EXCEPT ![e].found = i]
          /\ pc'[e] = IF rows = {}
                      THEN (IF pc[e] = "reference" THEN "measure_reference" ELSE "measure_test")
                      ELSE (IF pc[e] = "reference" THEN "set_reference" ELSE "set_test")
          /\ UNCHANGED <<data, lock, bounds>>
      BY <1>p, <2>2, <1>5 DEF FindEvaluation, Goto
    <3>2. rows # {} => i \in DOMAIN evaluations
      BY DEF Matching
    <3> HIDE DEF t, rows, i
    <3>3. /\ local'[e].view = local[e].view /\ local'[e].number = local[e].number
          /\ local'[e].previous = local[e].previous /\ local'[e].winner = local[e].winner
          /\ local'[e].reference = local[e].reference /\ local'[e].records = local[e].records
          /\ local'[e].found = i
      BY <1>p, <3>1 DEF Locals
    <3>4. \/ pc[e] = "reference" /\ pc'[e] \in {"measure_reference", "set_reference"}
          \/ pc[e] = "test" /\ pc'[e] \in {"measure_test", "set_test"}
      BY <3>1
    <3>5. pc'[e] \in {"set_reference", "set_test"} => i \in DOMAIN evaluations
      BY <3>1, <3>2
    <3>6. LoopOK(e)'
      BY <3>3, <3>4, LoopSame DEF Holding, Choosing, Refitting
    <3>7. GridOK(e)'
      BY <1>p, <3>3, <3>4, <3>5 DEF GridOK, Holding, Choosing, Refitting, KeptEvaluations
    <3>8. StageOK(e)'
      BY <1>p, <3>1, <3>3, <3>4 DEF StageOK, Stage, Completed, Carries, data
    <3> QED
      BY <3>6, <3>7, <3>8 DEF ExecutorOK
  <2> QED
    BY <2>1, <2>2
<1>6. CASE Measure(e)
  <2>1. /\ local' = [local EXCEPT ![e].found = Len(evaluations) + 1] /\ UNCHANGED runs
        /\ \/ pc[e] = "measure_reference" /\ pc'[e] = "set_reference"
           \/ pc[e] = "measure_test" /\ pc'[e] = "set_test"
    BY <1>p, <1>6 DEF Measure, Goto
  <2>2. Len(evaluations) + 1 \in DOMAIN evaluations'
    <3>1. PICK x : evaluations' = Append(evaluations, x)
      BY <1>6 DEF Measure, Measured
    <3>2. evaluations \in Seq(Evaluations)
      BY DEF IInv, EvaluationsOK
    <3>3. evaluations \in Seq(Evaluations \cup {x}) /\ Len(evaluations) \in Nat
      BY <3>2, LenProperties
    <3>4. DOMAIN evaluations' = 1 .. Len(evaluations) + 1
      BY <3>1, <3>3, AppendProperties, LenProperties
    <3> QED
      BY <3>3, <3>4
  <2>3. /\ local'[e].view = local[e].view /\ local'[e].number = local[e].number
        /\ local'[e].previous = local[e].previous /\ local'[e].winner = local[e].winner
        /\ local'[e].reference = local[e].reference /\ local'[e].records = local[e].records
        /\ local'[e].found = Len(evaluations) + 1
    BY <1>p, <2>1 DEF Locals
  <2>4. LoopOK(e)'
    BY <2>1, <2>3, LoopSame DEF Holding, Choosing, Refitting
  <2>5. GridOK(e)'
    BY <1>p, <2>1, <2>2, <2>3 DEF GridOK, Holding, Choosing, Refitting, KeptEvaluations
  <2>6. StageOK(e)'
    BY <1>p, <2>1, <2>3 DEF StageOK, Stage, Completed, Carries
  <2> QED
    BY <2>4, <2>5, <2>6 DEF ExecutorOK
<1>7. CASE SetReference(e)
  <2>1. /\ local' = [local EXCEPT ![e].reference = local[e].found]
        /\ pc[e] = "set_reference" /\ pc'[e] = "prefix"
    BY <1>p, <1>7 DEF SetReference, Goto
  <2>3. /\ local'[e].view = local[e].view /\ local'[e].number = local[e].number
        /\ local'[e].previous = local[e].previous /\ local'[e].winner = local[e].winner
        /\ local'[e].reference = local[e].found /\ local'[e].records = local[e].records
    BY <1>p, <2>1 DEF Locals
  <2>4. LoopOK(e)'
    BY <2>1, <2>3, LoopSame DEF Holding, Choosing, Refitting
  <2>5. GridOK(e)'
    BY <1>p, <2>1, <2>3 DEF GridOK, Holding, Choosing, Refitting, KeptEvaluations
  <2>6. StageOK(e)'
    BY <2>1 DEF StageOK
  <2> QED
    BY <2>4, <2>5, <2>6 DEF ExecutorOK
<1>8. CASE ResumePrefix(e)
  <2>1. CASE Raise(e)
    BY <1>i, <2>1
  <2>2. CASE ~ Raise(e)
    <3> DEFINE w == SelectCandidate(local[e].records, ReferenceScore(e))
    <3>1. /\ pc[e] = "prefix" /\ local' = [local EXCEPT ![e].winner = w]
          /\ pc'[e] = IF w = None THEN "grid" ELSE "refit"
      BY <1>p, <2>2, <1>8 DEF ResumePrefix, Goto
    <3>2. w \in {None} \cup RecordsOf(local[e].number)
      <4>1. local[e].records \in Seq(RecordsOf(local[e].number))
        BY <1>p, <3>1 DEF GridOK, Holding, Choosing
      <4> QED
        BY <4>1, Selected
    <3> HIDE DEF w
    <3>3. /\ local'[e].view = local[e].view /\ local'[e].number = local[e].number
          /\ local'[e].previous = local[e].previous /\ local'[e].winner = w
          /\ local'[e].reference = local[e].reference /\ local'[e].records = local[e].records
      BY <1>p, <3>1 DEF Locals
    <3>4. pc'[e] \in {"grid", "refit"} /\ (pc'[e] = "grid" <=> w = None)
      BY <3>1
    <3>6. LoopOK(e)'
      BY <3>1, <3>3, <3>4, LoopSame DEF Holding, Choosing, Refitting
    <3>7. GridOK(e)'
      BY <1>p, <3>1, <3>2, <3>3, <3>4 DEF GridOK, Holding, Choosing, Refitting, KeptEvaluations
    <3>8. StageOK(e)'
      BY <3>4 DEF StageOK
    <3> QED
      BY <3>6, <3>7, <3>8 DEF ExecutorOK
  <2> QED
    BY <2>1, <2>2
<1>9. CASE FindStage(e)
  <2>1. CASE Raise(e)
    BY <1>i, <2>1
  <2>2. CASE ~ Raise(e)
    <3>1. /\ \/ pc[e] = "grid" /\ Len(local[e].records) < Options
             \/ pc[e] = "refit" /\ Carries(Source(e))
          /\ UNCHANGED <<data, lock, local, bounds>>
          /\ \/ pc'[e] = "create"
             \/ pc'[e] = "record" /\ pc[e] = "grid" /\ Completed(Stage(e))
             \/ pc'[e] = "set_refit" /\ pc[e] = "refit" /\ Completed(Stage(e))
      BY <1>p, <2>2, <1>9 DEF FindStage, Goto, Completed
    <3>3. local' = local /\ runs' = runs /\ evaluations' = evaluations
      BY <3>1 DEF data
    <3>4. pc[e] = "refit" => Source(e) = local[e].winner.checkpoint
      BY <1>p DEF GridOK, Source, Refitting
    <3>6. LoopOK(e)'
      BY <3>1, <3>3, LoopSame DEF Holding, Choosing, Refitting
    <3>7. GridOK(e)'
      BY <1>p, <3>1, <3>3 DEF GridOK, Holding, Choosing, Refitting
    <3>s. Stage(e)' = Stage(e)
      BY <3>3 DEF Stage
    <3>c. Completed(Stage(e))' <=> Completed(Stage(e))
      BY <3>3, <3>s DEF Completed
    <3>w. Carries(local[e].winner.checkpoint)' <=> Carries(local[e].winner.checkpoint)
      BY <3>3 DEF Carries
    <3>8. StageOK(e)'
      <4>1. pc[e] = "grid" => local[e].winner = None
        BY <1>p DEF GridOK, Choosing
      <4>2. pc[e] = "refit" => Carries(local[e].winner.checkpoint)
        BY <3>1, <3>4
      <4> QED
        BY <3>1, <3>3, <3>c, <3>w, <4>1, <4>2 DEF StageOK
    <3> QED
      BY <3>6, <3>7, <3>8 DEF ExecutorOK
  <2> QED
    BY <2>1, <2>2
<1>10. CASE CreateStage(e)
  <2>1. CASE Raise(e)
    BY <1>i, <2>1
  <2>2. CASE ~ Raise(e)
    <3>1. /\ pc[e] = "create" /\ pc'[e] = "training" /\ local' = local /\ evaluations' = evaluations
          /\ runs' = [s \in DOMAIN runs \cup {Stage(e)} |->
                        IF s = Stage(e) THEN [status |-> "running", source |-> Source(e)]
                        ELSE runs[s]]
      BY <1>p, <2>2, <1>10 DEF CreateStage, Goto
    <3>6. LoopOK(e)'
      BY <3>1, LoopSame DEF Holding, Choosing, Refitting
    <3>7. GridOK(e)'
      BY <1>p, <3>1 DEF GridOK, Holding, Choosing, Refitting
    <3>s. Stage(e)' = Stage(e)
      BY <3>1 DEF Stage
    <3>r. Stage(e) \in DOMAIN runs' /\ runs'[Stage(e)].status = "running"
      BY <3>1
    <3>w. local[e].winner # None => Carries(local[e].winner.checkpoint)'
      <4>1. PICK t : t = local[e].winner.checkpoint
        OBVIOUS
      <4>2. t = (local[e].winner.checkpoint)'
        BY <3>1, <4>1
      <4>3. local[e].winner # None => Carries(t)'
        BY <1>p, <3>1, <4>1, CarriesKept DEF StageOK
      <4> QED
        BY <4>2, <4>3
    <3>8. StageOK(e)'
      BY <3>1, <3>s, <3>r, <3>w DEF StageOK
    <3> QED
      BY <3>6, <3>7, <3>8 DEF ExecutorOK
  <2> QED
    BY <2>1, <2>2
<1>11. CASE TrainingCompletes(e)
  <2>1. /\ pc[e] = "training" /\ local' = local
        /\ runs' = [runs EXCEPT ![Stage(e)].status = "completed"]
        /\ pc'[e] = IF local[e].winner = None THEN "record" ELSE "set_refit"
    BY <1>p, <1>11 DEF TrainingCompletes, Goto
  <2>2. Stage(e) \in DOMAIN runs /\ local[e].winner = None => Len(local[e].records) < Options
    BY <1>p, <2>1 DEF StageOK, GridOK
  <2>t. Stage(e) \in DOMAIN runs /\ runs[Stage(e)] \in RunRows
    BY <1>p, <2>1 DEF StageOK, IInv, RunsOK, RunRows
  <2>3. pc'[e] \in {"record", "set_refit"} /\ (pc'[e] = "record" <=> local[e].winner = None)
    BY <2>1
  <2>6. LoopOK(e)'
    BY <2>1, <2>3, LoopSame DEF Holding, Choosing, Refitting
  <2>7. GridOK(e)'
    BY <1>p, <2>1, <2>3 DEF GridOK, Holding, Choosing, Refitting, KeptEvaluations
  <2>s. Stage(e)' = Stage(e)
    BY <2>1 DEF Stage
  <2>r. Stage(e) \in DOMAIN runs' /\ runs'[Stage(e)].status = "completed"
    BY <2>1, <2>t DEF RunRows
  <2>c. Completed(Stage(e))'
    BY <2>s, <2>r DEF Completed
  <2>w. local[e].winner # None => Carries(local[e].winner.checkpoint)'
    <3>1. PICK t : t = local[e].winner.checkpoint
      OBVIOUS
    <3>2. t = (local[e].winner.checkpoint)'
      BY <2>1, <3>1
    <3>3. local[e].winner # None => Carries(t)'
      BY <1>p, <2>1, <3>1, CarriesKept DEF StageOK
    <3> QED
      BY <3>2, <3>3
  <2>8. StageOK(e)'
    BY <2>1, <2>3, <2>c, <2>w DEF StageOK
  <2> QED
    BY <2>6, <2>7, <2>8 DEF ExecutorOK
<1>12. CASE RecordCandidate(e)
  <2>1. CASE Raise(e)
    BY <1>i, <2>1
  <2>2. CASE ~ Raise(e)
    <3>1. PICK r : LET wins == Improves(r, ReferenceScore(e)) IN
                /\ NewRecord(e, r)
                /\ local' = [local EXCEPT ![e].records = Append(@, r),
                                          ![e].winner = IF wins THEN r ELSE None]
                /\ Goto(e, IF wins THEN "refit" ELSE "grid")
      BY <2>2, <1>12, Recorded
    <3>0. pc[e] = "record"
      BY <1>12 DEF RecordCandidate
    <3> DEFINE n == local[e].number
               w == IF Improves(r, ReferenceScore(e)) THEN r ELSE None
    <3>2. /\ local' = [local EXCEPT ![e].records = Append(@, r), ![e].winner = w]
          /\ pc'[e] = IF w = None THEN "grid" ELSE "refit"
          /\ r \in RecordsOf(n) /\ w \in {None, r}
      <4>1. r \in RecordsOf(n) /\ r # None
        BY <3>1, Names DEF NewRecord, RecordsOf
      <4> QED
        BY <1>p, <3>1, <4>1 DEF Goto
    <3> HIDE DEF w
    <3>3. /\ local'[e].view = local[e].view /\ local'[e].number = local[e].number
          /\ local'[e].previous = local[e].previous /\ local'[e].winner = w
          /\ local'[e].reference = local[e].reference
          /\ local'[e].records = Append(local[e].records, r)
      BY <1>p, <3>2 DEF Locals
    <3>4. pc'[e] \in {"grid", "refit"} /\ (pc'[e] = "grid" <=> w = None)
      BY <3>2
    <3>5. Append(local[e].records, r) \in Seq(RecordsOf(n)) /\ Len(Append(local[e].records, r)) <= Options
      <4>1. local[e].records \in Seq(RecordsOf(n)) /\ Len(local[e].records) < Options
        BY <1>p, <3>0 DEF GridOK, Holding, Choosing
      <4> QED
        BY <3>2, <4>1, AppendProperties, LenProperties, Names
    <3>6. LoopOK(e)'
      BY <3>0, <3>3, <3>4, LoopSame DEF Holding, Choosing, Refitting
    <3>7. GridOK(e)'
      BY <1>p, <3>0, <3>2, <3>3, <3>4, <3>5 DEF GridOK, Holding, Choosing, Refitting, KeptEvaluations
    <3>8. StageOK(e)'
      BY <3>4 DEF StageOK
    <3> QED
      BY <3>6, <3>7, <3>8 DEF ExecutorOK
  <2> QED
    BY <2>1, <2>2
<1>13. CASE StopCycle(e)
  <2>1. pc[e] = "grid" /\ pc'[e] = "stop_study" /\ local' = local
    BY <1>p, <1>13 DEF StopCycle, Goto
  <2>6. LoopOK(e)'
    BY <2>1, LoopSame DEF Holding, Choosing, Refitting
  <2>7. GridOK(e)'
    BY <1>p, <2>1 DEF GridOK, Holding, Choosing, Refitting, KeptEvaluations
  <2>8. StageOK(e)'
    BY <2>1 DEF StageOK
  <2> QED
    BY <2>6, <2>7, <2>8 DEF ExecutorOK
<1>14. CASE StopStudy(e)
  <2>1. pc'[e] \notin Holding \cup {"open", "load", "cycle"}
    BY <1>p, <1>14 DEF StopStudy, Goto, Holding, Choosing, Refitting
  <2> QED
    BY <2>1, IdleOK
<1>15. CASE SetRefit(e)
  <2>1. pc[e] = "set_refit" /\ pc'[e] = "test" /\ local' = local /\ runs' = runs
    BY <1>p, <1>15 DEF SetRefit, Goto
  <2>6. LoopOK(e)'
    BY <2>1, LoopSame DEF Holding, Choosing, Refitting
  <2>7. GridOK(e)'
    BY <1>p, <2>1 DEF GridOK, Holding, Choosing, Refitting, KeptEvaluations
  <2>8. StageOK(e)'
    BY <1>p, <2>1 DEF StageOK, Stage, Completed, Carries
  <2> QED
    BY <2>6, <2>7, <2>8 DEF ExecutorOK
<1>16. CASE SetTest(e)
  <2>1. /\ pc[e] = "set_test" /\ pc'[e] = "tested" /\ runs' = runs
        /\ local' = [local EXCEPT ![e].previous = local[e].winner.checkpoint]
    BY <1>p, <1>16 DEF SetTest, Goto
  <2>3. /\ local'[e].view = local[e].view /\ local'[e].number = local[e].number
        /\ local'[e].previous = local[e].winner.checkpoint /\ local'[e].winner = local[e].winner
        /\ local'[e].reference = local[e].reference /\ local'[e].records = local[e].records
    BY <1>p, <2>1 DEF Locals
  <2>4. /\ local[e].winner # None /\ Carries(local[e].winner.checkpoint)
        /\ pc[e] \in Holding \ {"tested"}
    BY <1>p, <2>1 DEF GridOK, StageOK, Holding, Refitting
  <2>5. /\ local[e].winner.checkpoint \in Candidates(local[e].number)
        /\ local[e].winner.checkpoint \in DOMAIN runs
    BY <2>4, StageShape DEF Carries
  <2>6. LoopOK(e)'
    <3>1. PICK view, n : view = local[e].view /\ n = local[e].number
      OBVIOUS
    <3>2. /\ n \in Cycles /\ n \in Nat \ {0} /\ view \in [Cycles -> CycleRows]
          /\ \A c \in Cycles : RowOK(view[c], c)
      BY <1>p, <2>4, <3>1 DEF LoopOK
    <3>3. \A c \in Cycles : RowOK(view[c], c)'
      BY <3>2, ViewKept
    <3> QED
      BY <2>1, <2>3, <2>5, <3>1, <3>2, <3>3 DEF LoopOK, Holding
  <2>7. GridOK(e)'
    BY <1>p, <2>1, <2>3, <2>4 DEF GridOK, Holding, Choosing, Refitting, KeptEvaluations
  <2>8. StageOK(e)'
    BY <1>p, <2>1, <2>3 DEF StageOK, Stage, Completed, Carries
  <2> QED
    BY <2>6, <2>7, <2>8 DEF ExecutorOK
<1>17. CASE CloseCycle(e)
  <2>1. /\ pc[e] = "tested" /\ pc'[e] = "cycle" /\ runs' = runs
    BY <1>p, <1>17 DEF CloseCycle, Goto, data
  <2>3. /\ local'[e].view = local[e].view /\ local'[e].number = local[e].number + 1
        /\ local'[e].previous = local[e].previous /\ local'[e].winner = None
    BY <1>p, <1>17 DEF CloseCycle, Locals
  <2>6. LoopOK(e)'
    <3>1. PICK view, n, previous :
             view = local[e].view /\ n = local[e].number /\ previous = local[e].previous
      OBVIOUS
    <3>2. /\ n \in Cycles /\ n \in Nat \ {0} /\ view \in [Cycles -> CycleRows]
          /\ \A c \in Cycles : RowOK(view[c], c)
          /\ previous \in Candidates(n) /\ previous \in DOMAIN runs
      BY <1>p, <2>1, <3>1 DEF LoopOK, Holding
    <3>3. \A c \in Cycles : RowOK(view[c], c)'
      BY <3>2, ViewKept
    <3>4. previous \in Earlier(n + 1)
      <4>1. previous \in Stages /\ previous[1] = n /\ previous[2] = "candidate"
        BY <3>2, Kinds
      <4> QED
        BY <3>2, <4>1 DEF Earlier
    <3> QED
      BY <2>1, <2>3, <3>1, <3>2, <3>3, <3>4 DEF LoopOK, Holding, Choosing, Refitting
  <2>7. GridOK(e)'
    BY <2>1, <2>3 DEF GridOK, Holding, Choosing, Refitting
  <2>8. StageOK(e)'
    BY <2>1 DEF StageOK
  <2> QED
    BY <2>6, <2>7, <2>8 DEF ExecutorOK
<1>18. CASE Finish(e)
  <2>1. pc'[e] \notin Holding \cup {"open", "load", "cycle"}
    BY <1>p, <1>18 DEF Finish, Goto, Holding, Choosing, Refitting
  <2> QED
    BY <2>1, IdleOK
<1>19. CASE FailCycle(e)
  <2>1. pc'[e] \notin Holding \cup {"open", "load", "cycle"}
    BY <1>p, <1>19 DEF FailCycle, Goto, Holding, Choosing, Refitting
  <2> QED
    BY <2>1, IdleOK
<1>20. CASE FailStudy(e)
  <2>1. pc'[e] \notin Holding \cup {"open", "load", "cycle"}
    BY <1>p, <1>20 DEF FailStudy, Goto, Holding, Choosing, Refitting
  <2> QED
    BY <2>1, IdleOK
<1>21. CASE Leave(e)
  <2>1. pc'[e] \notin Holding \cup {"open", "load", "cycle"}
    BY <1>p, <1>21 DEF Leave, Goto, Holding, Choosing, Refitting
  <2> QED
    BY <2>1, IdleOK
<1>22. ASSUME NEW max \in Cycles, Acquire(e, max) PROVE ExecutorOK(e)'
  <2>1. pc'[e] = "open" /\ local'[e].winner = None
    BY <1>p, <1>22 DEF Acquire, Goto, NoLocal
  <2> QED
    BY <2>1 DEF ExecutorOK, LoopOK, GridOK, StageOK, Holding, Choosing, Refitting
<1>23. CASE Interrupt(e)
  <2>1. pc'[e] \notin Holding \cup {"open", "load", "cycle"}
    BY <1>p, <1>23 DEF Interrupt, Goto, Holding, Choosing, Refitting
  <2> QED
    BY <2>1, IdleOK
<1>24. CASE Kill(e)
  <2>1. pc'[e] \notin Holding \cup {"open", "load", "cycle"}
    BY <1>p, <1>24 DEF Kill, Goto, Holding, Choosing, Refitting
  <2> QED
    BY <2>1, IdleOK
<1> QED
  BY <1>1, <1>2, <1>3, <1>4, <1>5, <1>6, <1>7, <1>8, <1>9, <1>10, <1>11, <1>12, <1>13, <1>14,
     <1>15, <1>16, <1>17, <1>18, <1>19, <1>20, <1>21, <1>22, <1>23, <1>24 DEF Step

\* Every step leaves every executor in order.
LEMMA ExecutorsStep == IInv /\ [Next]_vars => ExecutorsOK'
<1> SUFFICES ASSUME IInv, [Next]_vars, NEW f \in Executors PROVE ExecutorOK(f)'
  BY DEF ExecutorsOK, ExecutorOK
<1>k. KeptRuns /\ KeptEvaluations
  BY RunsStep, EvaluationsStep
<1>t. pc[f] = "training" => Stage(f) \in DOMAIN runs /\ runs[Stage(f)].status = "running"
  BY DEF IInv, ExecutorsOK, StageOK
<1>1. ASSUME NEW e \in Executors,
             (\E max \in Cycles : Acquire(e, max)) \/ Step(e) \/ Interrupt(e) \/ Kill(e)
      PROVE  ExecutorOK(f)'
  <2>1. CASE f = e
    BY <1>k, <1>1, <2>1, OwnStep
  <2>2. CASE f # e
    <3>1. Untouched(f)
      BY <1>1, <2>2, OthersStep
    <3> QED
      BY <1>k, <3>1, OthersKept
  <2> QED
    BY <2>1, <2>2
<1>2. ASSUME UNCHANGED <<pc, local, runs>> PROVE ExecutorOK(f)'
  <2>1. Untouched(f)
    BY <1>t, <1>2 DEF Untouched
  <2> QED
    BY <1>k, <2>1, OthersKept
<1>3. CASE LoseLock
  BY <1>2, <1>3 DEF LoseLock, data
<1>4. CASE EvaluateByHand
  BY <1>2, <1>4 DEF EvaluateByHand
<1>5. CASE UNCHANGED vars
  BY <1>2, <1>5 DEF vars
<1> QED
  BY <1>1, <1>3, <1>4, <1>5 DEF Next, Refuse

\* Two executors never train one stage run: a run is inserted once.
LEMMA TrainersStep == IInv /\ [Next]_vars => TrainersApart'
<1> SUFFICES ASSUME IInv, [Next]_vars, NEW e \in Executors, NEW f \in Executors,
                    pc'[e] = "training", pc'[f] = "training", (Stage(e) = Stage(f))', e # f
             PROVE  FALSE
  BY DEF TrainersApart
<1>p. pc \in [Executors -> Labels] /\ local \in [Executors -> Locals]
  BY DEF IInv, ControlOK, LocalsOK
<1>t. \A g \in Executors : pc[g] = "training" => Stage(g) \in DOMAIN runs
  BY DEF IInv, ExecutorsOK, StageOK
<1>a. ~ (pc[e] = "training" /\ pc[f] = "training" /\ Stage(e) = Stage(f))
  BY DEF IInv, TrainersApart
<1>s. \A g \in Executors : local'[g] = local[g] => Stage(g)' = Stage(g)
  BY DEF Stage
\* What a step leaves of an executor in training, or how it came there.
<1>b. ASSUME NEW g \in Executors, pc'[g] = "training"
      PROVE  /\ local'[g] = local[g]
             /\ pc[g] = "training" \/ (CreateStage(g) /\ Stage(g) \notin DOMAIN runs)
  <2> DEFINE Came == /\ local'[g] = local[g]
                     /\ pc[g] = "training" \/ (CreateStage(g) /\ Stage(g) \notin DOMAIN runs)
  <2> SUFFICES Came
    OBVIOUS
  <2>1. ASSUME NEW h \in Executors, OpenStudy(h) PROVE Came
    BY <1>b, <1>p, <2>1 DEF OpenStudy, Goto, vars, data
  <2>2. ASSUME NEW h \in Executors, Load(h) PROVE Came
    BY <1>b, <1>p, <2>2 DEF Load, Goto, vars, data
  <2>3. ASSUME NEW h \in Executors, PassCompleted(h) PROVE Came
    BY <1>b, <1>p, <2>3 DEF PassCompleted, Raise, Goto, vars, data
  <2>4. ASSUME NEW h \in Executors, BeginCycle(h) PROVE Came
    BY <1>b, <1>p, <2>4 DEF BeginCycle, Ends, View, Goto, vars, data
  <2>5. ASSUME NEW h \in Executors, FindEvaluation(h) PROVE Came
    BY <1>b, <1>p, <2>5 DEF FindEvaluation, Raise, Goto, vars, data
  <2>6. ASSUME NEW h \in Executors, Measure(h) PROVE Came
    BY <1>b, <1>p, <2>6 DEF Measure, Goto, vars, data
  <2>7. ASSUME NEW h \in Executors, SetReference(h) PROVE Came
    BY <1>b, <1>p, <2>7 DEF SetReference, Goto, vars, data
  <2>8. ASSUME NEW h \in Executors, ResumePrefix(h) PROVE Came
    BY <1>b, <1>p, <2>8 DEF ResumePrefix, Raise, Goto, vars, data
  <2>9. ASSUME NEW h \in Executors, FindStage(h) PROVE Came
    BY <1>b, <1>p, <2>9 DEF FindStage, Raise, Goto, vars, data
  <2>10. ASSUME NEW h \in Executors, CreateStage(h) PROVE Came
    BY <1>b, <1>p, <2>10 DEF CreateStage, Raise, Goto, vars, data
  <2>11. ASSUME NEW h \in Executors, TrainingCompletes(h) PROVE Came
    BY <1>b, <1>p, <2>11 DEF TrainingCompletes, Goto, vars, data
  <2>12. ASSUME NEW h \in Executors, RecordCandidate(h) PROVE Came
    BY <1>b, <1>p, <2>12 DEF RecordCandidate, Raise, Goto, vars, data
  <2>13. ASSUME NEW h \in Executors, StopCycle(h) PROVE Came
    BY <1>b, <1>p, <2>13 DEF StopCycle, Goto, vars, data
  <2>14. ASSUME NEW h \in Executors, StopStudy(h) PROVE Came
    BY <1>b, <1>p, <2>14 DEF StopStudy, Goto, vars, data
  <2>15. ASSUME NEW h \in Executors, SetRefit(h) PROVE Came
    BY <1>b, <1>p, <2>15 DEF SetRefit, Goto, vars, data
  <2>16. ASSUME NEW h \in Executors, SetTest(h) PROVE Came
    BY <1>b, <1>p, <2>16 DEF SetTest, Goto, vars, data
  <2>17. ASSUME NEW h \in Executors, CloseCycle(h) PROVE Came
    BY <1>b, <1>p, <2>17 DEF CloseCycle, Goto, vars, data
  <2>18. ASSUME NEW h \in Executors, Finish(h) PROVE Came
    BY <1>b, <1>p, <2>18 DEF Finish, Ends, Goto, vars, data
  <2>19. ASSUME NEW h \in Executors, FailCycle(h) PROVE Came
    BY <1>b, <1>p, <2>19 DEF FailCycle, Goto, vars, data
  <2>20. ASSUME NEW h \in Executors, FailStudy(h) PROVE Came
    BY <1>b, <1>p, <2>20 DEF FailStudy, Goto, vars, data
  <2>21. ASSUME NEW h \in Executors, Leave(h) PROVE Came
    BY <1>b, <1>p, <2>21 DEF Leave, Unlock, Goto, vars, data
  <2>22. ASSUME NEW h \in Executors, NEW max \in Cycles, Acquire(h, max) PROVE Came
    BY <1>b, <1>p, <2>22 DEF Acquire, Goto, vars, data
  <2>23. ASSUME NEW h \in Executors, Interrupt(h) PROVE Came
    BY <1>b, <1>p, <2>23 DEF Interrupt, Fault, Goto, vars, data
  <2>24. ASSUME NEW h \in Executors, Kill(h) PROVE Came
    BY <1>b, <1>p, <2>24 DEF Kill, Fault, Unlock, Goto, vars, data
  <2>25. CASE LoseLock
    BY <1>b, <1>p, <2>25 DEF LoseLock, Fault, Goto, vars, data
  <2>26. CASE EvaluateByHand
    BY <1>b, <1>p, <2>26 DEF EvaluateByHand, Fault, Goto, vars, data
  <2>27. CASE UNCHANGED vars
    BY <1>b, <1>p, <2>27 DEF vars, Goto, vars, data
  <2> QED
    BY <2>1, <2>2, <2>3, <2>4, <2>5, <2>6, <2>7, <2>8, <2>9, <2>10, <2>11, <2>12, <2>13, <2>14,
       <2>15, <2>16, <2>17, <2>18, <2>19, <2>20, <2>21, <2>22, <2>23, <2>24, <2>25, <2>26,
       <2>27 DEF Next, Step, Refuse
<1>c. \A g \in Executors : CreateStage(g) => \A h \in Executors : h # g => pc'[h] = pc[h]
  BY <1>p DEF CreateStage, Raise, Goto
<1>d. (local'[e] = local[e] /\ local'[f] = local[f]) /\ Stage(e) = Stage(f)
  BY <1>b, <1>s
<1>1. CASE pc[e] = "training"
  <2>1. CreateStage(f) /\ Stage(f) \notin DOMAIN runs
    BY <1>1, <1>a, <1>b, <1>d
  <2> QED
    BY <1>1, <1>d, <1>t, <2>1
<1>2. CASE pc[e] # "training"
  <2>1. CreateStage(e) /\ Stage(e) \notin DOMAIN runs
    BY <1>2, <1>b
  <2>2. pc[f] = "training"
    BY <1>c, <2>1
  <2> QED
    BY <1>d, <1>t, <2>1, <2>2
<1> QED
  BY <1>1, <1>2

\* Nothing is trained or measured before the source is accepted.
LEMMA SourceStep == IInv /\ [Next]_vars => SourceOK'
<1> SUFFICES ASSUME IInv, [Next]_vars PROVE SourceOK'
  OBVIOUS
<1> USE DEF SourceOK, SourceAccepted, PlanAccepted, Goto
<1>i. SourceOK /\ pc \in [Executors -> Labels]
  BY DEF IInv, ControlOK
<1>1. ASSUME NEW e \in Executors, OpenStudy(e) PROVE SourceOK'
  <2>1. pc[e] # "off" /\ ancestry' = ancestry
    BY <1>1 DEF OpenStudy, data
  <2> QED
    BY <1>i, <2>1
<1>2. ASSUME NEW e \in Executors, Load(e) PROVE SourceOK'
  <2>1. pc[e] # "off" /\ ancestry' = ancestry
    BY <1>2 DEF Load, data
  <2> QED
    BY <1>i, <2>1
<1>3. ASSUME NEW e \in Executors, PassCompleted(e) PROVE SourceOK'
  <2>1. pc[e] # "off" /\ ancestry' = ancestry
    BY <1>3 DEF PassCompleted, Raise, data
  <2> QED
    BY <1>i, <2>1
<1>4. ASSUME NEW e \in Executors, BeginCycle(e) PROVE SourceOK'
  <2>1. pc[e] # "off" /\ ancestry' = ancestry
    BY <1>4 DEF BeginCycle, Ends, View, data
  <2> QED
    BY <1>i, <2>1
<1>5. ASSUME NEW e \in Executors, FindEvaluation(e) PROVE SourceOK'
  <2>1. pc[e] # "off" /\ ancestry' = ancestry
    BY <1>5 DEF FindEvaluation, Raise, data
  <2> QED
    BY <1>i, <2>1
<1>6. ASSUME NEW e \in Executors, Measure(e) PROVE SourceOK'
  <2>1. pc[e] # "off" /\ ancestry' = ancestry
    BY <1>6 DEF Measure, data
  <2> QED
    BY <1>i, <2>1
<1>7. ASSUME NEW e \in Executors, SetReference(e) PROVE SourceOK'
  <2>1. pc[e] # "off" /\ ancestry' = ancestry
    BY <1>7 DEF SetReference, data
  <2> QED
    BY <1>i, <2>1
<1>8. ASSUME NEW e \in Executors, ResumePrefix(e) PROVE SourceOK'
  <2>1. pc[e] # "off" /\ ancestry' = ancestry
    BY <1>8 DEF ResumePrefix, Raise, data
  <2> QED
    BY <1>i, <2>1
<1>9. ASSUME NEW e \in Executors, FindStage(e) PROVE SourceOK'
  <2>1. pc[e] # "off" /\ ancestry' = ancestry
    BY <1>9 DEF FindStage, Raise, data
  <2> QED
    BY <1>i, <2>1
<1>10. ASSUME NEW e \in Executors, CreateStage(e) PROVE SourceOK'
  <2>1. pc[e] # "off" /\ ancestry' = ancestry
    BY <1>10 DEF CreateStage, Raise, data
  <2> QED
    BY <1>i, <2>1
<1>11. ASSUME NEW e \in Executors, TrainingCompletes(e) PROVE SourceOK'
  <2>1. pc[e] # "off" /\ ancestry' = ancestry
    BY <1>11 DEF TrainingCompletes, data
  <2> QED
    BY <1>i, <2>1
<1>12. ASSUME NEW e \in Executors, RecordCandidate(e) PROVE SourceOK'
  <2>1. pc[e] # "off" /\ ancestry' = ancestry
    BY <1>12 DEF RecordCandidate, Raise, data
  <2> QED
    BY <1>i, <2>1
<1>13. ASSUME NEW e \in Executors, StopCycle(e) PROVE SourceOK'
  <2>1. pc[e] # "off" /\ ancestry' = ancestry
    BY <1>13 DEF StopCycle, data
  <2> QED
    BY <1>i, <2>1
<1>14. ASSUME NEW e \in Executors, StopStudy(e) PROVE SourceOK'
  <2>1. pc[e] # "off" /\ ancestry' = ancestry
    BY <1>14 DEF StopStudy, data
  <2> QED
    BY <1>i, <2>1
<1>15. ASSUME NEW e \in Executors, SetRefit(e) PROVE SourceOK'
  <2>1. pc[e] # "off" /\ ancestry' = ancestry
    BY <1>15 DEF SetRefit, data
  <2> QED
    BY <1>i, <2>1
<1>16. ASSUME NEW e \in Executors, SetTest(e) PROVE SourceOK'
  <2>1. pc[e] # "off" /\ ancestry' = ancestry
    BY <1>16 DEF SetTest, data
  <2> QED
    BY <1>i, <2>1
<1>17. ASSUME NEW e \in Executors, CloseCycle(e) PROVE SourceOK'
  <2>1. pc[e] # "off" /\ ancestry' = ancestry
    BY <1>17 DEF CloseCycle, data
  <2> QED
    BY <1>i, <2>1
<1>18. ASSUME NEW e \in Executors, Finish(e) PROVE SourceOK'
  <2>1. pc[e] # "off" /\ ancestry' = ancestry
    BY <1>18 DEF Finish, Ends, data
  <2> QED
    BY <1>i, <2>1
<1>19. ASSUME NEW e \in Executors, FailCycle(e) PROVE SourceOK'
  <2>1. pc[e] # "off" /\ ancestry' = ancestry
    BY <1>19 DEF FailCycle, data
  <2> QED
    BY <1>i, <2>1
<1>20. ASSUME NEW e \in Executors, FailStudy(e) PROVE SourceOK'
  <2>1. pc[e] # "off" /\ ancestry' = ancestry
    BY <1>20 DEF FailStudy, data
  <2> QED
    BY <1>i, <2>1
<1>21. ASSUME NEW e \in Executors, Leave(e) PROVE SourceOK'
  <2>1. pc[e] # "off" /\ ancestry' = ancestry
    BY <1>21 DEF Leave, Unlock, data
  <2> QED
    BY <1>i, <2>1
<1>22. ASSUME NEW e \in Executors, NEW max \in Cycles, Acquire(e, max) PROVE SourceOK'
  <2>1. SourceAccepted /\ PlanAccepted /\ ancestry' = ancestry
    BY <1>22 DEF Acquire, data
  <2> QED
    BY <2>1
<1>23. ASSUME NEW e \in Executors, Interrupt(e) PROVE SourceOK'
  <2>1. pc[e] # "off" /\ ancestry' = ancestry
    BY <1>23 DEF Interrupt, Fault, Outside, data
  <2> QED
    BY <1>i, <2>1
<1>24. ASSUME NEW e \in Executors, Kill(e) PROVE SourceOK'
  <2>1. pc[e] # "off" /\ ancestry' = ancestry
    BY <1>24 DEF Kill, Fault, Unlock, data
  <2> QED
    BY <1>i, <2>1
<1>25. CASE LoseLock
  BY <1>25, <1>i DEF LoseLock, Fault, vars, data
<1>26. CASE EvaluateByHand
  <2>1. SourceAccepted /\ PlanAccepted /\ ancestry' = ancestry
    BY <1>i, <1>26 DEF EvaluateByHand
  <2> QED
    BY <2>1
<1>27. CASE UNCHANGED vars
  BY <1>27, <1>i DEF vars, vars, data
<1> QED
  BY <1>1, <1>2, <1>3, <1>4, <1>5, <1>6, <1>7, <1>8, <1>9, <1>10, <1>11, <1>12, <1>13, <1>14,
     <1>15, <1>16, <1>17, <1>18, <1>19, <1>20, <1>21, <1>22, <1>23, <1>24, <1>25, <1>26,
     <1>27 DEF Next, Step, Refuse

\* A study that is not yet there.
LEMMA InitInv == Init => IInv
<1> SUFFICES ASSUME Init PROVE IInv
  OBVIOUS
<1>1. ControlOK
  BY DEF Init, ControlOK, Labels
<1>2. LocalsOK
  <2>1. NoLocal \in Locals
    BY Names DEF NoLocal, Locals
  <2> QED
    BY <2>1 DEF Init, LocalsOK
<1>3. CyclesOK
  <2>1. PendingCycle \in CycleRows
    BY Names DEF PendingCycle, CycleRows, Statuses
  <2>2. ASSUME NEW c \in Cycles PROVE RowOK(PendingCycle, c)
    BY <2>1, Names DEF PendingCycle, RowOK
  <2> QED
    BY <2>1, <2>2 DEF Init, CyclesOK
<1>4. RunsOK /\ runs = <<>> /\ DOMAIN runs = {}
  BY DEF Init, RunsOK
<1>5. EvaluationsOK
  BY DEF Init, EvaluationsOK
<1>6. ExecutorsOK /\ TrainersApart
  BY DEF Init, ExecutorsOK, TrainersApart, LoopOK, GridOK, StageOK, Holding, Choosing, Refitting
<1>7. SourceOK
  BY <1>4 DEF Init, SourceOK
<1> QED
  BY <1>1, <1>2, <1>3, <1>4, <1>5, <1>6, <1>7 DEF IInv

\* The part of the inductive invariant that holds for any number of executors
\* in the study at once, lock or no lock.
THEOREM InductiveInvariant == Spec => []IInv
<1>1. IInv /\ [Next]_vars => IInv'
  <2> SUFFICES ASSUME IInv, [Next]_vars PROVE IInv'
    OBVIOUS
  <2>1. ControlOK' /\ LocalsOK' /\ CyclesOK'
    BY ControlStep, LocalsStep, CyclesStep DEF IInv
  <2>2. RunsOK' /\ EvaluationsOK' /\ ExecutorsOK'
    BY RunsStep, EvaluationsStep, ExecutorsStep
  <2>3. TrainersApart' /\ SourceOK'
    BY TrainersStep, SourceStep
  <2> QED
    BY <2>1, <2>2, <2>3 DEF IInv
<1> QED
  BY <1>1, InitInv, PTL DEF Spec

-----------------------------------------------------------------------------
(* Rows seen in training come before the rows scored *)

\* The checkpoints k generations back.
Generation(f, x, k) ==
    IF k = 0 THEN {x} ELSE f[k - 1] \cup Sources(f[k - 1])

Generations(f, x, m) == f = [k \in 0 .. m |-> Generation(f, x, k)]

\* Lineage's recursive definition is a proper one.
LEMMA GenerationsExist ==
    ASSUME NEW x, NEW m \in Nat
    PROVE  \E f : Generations(f, x, m)
<1> DEFINE Bad == {k \in Nat : ~ \E f : Generations(f, x, k)}
<1> SUFFICES ASSUME Bad # {} PROVE FALSE
  OBVIOUS
<1>1. PICK k \in Bad : \A y \in Bad : k <= y
  <2>1. Bad \in SUBSET Nat
    OBVIOUS
  <2> HIDE DEF Bad
  <2> QED
    BY <2>1, LeastNumber
<1>2. CASE k = 0
  <2>1. Generations([i \in 0 .. 0 |-> {x}], x, 0)
    BY DEF Generations, Generation
  <2> QED
    BY <1>1, <1>2, <2>1
<1>3. CASE k # 0
  <2>1. k \in Nat /\ k - 1 \in Nat /\ k - 1 \notin Bad
    BY <1>1, <1>3
  <2>2. PICK f : Generations(f, x, k - 1)
    BY <2>1
  <2> DEFINE g == [i \in 0 .. k |-> Generation(f, x, i)]
  <2>3. \A i \in 0 .. (k - 1) : f[i] = Generation(f, x, i)
    BY <2>2, Zenon DEF Generations
  <2>4. ASSUME NEW i \in 0 .. k, i # 0 PROVE g[i - 1] = f[i - 1]
    <3>1. i - 1 \in 0 .. (k - 1) /\ i - 1 \in 0 .. k
      BY <2>1, <2>4
    <3>2. f[i - 1] = Generation(f, x, i - 1)
      BY <2>3, <3>1
    <3> QED
      BY <3>1, <3>2
  <2>5. \A i \in 0 .. k : Generation(f, x, i) = Generation(g, x, i)
    <3> HIDE DEF g
    <3> QED
      BY <2>4 DEF Generation
  <2>6. g = [i \in 0 .. k |-> Generation(g, x, i)]
    BY <2>5
  <2> HIDE DEF g
  <2>7. Generations(g, x, k)
    BY <2>6 DEF Generations
  <2> QED
    BY <1>1, <2>7
<1> QED
  BY <1>2, <1>3

\* A set that holds a checkpoint and the source of each of its members holds
\* the lineage of the checkpoint.
LEMMA LineageWithin ==
    ASSUME NEW C, NEW x \in C, \A s \in C \cap DOMAIN runs : runs[s].source \in C,
           Cardinality(Cycles) \in Nat
    PROVE  Lineage(x) \subseteq C
<1> DEFINE f[k \in 0 .. Cardinality(Cycles) + 1] ==
               IF k = 0 THEN {x}
               ELSE f[k - 1] \cup Sources(f[k - 1])
<1>1. Lineage(x) = f[Cardinality(Cycles) + 1]
  BY Zenon DEF Lineage
<1>2. PICK m \in Nat : m = Cardinality(Cycles) + 1
  OBVIOUS
<1>3. \E g : Generations(g, x, Cardinality(Cycles) + 1)
  BY <1>2, GenerationsExist
<1>g. Generations(f, x, Cardinality(Cycles) + 1)
  BY <1>3, Zenon DEF Generations, Generation
<1> HIDE DEF f
<1>4. Generations(f, x, m) /\ Lineage(x) = f[m]
  BY <1>1, <1>2, <1>g
<1>5. \A k \in 0 .. m : f[k] = Generation(f, x, k)
  BY <1>4, Zenon DEF Generations
<1> DEFINE Bad == {k \in Nat : k <= m /\ ~ (f[k] \subseteq C)}
<1>6. Bad = {}
  <2> SUFFICES ASSUME Bad # {} PROVE FALSE
    OBVIOUS
  <2>1. PICK k \in Bad : \A y \in Bad : k <= y
    <3>1. Bad \in SUBSET Nat
      OBVIOUS
    <3> HIDE DEF Bad
    <3> QED
      BY <3>1, LeastNumber
  <2>2. k \in Nat /\ k <= m /\ ~ (f[k] \subseteq C) /\ f[k] = Generation(f, x, k)
    BY <1>2, <1>5, <2>1
  <2>3. CASE k = 0
    BY <2>2, <2>3 DEF Generation
  <2>4. CASE k # 0
    <3>1. k - 1 \in Nat /\ k - 1 <= m /\ k - 1 \notin Bad
      BY <1>2, <2>1, <2>2, <2>4
    <3>2. f[k - 1] \subseteq C
      BY <3>1
    <3> HIDE DEF Bad
    <3> QED
      BY <2>2, <2>4, <3>2 DEF Generation, Sources
  <2> QED
    BY <2>3, <2>4
<1>7. f[m] \subseteq C
  BY <1>2, <1>6
<1> QED
  BY <1>4, <1>7

\* Cycles are numbers up to the weeks of data, so there are finitely many.
LEMMA CyclesFinite == Cardinality(Cycles) \in Nat
<1>1. Cycles \subseteq 1 .. DataWeeks /\ DataWeeks \in Nat
  BY ProtocolAssumption DEF Cycles
<1>2. IsFiniteSet(1 .. DataWeeks)
  BY <1>1, FS_Interval
<1> QED
  BY <1>1, <1>2, FS_Subset, FS_CardinalityType

\* Validation begins after the first update.
LEMMA StartTypes ==
    ASSUME NEW n \in Cycles
    PROVE  n \in Nat \ {0} /\ ValidationStart(n) \in Nat /\ BootstrapWeeks <= ValidationStart(n)
<1>1. n \in Nat \ {0} /\ BootstrapWeeks \in Nat /\ StepWeeks \in Nat
  BY Names, ProtocolAssumption
<1>2. (n - 1) \in Nat /\ (n - 1) * StepWeeks \in Nat
  BY <1>1
<1> QED
  BY <1>1, <1>2 DEF ValidationStart

\* A later cycle validates later.
LEMMA StartsLater ==
    ASSUME NEW m \in Cycles, NEW n \in Cycles, m <= n
    PROVE  /\ ValidationStart(m) \in Nat /\ ValidationStart(n) \in Nat
           /\ ValidationStart(m) <= ValidationStart(n)
           /\ BootstrapWeeks <= ValidationStart(m)
<1>1. /\ m \in Nat \ {0} /\ n \in Nat \ {0}
      /\ BootstrapWeeks \in Nat /\ StepWeeks \in Nat
  BY Names, ProtocolAssumption
<1>2. (m - 1) \in Nat /\ (n - m) \in Nat /\ (m - 1) * StepWeeks \in Nat /\ (n - m) * StepWeeks \in Nat
  BY <1>1
<1>3. (n - 1) * StepWeeks = (m - 1) * StepWeeks + (n - m) * StepWeeks
  BY <1>1
<1> QED
  BY <1>1, <1>2, <1>3 DEF ValidationStart

\* What a stage of a cycle is trained on ends where the cycle's validation
\* begins, and a refit where its test begins.
LEMMA TrainingEnds ==
    ASSUME NEW s \in Stages, NEW n \in Cycles
    PROVE  /\ s[2] = "candidate" /\ s[1] <= n => TrainRange(s).end <= Validation(n).start
           /\ s[2] = "candidate" /\ s[1] <= n => TrainRange(s).end <= TestRange(n).start
           /\ s[2] = "refit" /\ s[1] = n => TrainRange(s).end <= TestRange(n).start
<1>1. s[1] \in Cycles /\ s[2] \in {"candidate", "refit"}
  BY DEF Stages
<1>2. RowsPerWeek \in Nat /\ BootstrapWeeks \in Nat /\ ValidationWeeks \in Nat
  BY ProtocolAssumption
<1>3. TrainRange(s).end = IF s[2] = "refit" THEN Validation(s[1]).end ELSE Update(s[1]).end
  BY DEF TrainRange, TimeRangeSplit
<1>4. /\ Validation(n).start = ValidationStart(n) * RowsPerWeek
      /\ TestRange(n).start = (ValidationStart(n) + ValidationWeeks) * RowsPerWeek
      /\ Validation(n).end = (ValidationStart(n) + ValidationWeeks) * RowsPerWeek
  BY DEF Validation, TestRange, Weeks
<1>5. ValidationStart(n) \in Nat /\ s[1] \in Nat /\ n \in Nat
  BY <1>1, StartTypes
<1>6. ASSUME s[2] = "candidate", s[1] <= n
      PROVE  TrainRange(s).end <= Validation(n).start /\ TrainRange(s).end <= TestRange(n).start
  <2>1. PICK w : w = IF s[1] = 1 THEN BootstrapWeeks ELSE ValidationStart(s[1])
    OBVIOUS
  <2>2. Update(s[1]).end = w * RowsPerWeek
    BY <2>1 DEF Update, Weeks
  <2>3. w \in Nat /\ w <= ValidationStart(n)
    BY <1>1, <1>6, <2>1, StartsLater, StartTypes, ProtocolAssumption
  <2>4. /\ w * RowsPerWeek <= ValidationStart(n) * RowsPerWeek
        /\ w * RowsPerWeek <= (ValidationStart(n) + ValidationWeeks) * RowsPerWeek
    <3>1. PICK d \in Nat : ValidationStart(n) = w + d
      <4>1. ValidationStart(n) - w \in Nat
        BY <1>5, <2>3
      <4> QED
        BY <4>1, <1>5, <2>3
    <3>2. d * RowsPerWeek \in Nat /\ ValidationWeeks * RowsPerWeek \in Nat
      BY <1>2
    <3>3. /\ (w + d) * RowsPerWeek = w * RowsPerWeek + d * RowsPerWeek
          /\ (w + d + ValidationWeeks) * RowsPerWeek
                = w * RowsPerWeek + d * RowsPerWeek + ValidationWeeks * RowsPerWeek
          /\ w * RowsPerWeek \in Nat
      BY <1>2, <2>3
    <3> QED
      BY <3>1, <3>2, <3>3
  <2> QED
    BY <1>3, <1>4, <1>6, <2>2, <2>4
<1>7. ASSUME s[2] = "refit", s[1] = n PROVE TrainRange(s).end <= TestRange(n).start
  <2>1. TrainRange(s).end = (ValidationStart(n) + ValidationWeeks) * RowsPerWeek
    BY <1>3, <1>4, <1>7
  <2>2. (ValidationStart(n) + ValidationWeeks) * RowsPerWeek \in Nat
    BY <1>2, <1>5
  <2> QED
    BY <1>4, <2>1, <2>2
<1> QED
  BY <1>6, <1>7

\* The rows an evaluation scores come after every row any stage of the
\* evaluated policy's lineage, or the source of the study, was trained on.
RowsAhead ==
    \A i \in DOMAIN evaluations :
        LET it == evaluations[i]
        IN  /\ \A k \in DOMAIN ancestry : ancestry[k].train.end <= it.range.start
            /\ \A s \in Lineage(it.checkpoint) \ {Base} : TrainRange(s).end <= it.range.start

\* Every evaluated policy descends from stages of earlier cycles, whose rows
\* all end where the evaluated rows begin or before.
LEMMA RowsAreAhead == IInv => RowsAhead
<1> SUFFICES ASSUME IInv, NEW i \in DOMAIN evaluations
             PROVE  LET it == evaluations[i]
                    IN  /\ \A k \in DOMAIN ancestry : ancestry[k].train.end <= it.range.start
                        /\ \A s \in Lineage(it.checkpoint) \ {Base} :
                              TrainRange(s).end <= it.range.start
  BY DEF RowsAhead
<1> DEFINE it == evaluations[i]
<1>1. EvaluationOK(it)
  BY DEF IInv, EvaluationsOK
<1>2. PICK n \in Cycles :
         \/ it.scope = "custom_range" /\ it.checkpoint \in Earlier(n) /\ it.range = Validation(n)
         \/ it.scope = "run_validation" /\ it.checkpoint \in Candidates(n) /\ it.range = Validation(n)
         \/ it.scope = "extended_out_of_sample" /\ it.checkpoint \in Refits(n) /\ it.range = TestRange(n)
  BY <1>1 DEF EvaluationOK
<1> HIDE DEF it
<1>3. n \in Nat \ {0} /\ Cycles \subseteq Nat \ {0}
  BY Names
<1>r. /\ DOMAIN runs \subseteq Stages
      /\ \A s \in DOMAIN runs :
            IF s[2] = "refit" THEN runs[s].source = <<s[1], "candidate", s[3]>>
            ELSE runs[s].source \in Earlier(s[1])
  BY DEF IInv, RunsOK
<1>s. \A s \in Stages : s[1] \in Cycles /\ s[2] \in {"candidate", "refit"} /\ s[3] \in 0 .. Options - 1
  BY DEF Stages
<1> DEFINE C == {Base} \cup {s \in Stages : s[2] = "candidate" /\ s[1] <= n}
<1>4. \A s \in C \cap DOMAIN runs : runs[s].source \in C
  <2> SUFFICES ASSUME NEW s \in C, s \in DOMAIN runs PROVE runs[s].source \in C
    OBVIOUS
  <2>1. s \in Stages /\ s[2] = "candidate" /\ s[1] <= n /\ s[1] \in Cycles
    BY <1>r, <1>s, Kinds
  <2>2. runs[s].source \in Earlier(s[1])
    BY <1>r, <2>1
  <2>3. \A t \in Earlier(s[1]) : t \in C
    BY <1>3, <1>s, <2>1 DEF Earlier
  <2> QED
    BY <2>2, <2>3
<1>5. \A k \in DOMAIN ancestry : ancestry[k].train.end <= it.range.start
  <2>1. SourceAccepted /\ PlanAccepted
    <3>1. evaluations # <<>>
      OBVIOUS
    <3> QED
      BY <3>1 DEF IInv, SourceOK
  <2>2. \A k \in DOMAIN ancestry : ancestry[k].train.end = 0
    BY <2>1 DEF SourceAccepted, PlanAccepted
  <2>3. 0 <= it.range.start
    <3>1. ValidationStart(n) \in Nat /\ RowsPerWeek \in Nat /\ ValidationWeeks \in Nat
      BY StartTypes, ProtocolAssumption
    <3>2. /\ ValidationStart(n) * RowsPerWeek \in Nat
          /\ (ValidationStart(n) + ValidationWeeks) * RowsPerWeek \in Nat
      BY <3>1
    <3>3. it.range.start \in {ValidationStart(n) * RowsPerWeek,
                              (ValidationStart(n) + ValidationWeeks) * RowsPerWeek}
      BY <1>2 DEF Validation, TestRange, Weeks
    <3> QED
      BY <3>2, <3>3
  <2> QED
    BY <2>2, <2>3
<1>6. CASE it.range = Validation(n) /\ it.checkpoint \in Earlier(n) \cup Candidates(n)
  <2>1. it.checkpoint \in C
    <3>1. CASE it.checkpoint \in Earlier(n)
      <4>1. \A s \in Earlier(n) : s = Base \/ (s \in Stages /\ s[1] < n /\ s[2] = "candidate")
        BY DEF Earlier
      <4>2. \A s \in Stages : s[1] < n => s[1] <= n
        <5>1. ASSUME NEW s \in Stages, s[1] < n PROVE s[1] <= n
          <6>1. s[1] \in Nat /\ n \in Nat
            BY <1>3, <1>s
          <6> QED
            BY <5>1, <6>1
        <5> QED
          BY <5>1
      <4>3. \A s \in Earlier(n) : s \in C
        BY <4>1, <4>2
      <4> QED
        BY <3>1, <4>3
    <3>2. CASE it.checkpoint \in Candidates(n)
      <4>1. it.checkpoint \in Stages /\ it.checkpoint[1] = n /\ it.checkpoint[2] = "candidate"
        BY <3>2, Kinds
      <4> QED
        BY <1>3, <4>1
    <3> QED
      BY <1>6, <3>1, <3>2
  <2>2. Lineage(it.checkpoint) \subseteq C
    <3> HIDE DEF C
    <3> QED
      BY <1>4, <2>1, LineageWithin, CyclesFinite
  <2>3. \A s \in C \ {Base} : TrainRange(s).end <= Validation(n).start
    BY TrainingEnds
  <2> QED
    BY <1>5, <1>6, <2>2, <2>3 DEF it
<1>7. CASE it.range = TestRange(n) /\ it.checkpoint \in Refits(n)
  <2> DEFINE D == C \cup {it.checkpoint}
  <2>1. it.checkpoint \in Stages /\ it.checkpoint[1] = n /\ it.checkpoint[2] = "refit"
    BY <1>7, Kinds
  <2>2. it.checkpoint \in DOMAIN runs => runs[it.checkpoint].source \in C
    <3>1. <<n, "candidate", it.checkpoint[3]>> \in C
      BY <1>3, <1>s, <2>1 DEF Stages
    <3> QED
      BY <1>r, <2>1, <3>1
  <2>3. \A s \in D \cap DOMAIN runs : runs[s].source \in D
    BY <1>4, <2>2
  <2>4. it.checkpoint \in D
    OBVIOUS
  <2>5. Lineage(it.checkpoint) \subseteq D
    <3> HIDE DEF D
    <3> QED
      BY <2>3, <2>4, LineageWithin, CyclesFinite
  <2>6. \A s \in D \ {Base} : TrainRange(s).end <= TestRange(n).start
    BY <2>1, TrainingEnds
  <2> QED
    BY <1>5, <1>7, <2>5, <2>6 DEF it
<1> QED
  BY <1>2, <1>6, <1>7

-----------------------------------------------------------------------------
(* While the lock has never been lost *)

Cycle(e) == cycles[local[e].number]

LockHeld == \A e \in Executors : pc[e] # "off" <=> lock = e

Wins(row) == {k \in DOMAIN row.records : row.records[k].score > evaluations[row.reference].score}

RowSound(row, c) ==
    /\ \A k \in DOMAIN row.records : row.records[k].order = k - 1
    /\ row.records # <<>> => row.reference # None
    /\ row.selected # None =>
          /\ row.records # <<>> /\ Wins(row) = {Len(row.records)}
          /\ row.selected = row.records[Len(row.records)].checkpoint
          /\ Carries(row.selected)
    /\ row.selected = None /\ row.records # <<>> => Wins(row) = {}
    /\ row.refit # None => row.selected # None /\ row.refit = <<c, "refit", row.selected[3]>>
    /\ row.test # None =>
          /\ row.refit # None
          /\ row.test \in Matching(row.refit, "extended_out_of_sample", TestRange(c))
    /\ row.status = "stopped" => Len(row.records) = Options /\ row.selected = None
    /\ row.status = "completed" => None \notin {row.selected, row.refit, row.test}

ViewHeld(e) ==
    /\ pc[e] \in Holding \cup {"cycle"} =>
          \A c \in Cycles : local[e].number < c => cycles[c] = local[e].view[c]
    /\ pc[e] = "cycle" /\ local[e].number \in Cycles => Cycle(e) = View(e)
    /\ pc[e] \in Holding \cup {"cycle"} /\ pc[e] # "tested" /\ local[e].number # 1 =>
          local[e].number - 1 \in Cycles /\ cycles[local[e].number - 1].selected = local[e].previous
    /\ pc[e] = "tested" => Cycle(e).selected = local[e].previous

GridHeld(e) ==
    /\ pc[e] \in Holding =>
          local[e].records = Cycle(e).records /\ local[e].reference = Cycle(e).reference
    /\ pc[e] \in {"reference", "measure_reference", "set_reference"} => Cycle(e).reference = None
    /\ pc[e] \in {"reference", "measure_reference", "set_reference", "prefix"} =>
          View(e).selected = Cycle(e).selected
    /\ pc[e] \in Holding /\ local[e].winner # None => local[e].winner.checkpoint = Cycle(e).selected
    /\ pc[e] \in {"grid", "record", "stop_study", "create", "training"} /\ local[e].winner = None =>
          Cycle(e).selected = None

TestHeld(e) ==
    /\ pc[e] \in {"test", "measure_test", "set_test"} => Cycle(e).refit = Stage(e)
    /\ pc[e] = "measure_test" => Cycle(e).test = None
    /\ pc[e] = "set_test" =>
          /\ local[e].found
                \in Matching(Stage(e), "extended_out_of_sample", TestRange(local[e].number))
          /\ Cycle(e).test \in {None, local[e].found}

SourcesSelected ==
    \A s \in DOMAIN runs : s[2] = "candidate" /\ s[1] # 1 =>
        s[1] - 1 \in Cycles /\ runs[s].source = cycles[s[1] - 1].selected

TestsSelected ==
    \A i \in DOMAIN evaluations : evaluations[i].scope = "extended_out_of_sample" =>
        LET cycle == cycles[evaluations[i].checkpoint[1]]
        IN  /\ cycle.refit = evaluations[i].checkpoint
            /\ cycle.selected = runs[evaluations[i].checkpoint].source

Held(e) == ViewHeld(e) /\ GridHeld(e) /\ TestHeld(e)

\* What is true as long as the connection of the lock has never died.
HeldInv ==
    /\ LockHeld
    /\ \A c \in Cycles : RowSound(cycles[c], c)
    /\ \A e \in Executors : Held(e)
    /\ SourcesSelected /\ TestsSelected

\* No decision of a row is taken back.
Decided(old, row) ==
    /\ old.reference # None => row.reference = old.reference
    /\ old.selected # None => row.selected = old.selected
    /\ old.refit # None => row.refit = old.refit
    /\ old.test # None => row.test = old.test
    /\ IsPrefix(old.records, row.records)

\* How a step may change a row.
Change(n, row) ==
    /\ cycles' = [cycles EXCEPT ![n] = row]
    /\ RowSound(row, n) /\ row.reference \in {None} \cup DOMAIN evaluations
    /\ Decided(cycles[n], row)

\* What holds of a row and of an executor at its cycle.
LEMMA AtCycle ==
    ASSUME IInv, HeldInv, NEW e \in Executors, pc[e] \in Holding
    PROVE  LET n == local[e].number
           IN  /\ n \in Cycles /\ n \in Nat \ {0}
               /\ Cycle(e) = cycles[n] /\ RowOK(cycles[n], n) /\ RowSound(cycles[n], n)
               /\ cycles \in [Cycles -> CycleRows] /\ cycles[n] \in CycleRows
               /\ local[e].records = cycles[n].records
               /\ local[e].reference = cycles[n].reference
               /\ local[e].winner # None => local[e].winner.checkpoint = cycles[n].selected
               /\ LoopOK(e) /\ GridOK(e) /\ StageOK(e) /\ ViewHeld(e) /\ GridHeld(e) /\ TestHeld(e)
<1>1. LoopOK(e) /\ GridOK(e) /\ StageOK(e) /\ CyclesOK
  BY DEF IInv, ExecutorsOK
<1>2. ViewHeld(e) /\ GridHeld(e) /\ TestHeld(e) /\ \A c \in Cycles : RowSound(cycles[c], c)
  BY DEF HeldInv, Held
<1>3. local[e].number \in Cycles
  BY <1>1 DEF LoopOK
<1> QED
  BY <1>1, <1>2, <1>3, Names DEF CyclesOK, GridHeld, Cycle

\* Attempts stored again as they were are a prefix of themselves.
LEMMA PrefixSame == ASSUME NEW S, NEW s \in Seq(S) PROVE IsPrefix(s, s)
BY DEF IsPrefix

\* Recording one more attempt keeps those before it.
LEMMA PrefixAppend == ASSUME NEW S, NEW s \in Seq(S), NEW x \in S PROVE IsPrefix(s, Append(s, x))
BY DEF IsPrefix

OneRow == cycles' = cycles \/ \E n \in Cycles : \E row : Change(n, row)

\* Every step changes at most one row, and decides only what was undecided.
LEMMA ChangeStep ==
    IInv /\ HeldInv /\ [Next]_vars => OneRow
<1> SUFFICES ASSUME IInv, HeldInv, [Next]_vars
             PROVE  OneRow
  OBVIOUS
<1> USE DEF OneRow
<1>r. \A row \in CycleRows : IsPrefix(row.records, row.records)
  BY PrefixSame DEF CycleRows
<1>n. None \notin Nat /\ None \notin Checkpoints
  BY Names
<1>1. ASSUME NEW e \in Executors, OpenStudy(e) PROVE OneRow
  BY <1>1 DEF OpenStudy, vars, data
<1>2. ASSUME NEW e \in Executors, Load(e) PROVE OneRow
  BY <1>2 DEF Load, vars, data
<1>3. ASSUME NEW e \in Executors, PassCompleted(e) PROVE OneRow
  BY <1>3 DEF PassCompleted, Raise, vars, data
<1>4. ASSUME NEW e \in Executors, BeginCycle(e) PROVE OneRow
  <2>1. CASE cycles' = cycles
    BY <2>1
  <2>2. CASE cycles' # cycles
    <3>1. PICK n : n = local[e].number
      OBVIOUS
    <3>2. /\ n \in Cycles
          /\ cycles' = [cycles EXCEPT ![n].source = local[e].previous, ![n].status = "running"]
      BY <1>4, <2>2, <3>1 DEF BeginCycle, Ends
    <3>3. /\ RowOK(cycles[n], n) /\ RowSound(cycles[n], n)
          /\ cycles \in [Cycles -> CycleRows] /\ cycles[n] \in CycleRows
      BY <3>2 DEF IInv, CyclesOK, HeldInv
    <3>4. PICK old : old = cycles[n]
      OBVIOUS
    <3>5. PICK row : row = [old EXCEPT !.source = local[e].previous, !.status = "running"]
      OBVIOUS
    <3>6. cycles' = [cycles EXCEPT ![n] = row]
      BY <3>2, <3>3, <3>4, <3>5
    <3>7. row.reference \in {None} \cup DOMAIN evaluations
      BY <3>3, <3>4, <3>5 DEF RowOK, CycleRows
    <3>8. RowSound(row, n)
      <4>1. /\ row.status = "running" /\ row.records = old.records /\ row.reference = old.reference
            /\ row.selected = old.selected /\ row.refit = old.refit /\ row.test = old.test
        BY <3>3, <3>4, <3>5 DEF CycleRows
      <4>2. Wins(row) = Wins(old)
        BY <4>1 DEF Wins
      <4>4. RowSound(old, n)
        BY <3>3, <3>4
      <4> QED
        BY <4>1, <4>2, <4>4 DEF RowSound
    <3>9. Decided(old, row)
      BY <1>r, <3>3, <3>4, <3>5 DEF Decided, CycleRows
    <3> QED
      BY <3>2, <3>3, <3>4, <3>6, <3>7, <3>8, <3>9 DEF Change
  <2> QED
    BY <2>1, <2>2
<1>5. ASSUME NEW e \in Executors, FindEvaluation(e) PROVE OneRow
  BY <1>5 DEF FindEvaluation, Raise, vars, data
<1>6. ASSUME NEW e \in Executors, Measure(e) PROVE OneRow
  BY <1>6 DEF Measure, vars, data
<1>7. ASSUME NEW e \in Executors, SetReference(e) PROVE OneRow
  <2>1. PICK n : n = local[e].number
    OBVIOUS
  <2>2. /\ pc[e] = "set_reference" /\ pc[e] \in Holding
        /\ cycles' = [cycles EXCEPT ![n].reference = local[e].found]
    BY <1>7, <2>1 DEF SetReference, Holding, Choosing, Refitting
  <2>3. /\ n \in Cycles /\ RowOK(cycles[n], n) /\ RowSound(cycles[n], n)
        /\ cycles \in [Cycles -> CycleRows] /\ cycles[n] \in CycleRows
        /\ GridOK(e) /\ StageOK(e) /\ GridHeld(e) /\ TestHeld(e) /\ Cycle(e) = cycles[n]
    BY <2>1, <2>2, AtCycle
  <2>4. PICK old : old = cycles[n]
    OBVIOUS
  <2>5. PICK row : row = [old EXCEPT !.reference = local[e].found]
    OBVIOUS
  <2>6. cycles' = [cycles EXCEPT ![n] = row]
    BY <2>2, <2>3, <2>4, <2>5
  <2>7. row.reference \in {None} \cup DOMAIN evaluations
    BY <2>2, <2>3, <2>4, <2>5 DEF GridOK, CycleRows
  <2>a. old.reference = None
    BY <2>2, <2>3, <2>4 DEF GridHeld
  <2>8. RowSound(row, n)
    <3>1. old.records = <<>> /\ old.selected = None
      BY <2>3, <2>4, <2>a DEF RowSound
    <3> QED
      BY <2>3, <2>4, <2>5, <3>1 DEF RowSound, Wins, CycleRows
  <2>9. Decided(old, row)
    BY <1>r, <2>3, <2>4, <2>5, <2>a DEF Decided, CycleRows
  <2> QED
    BY <2>3, <2>4, <2>6, <2>7, <2>8, <2>9 DEF Change
<1>8. ASSUME NEW e \in Executors, ResumePrefix(e) PROVE OneRow
  BY <1>8 DEF ResumePrefix, Raise, vars, data
<1>9. ASSUME NEW e \in Executors, FindStage(e) PROVE OneRow
  BY <1>9 DEF FindStage, Raise, vars, data
<1>10. ASSUME NEW e \in Executors, CreateStage(e) PROVE OneRow
  BY <1>10 DEF CreateStage, Raise, vars, data
<1>11. ASSUME NEW e \in Executors, TrainingCompletes(e) PROVE OneRow
  BY <1>11 DEF TrainingCompletes, vars, data
<1>12. ASSUME NEW e \in Executors, RecordCandidate(e) PROVE OneRow
  <2>a. CASE cycles' = cycles
    BY <2>a
  <2>b. CASE cycles' # cycles
    <3>1. PICK n : n = local[e].number
      OBVIOUS
    <3>2. pc[e] = "record" /\ pc[e] \in Holding /\ ~ Raise(e)
      BY <1>12, <2>b DEF RecordCandidate, Holding, Choosing, Raise, data
    <3>3. /\ n \in Cycles /\ RowOK(cycles[n], n) /\ RowSound(cycles[n], n)
          /\ cycles \in [Cycles -> CycleRows] /\ cycles[n] \in CycleRows
          /\ GridOK(e) /\ StageOK(e) /\ GridHeld(e) /\ Cycle(e) = cycles[n]
          /\ local[e].records = cycles[n].records /\ local[e].reference = cycles[n].reference
      BY <3>1, <3>2, AtCycle
    <3>4. PICK old : old = cycles[n]
      OBVIOUS
    <3>5. PICK r : /\ NewRecord(e, r)
                   /\ cycles' = [cycles EXCEPT
                         ![n].records = Append(old.records, r),
                         ![n].selected = IF Improves(r, ReferenceScore(e)) THEN Stage(e) ELSE None]
      <4>1. PICK r : /\ NewRecord(e, r)
                     /\ cycles' = [cycles EXCEPT
                           ![local[e].number].records = Append(local[e].records, r),
                           ![local[e].number].selected =
                               IF Improves(r, ReferenceScore(e)) THEN Stage(e) ELSE None]
        BY <1>12, <3>2, Recorded
      <4>2. local[e].records = old.records
        BY <3>3, <3>4
      <4> QED
        BY <3>1, <4>1, <4>2
    <3>6. PICK row : row = [old EXCEPT !.records = Append(old.records, r),
                              !.selected = IF Improves(r, ReferenceScore(e)) THEN Stage(e) ELSE None]
      OBVIOUS
    <3>7. cycles' = [cycles EXCEPT ![n] = row]
      BY <3>3, <3>4, <3>5, <3>6
    <3>8. /\ row.status = old.status /\ row.records = Append(old.records, r)
          /\ row.reference = old.reference /\ row.refit = old.refit /\ row.test = old.test
          /\ row.selected = IF Improves(r, ReferenceScore(e)) THEN Stage(e) ELSE None
      BY <3>3, <3>4, <3>6 DEF CycleRows
    <3>9. /\ local[e].winner = None /\ old.selected = None
          /\ Len(old.records) < Options /\ old.reference \in DOMAIN evaluations
      BY <3>2, <3>3, <3>4 DEF GridOK, GridHeld, Choosing, Holding
    <3>10. old.refit = None /\ old.test = None /\ old.status # "stopped" /\ old.status # "completed"
      BY <3>3, <3>4, <3>9 DEF RowSound, RowOK, CycleRows
    <3>11. /\ r \in Records /\ r.order = Len(old.records) /\ r.checkpoint = Stage(e)
      BY <3>3, <3>4, <3>5 DEF NewRecord, RecordsOf
    <3>12. /\ Stage(e) = <<n, "candidate", Len(old.records)>> /\ Completed(Stage(e))
           /\ Stage(e) # None
      <4>1. Stage(e) = <<n, "candidate", Len(old.records)>> /\ Stage(e) \in Candidates(n)
        BY <3>1, <3>2, <3>3, <3>4, <3>9, StageShape DEF Holding
      <4> QED
        BY <1>n, <3>2, <3>3, <4>1, Kinds, Names DEF StageOK
    <3>13. Carries(Stage(e))
      BY <3>12 DEF Completed, Carries
    <3> DEFINE records == Append(old.records, r)
               L == Len(old.records)
    <3>14. /\ old.records \in Seq(Records) /\ L \in Nat /\ DOMAIN old.records = 1 .. L
           /\ Len(records) = L + 1 /\ DOMAIN records = 1 .. (L + 1)
           /\ \A k \in 1 .. L : records[k] = old.records[k]
           /\ records[L + 1] = r
      <4>1. old.records \in Seq(Records)
        BY <3>3, <3>4 DEF CycleRows
      <4> QED
        BY <3>11, <4>1, AppendProperties, LenProperties
    <3> HIDE DEF records, L
    <3>15. \A k \in 1 .. (L + 1) : k \in 1 .. L \/ k = L + 1
      BY <3>14
    <3>16. row.records = records /\ Len(old.records) = L
      BY <3>8 DEF records, L
    <3>17. Wins(old) = {}
      <4>1. CASE old.records = <<>>
        BY <4>1 DEF Wins
      <4> QED
        BY <3>3, <3>4, <3>9, <4>1 DEF RowSound
    <3> DEFINE better(k) == records[k].score > evaluations[old.reference].score
    <3>18. ReferenceScore(e) = evaluations[old.reference].score
      BY <3>3, <3>4 DEF ReferenceScore
    <3>19. better(L + 1) <=> Improves(r, ReferenceScore(e))
      BY <3>14, <3>18 DEF Improves
    <3>20. \A k \in 1 .. L : ~ better(k)
      BY <3>14, <3>17 DEF Wins
    <3>21. Wins(row) = {k \in 1 .. (L + 1) : better(k)}
      BY <3>8, <3>14, <3>16 DEF Wins
    <3> HIDE DEF better
    <3>22. Wins(row) = IF Improves(r, ReferenceScore(e)) THEN {L + 1} ELSE {}
      BY <3>14, <3>15, <3>19, <3>20, <3>21
    <3>23. \A k \in DOMAIN row.records : row.records[k].order = k - 1
      <4>1. \A k \in 1 .. L : records[k].order = k - 1
        BY <3>3, <3>4, <3>14 DEF RowSound
      <4>2. records[L + 1].order = (L + 1) - 1
        BY <3>11, <3>14, <3>16
      <4> QED
        BY <3>14, <3>15, <3>16, <4>1, <4>2
    <3>24. row.records # <<>> /\ Len(row.records) = L + 1 /\ row.records[L + 1].checkpoint = Stage(e)
      <4>1. Len(records) # 0
        BY <3>14
      <4> QED
        BY <3>11, <3>14, <3>16, <4>1
    <3>25. RowSound(row, n)
      <4>1. row.reference # None
        <5>1. old.reference \in Nat
          BY <3>9, LenProperties DEF IInv, EvaluationsOK
        <5> QED
          BY <1>n, <3>8, <5>1
      <4>2. row.refit = None /\ row.test = None /\ row.status # "stopped" /\ row.status # "completed"
        BY <3>8, <3>10
      <4>3. CASE Improves(r, ReferenceScore(e))
        <5>1. row.selected = Stage(e) /\ Carries(row.selected) /\ row.selected # None
          BY <3>8, <3>12, <3>13, <4>3
        <5>2. Wins(row) = {Len(row.records)} /\ row.selected = row.records[Len(row.records)].checkpoint
          BY <3>22, <3>24, <4>3, <5>1
        <5> QED
          BY <3>23, <3>24, <4>1, <4>2, <5>1, <5>2 DEF RowSound
      <4>4. CASE ~ Improves(r, ReferenceScore(e))
        BY <3>8, <3>22, <3>23, <3>24, <4>1, <4>2, <4>4 DEF RowSound
      <4> QED
        BY <4>3, <4>4
    <3>26. Decided(old, row)
      BY <3>8, <3>9, <3>10, <3>11, <3>14, PrefixAppend DEF Decided
    <3> QED
      BY <3>3, <3>4, <3>7, <3>8, <3>9, <3>25, <3>26 DEF Change
  <2> QED
    BY <2>a, <2>b
<1>13. ASSUME NEW e \in Executors, StopCycle(e) PROVE OneRow
  <2>1. PICK n : n = local[e].number
    OBVIOUS
  <2>2. /\ pc[e] = "grid" /\ pc[e] \in Holding
        /\ cycles' = [cycles EXCEPT ![n].status = "stopped"]
    BY <1>13, <2>1 DEF StopCycle, Holding, Choosing, Refitting
  <2>3. /\ n \in Cycles /\ RowOK(cycles[n], n) /\ RowSound(cycles[n], n)
        /\ cycles \in [Cycles -> CycleRows] /\ cycles[n] \in CycleRows
        /\ GridOK(e) /\ StageOK(e) /\ GridHeld(e) /\ TestHeld(e) /\ Cycle(e) = cycles[n]
    BY <2>1, <2>2, AtCycle
  <2>4. PICK old : old = cycles[n]
    OBVIOUS
  <2>5. PICK row : row = [old EXCEPT !.status = "stopped"]
    OBVIOUS
  <2>6. cycles' = [cycles EXCEPT ![n] = row]
    BY <2>2, <2>3, <2>4, <2>5
  <2>7. row.reference \in {None} \cup DOMAIN evaluations
    BY <2>3, <2>4, <2>5 DEF RowOK, CycleRows
  <2>8. RowSound(row, n)
    <3>1. /\ old.selected = None /\ Len(old.records) = Options
      BY <2>1, <2>2, <2>3, <2>4, AtCycle, <1>13 DEF GridHeld, GridOK, Choosing, StopCycle
    <3> QED
      BY <2>3, <2>4, <2>5, <3>1 DEF RowSound, Wins, CycleRows
  <2>9. Decided(old, row)
    BY <1>r, <2>3, <2>4, <2>5 DEF Decided, CycleRows
  <2> QED
    BY <2>3, <2>4, <2>6, <2>7, <2>8, <2>9 DEF Change
<1>14. ASSUME NEW e \in Executors, StopStudy(e) PROVE OneRow
  BY <1>14 DEF StopStudy, vars, data
<1>15. ASSUME NEW e \in Executors, SetRefit(e) PROVE OneRow
  <2>1. PICK n : n = local[e].number
    OBVIOUS
  <2>2. /\ pc[e] = "set_refit" /\ pc[e] \in Holding
        /\ cycles' = [cycles EXCEPT ![n].refit = Stage(e)]
    BY <1>15, <2>1 DEF SetRefit, Holding, Choosing, Refitting
  <2>3. /\ n \in Cycles /\ RowOK(cycles[n], n) /\ RowSound(cycles[n], n)
        /\ cycles \in [Cycles -> CycleRows] /\ cycles[n] \in CycleRows
        /\ GridOK(e) /\ StageOK(e) /\ GridHeld(e) /\ TestHeld(e) /\ Cycle(e) = cycles[n]
    BY <2>1, <2>2, AtCycle
  <2>4. PICK old : old = cycles[n]
    OBVIOUS
  <2>5. PICK row : row = [old EXCEPT !.refit = Stage(e)]
    OBVIOUS
  <2>6. cycles' = [cycles EXCEPT ![n] = row]
    BY <2>2, <2>3, <2>4, <2>5
  <2>7. row.reference \in {None} \cup DOMAIN evaluations
    BY <2>3, <2>4, <2>5 DEF RowOK, CycleRows
  <2>a. old.selected # None /\ Stage(e) = <<n, "refit", old.selected[3]>>
    <3>1. local[e].winner # None /\ pc[e] \in Holding \ {"tested"}
      BY <2>2, <2>3 DEF GridOK, Refitting
    <3>2. /\ Stage(e) = <<n, "refit", local[e].winner.order>>
          /\ Source(e) = <<n, "candidate", local[e].winner.order>>
          /\ Source(e) = local[e].winner.checkpoint /\ Source(e) \in Candidates(n)
      BY <2>1, <3>1, StageShape
    <3>3. old.selected = local[e].winner.checkpoint
      BY <2>2, <2>3, <2>4, <3>1 DEF GridHeld
    <3>4. Source(e) \in Checkpoints
      BY <2>3, <3>2, Kinds, Names
    <3> QED
      BY <1>n, <3>2, <3>3, <3>4
  <2>b. old.refit # None => old.refit = Stage(e)
    BY <2>3, <2>4, <2>a DEF RowSound
  <2>8. RowSound(row, n)
    <3>1. /\ row.status = old.status /\ row.records = old.records /\ row.reference = old.reference
          /\ row.selected = old.selected /\ row.refit = Stage(e) /\ row.test = old.test
      BY <2>3, <2>4, <2>5 DEF CycleRows
    <3>2. Wins(row) = Wins(old)
      BY <3>1 DEF Wins
    <3>3. Stage(e) # None
      <4>1. Stage(e) \in DOMAIN runs
        BY <2>2, <2>3 DEF StageOK, Completed
      <4>2. Stage(e) \in Checkpoints
        BY <4>1, Names DEF IInv, RunsOK
      <4> QED
        BY <1>n, <4>2
    <3>4. RowSound(old, n)
      BY <2>3, <2>4
    <3>5. old.test # None => old.test \in Matching(Stage(e), "extended_out_of_sample", TestRange(n))
      BY <2>b, <3>4 DEF RowSound
    <3> QED
      BY <2>a, <3>1, <3>2, <3>3, <3>4, <3>5 DEF RowSound
  <2>9. Decided(old, row)
    BY <1>r, <2>3, <2>4, <2>5, <2>b DEF Decided, CycleRows
  <2> QED
    BY <2>3, <2>4, <2>6, <2>7, <2>8, <2>9 DEF Change
<1>16. ASSUME NEW e \in Executors, SetTest(e) PROVE OneRow
  <2>1. PICK n : n = local[e].number
    OBVIOUS
  <2>2. /\ pc[e] = "set_test" /\ pc[e] \in Holding
        /\ cycles' = [cycles EXCEPT ![n].test = local[e].found, ![n].status = "completed"]
    BY <1>16, <2>1 DEF SetTest, Holding, Choosing, Refitting
  <2>3. /\ n \in Cycles /\ RowOK(cycles[n], n) /\ RowSound(cycles[n], n)
        /\ cycles \in [Cycles -> CycleRows] /\ cycles[n] \in CycleRows
        /\ GridOK(e) /\ StageOK(e) /\ GridHeld(e) /\ TestHeld(e) /\ Cycle(e) = cycles[n]
    BY <2>1, <2>2, AtCycle
  <2>4. PICK old : old = cycles[n]
    OBVIOUS
  <2>5. PICK row : row = [old EXCEPT !.test = local[e].found, !.status = "completed"]
    OBVIOUS
  <2>6. cycles' = [cycles EXCEPT ![n] = row]
    BY <2>2, <2>3, <2>4, <2>5
  <2>7. row.reference \in {None} \cup DOMAIN evaluations
    BY <2>3, <2>4, <2>5 DEF RowOK, CycleRows
  <2>a. /\ old.refit = Stage(e) /\ old.test \in {None, local[e].found}
        /\ local[e].found \in Matching(Stage(e), "extended_out_of_sample", TestRange(n))
    BY <2>1, <2>2, <2>3, <2>4 DEF TestHeld
  <2>b. old.refit # None /\ old.selected # None /\ local[e].found # None
    <3>1. Stage(e) \in DOMAIN runs
      BY <2>2, <2>3 DEF StageOK, Completed
    <3>2. Stage(e) \in Checkpoints
      BY <3>1, Names DEF IInv, RunsOK
    <3>3. local[e].found \in DOMAIN evaluations /\ local[e].found \in Nat
      BY <2>2, <2>3, LenProperties DEF GridOK, IInv, EvaluationsOK
    <3> QED
      BY <1>n, <2>3, <2>4, <2>a, <3>2, <3>3 DEF RowSound
  <2>8. RowSound(row, n)
    <3>1. /\ row.status = "completed" /\ row.records = old.records /\ row.reference = old.reference
          /\ row.selected = old.selected /\ row.refit = old.refit /\ row.test = local[e].found
      BY <2>3, <2>4, <2>5 DEF CycleRows
    <3>2. Wins(row) = Wins(old)
      BY <3>1 DEF Wins
    <3>4. RowSound(old, n)
      BY <2>3, <2>4
    <3> QED
      BY <2>a, <2>b, <3>1, <3>2, <3>4 DEF RowSound
  <2>9. Decided(old, row)
    BY <1>r, <2>3, <2>4, <2>5, <2>a DEF Decided, CycleRows
  <2> QED
    BY <2>3, <2>4, <2>6, <2>7, <2>8, <2>9 DEF Change
<1>17. ASSUME NEW e \in Executors, CloseCycle(e) PROVE OneRow
  BY <1>17 DEF CloseCycle, vars, data
<1>18. ASSUME NEW e \in Executors, Finish(e) PROVE OneRow
  BY <1>18 DEF Finish, Ends, vars, data
<1>19. ASSUME NEW e \in Executors, FailCycle(e) PROVE OneRow
  <2>1. CASE cycles' = cycles
    BY <2>1
  <2>2. CASE cycles' # cycles
    <3>1. PICK n : n = local[e].current
      OBVIOUS
    <3>2. n # 0 /\ cycles' = [cycles EXCEPT ![n].status = "failed"]
      BY <1>19, <2>2, <3>1 DEF FailCycle
    <3>3. /\ n \in Cycles /\ RowOK(cycles[n], n) /\ RowSound(cycles[n], n)
          /\ cycles \in [Cycles -> CycleRows] /\ cycles[n] \in CycleRows
      <4>1. n \in Cycles
        BY <3>1, <3>2 DEF IInv, LocalsOK, Locals
      <4> QED
        BY <4>1 DEF IInv, CyclesOK, HeldInv
    <3>4. PICK old : old = cycles[n]
      OBVIOUS
    <3>5. PICK row : row = [old EXCEPT !.status = "failed"]
      OBVIOUS
    <3>6. cycles' = [cycles EXCEPT ![n] = row]
      BY <3>2, <3>3, <3>4, <3>5
    <3>7. row.reference \in {None} \cup DOMAIN evaluations
      BY <3>3, <3>4, <3>5 DEF RowOK, CycleRows
    <3>8. RowSound(row, n)
      <4>1. /\ row.status = "failed" /\ row.records = old.records /\ row.reference = old.reference
            /\ row.selected = old.selected /\ row.refit = old.refit /\ row.test = old.test
        BY <3>3, <3>4, <3>5 DEF CycleRows
      <4>2. Wins(row) = Wins(old)
        BY <4>1 DEF Wins
      <4>4. RowSound(old, n)
        BY <3>3, <3>4
      <4> QED
        BY <4>1, <4>2, <4>4 DEF RowSound
    <3>9. Decided(old, row)
      BY <1>r, <3>3, <3>4, <3>5 DEF Decided, CycleRows
    <3> QED
      BY <3>3, <3>4, <3>6, <3>7, <3>8, <3>9 DEF Change
  <2> QED
    BY <2>1, <2>2
<1>20. ASSUME NEW e \in Executors, FailStudy(e) PROVE OneRow
  BY <1>20 DEF FailStudy, vars, data
<1>21. ASSUME NEW e \in Executors, Leave(e) PROVE OneRow
  BY <1>21 DEF Leave, Unlock, vars, data
<1>22. ASSUME NEW e \in Executors, NEW max \in Cycles, Acquire(e, max) PROVE OneRow
  BY <1>22 DEF Acquire, vars, data
<1>23. ASSUME NEW e \in Executors, Interrupt(e) PROVE OneRow
  BY <1>23 DEF Interrupt, Fault, vars, data
<1>24. ASSUME NEW e \in Executors, Kill(e) PROVE OneRow
  BY <1>24 DEF Kill, Fault, Unlock, vars, data
<1>25. CASE LoseLock
  BY <1>25 DEF LoseLock, Fault, vars, data
<1>26. CASE EvaluateByHand
  BY <1>26 DEF EvaluateByHand, Fault, vars, data
<1>27. CASE UNCHANGED vars
  BY <1>27 DEF vars, vars, data
<1> QED
  BY <1>1, <1>2, <1>3, <1>4, <1>5, <1>6, <1>7, <1>8, <1>9, <1>10, <1>11, <1>12, <1>13, <1>14,
     <1>15, <1>16, <1>17, <1>18, <1>19, <1>20, <1>21, <1>22, <1>23, <1>24, <1>25, <1>26,
     <1>27 DEF Next, Step, Refuse

\* An evaluation that matches goes on to.
LEMMA MatchingKept ==
    ASSUME KeptEvaluations, NEW checkpoint, NEW scope, NEW range,
           NEW i \in Matching(checkpoint, scope, range)
    PROVE  i \in Matching(checkpoint, scope, range)'
BY DEF Matching, KeptEvaluations

\* A sound row stays sound as runs and evaluations are added.
LEMMA SoundKept ==
    ASSUME KeptRuns, KeptEvaluations, NEW row, NEW c, RowSound(row, c),
           row.reference \in {None} \cup DOMAIN evaluations
    PROVE  RowSound(row, c)'
<1>1. row.records # <<>> => Wins(row)' = Wins(row)
  BY DEF Wins, RowSound, KeptEvaluations
<1>2. row.selected # None => row.records # <<>>
  BY DEF RowSound
<1>3. Carries(row.selected) => Carries(row.selected)'
  BY CarriesKept
<1>4. row.test \in Matching(row.refit, "extended_out_of_sample", TestRange(c)) =>
         (row.test \in Matching(row.refit, "extended_out_of_sample", TestRange(c)))'
  BY MatchingKept
<1> QED
  BY <1>1, <1>2, <1>3, <1>4 DEF RowSound

\* Every step keeps the rows sound.
LEMMA SoundStep == IInv /\ HeldInv /\ [Next]_vars => (\A c \in Cycles : RowSound(cycles[c], c))'
<1> SUFFICES ASSUME IInv, HeldInv, [Next]_vars, NEW c \in Cycles
             PROVE  RowSound(cycles[c], c)'
  OBVIOUS
<1>1. KeptRuns /\ KeptEvaluations /\ cycles \in [Cycles -> CycleRows]
  BY RunsStep, EvaluationsStep DEF IInv, CyclesOK
<1>2. PICK old : old = cycles[c]
  OBVIOUS
<1>3. RowSound(old, c) /\ old.reference \in {None} \cup DOMAIN evaluations
  BY <1>2 DEF HeldInv, IInv, CyclesOK, RowOK
<1>4. RowSound(old, c)'
  BY <1>1, <1>3, SoundKept
<1>5. CASE cycles'[c] = old
  BY <1>4, <1>5
<1>6. CASE cycles'[c] # old
  <2>0. PICK n \in Cycles : \E row : Change(n, row)
    BY <1>2, <1>6, ChangeStep DEF OneRow
  <2>1. PICK row : Change(n, row)
    BY <2>0
  <2>2. n = c /\ cycles'[c] = row
    BY <1>1, <1>2, <1>6, <2>1 DEF Change
  <2>3. RowSound(row, c)'
    BY <1>1, <2>1, <2>2, SoundKept DEF Change
  <2> QED
    BY <2>2, <2>3
<1> QED
  BY <1>5, <1>6

\* Every candidate has the winner of the cycle before as its source.
LEMMA SourcesStep == IInv /\ HeldInv /\ [Next]_vars => SourcesSelected'
<1> SUFFICES ASSUME IInv, HeldInv, [Next]_vars, NEW s \in DOMAIN runs', s[2] = "candidate", s[1] # 1
             PROVE  s[1] - 1 \in Cycles /\ runs'[s].source = cycles'[s[1] - 1].selected
  BY DEF SourcesSelected
<1>1. /\ KeptRuns /\ RunsOK /\ RunsOK' /\ cycles \in [Cycles -> CycleRows]
      /\ SourcesSelected /\ None \notin Checkpoints
  BY RunsStep, Names DEF IInv, CyclesOK, HeldInv
<1>2. ASSUME NEW c \in Cycles, cycles[c].selected # None
      PROVE  cycles'[c].selected = cycles[c].selected
  <2>1. CASE cycles'[c] = cycles[c]
    BY <2>1
  <2>2. CASE cycles'[c] # cycles[c]
    <3>0. PICK n \in Cycles : \E row : Change(n, row)
      BY <2>2, ChangeStep DEF OneRow
    <3>1. PICK row : Change(n, row)
      BY <3>0
    <3>2. n = c /\ cycles'[c] = row
      BY <1>1, <2>2, <3>1 DEF Change
    <3> QED
      BY <1>2, <3>1, <3>2 DEF Change, Decided
  <2> QED
    BY <2>1, <2>2
<1>3. CASE s \in DOMAIN runs
  <2>1. /\ s[1] - 1 \in Cycles /\ runs[s].source = cycles[s[1] - 1].selected
        /\ runs'[s].source = runs[s].source
    BY <1>1, <1>3 DEF SourcesSelected, KeptRuns
  <2>2. runs[s].source \in Checkpoints
    BY <1>1, <1>3 DEF RunsOK, RunRows
  <2> QED
    BY <1>1, <1>2, <2>1, <2>2
<1>4. CASE s \notin DOMAIN runs
  <2>1. PICK e \in Executors :
           /\ pc[e] = "create" /\ s = Stage(e) /\ cycles' = cycles
           /\ runs' = [t \in DOMAIN runs \cup {Stage(e)} |->
                        IF t = Stage(e) THEN [status |-> "running", source |-> Source(e)]
                        ELSE runs[t]]
    <3> DEFINE Goal == \E e \in Executors :
           /\ pc[e] = "create" /\ s = Stage(e) /\ cycles' = cycles
           /\ runs' = [t \in DOMAIN runs \cup {Stage(e)} |->
                        IF t = Stage(e) THEN [status |-> "running", source |-> Source(e)]
                        ELSE runs[t]]
    <3> SUFFICES Goal
      OBVIOUS
    <3>1. ASSUME NEW h \in Executors, OpenStudy(h) PROVE Goal
      BY <1>4, <3>1 DEF OpenStudy, vars, data
    <3>2. ASSUME NEW h \in Executors, Load(h) PROVE Goal
      BY <1>4, <3>2 DEF Load, vars, data
    <3>3. ASSUME NEW h \in Executors, PassCompleted(h) PROVE Goal
      BY <1>4, <3>3 DEF PassCompleted, Raise, vars, data
    <3>4. ASSUME NEW h \in Executors, BeginCycle(h) PROVE Goal
      BY <1>4, <3>4 DEF BeginCycle, Ends, View, vars, data
    <3>5. ASSUME NEW h \in Executors, FindEvaluation(h) PROVE Goal
      BY <1>4, <3>5 DEF FindEvaluation, Raise, vars, data
    <3>6. ASSUME NEW h \in Executors, Measure(h) PROVE Goal
      BY <1>4, <3>6 DEF Measure, vars, data
    <3>7. ASSUME NEW h \in Executors, SetReference(h) PROVE Goal
      BY <1>4, <3>7 DEF SetReference, vars, data
    <3>8. ASSUME NEW h \in Executors, ResumePrefix(h) PROVE Goal
      BY <1>4, <3>8 DEF ResumePrefix, Raise, vars, data
    <3>9. ASSUME NEW h \in Executors, FindStage(h) PROVE Goal
      BY <1>4, <3>9 DEF FindStage, Raise, vars, data
    <3>10. ASSUME NEW h \in Executors, CreateStage(h) PROVE Goal
      <4>1. runs' # runs
        BY <1>4
      <4>2. /\ pc[h] = "create" /\ cycles' = cycles
            /\ runs' = [t \in DOMAIN runs \cup {Stage(h)} |->
                         IF t = Stage(h) THEN [status |-> "running", source |-> Source(h)]
                         ELSE runs[t]]
        BY <3>10, <4>1 DEF CreateStage, Raise, data
      <4>3. s = Stage(h)
        BY <1>4, <4>2
      <4> QED
        BY <4>2, <4>3
    <3>11. ASSUME NEW h \in Executors, TrainingCompletes(h) PROVE Goal
      <4>1. runs' = [runs EXCEPT ![Stage(h)].status = "completed"]
        BY <3>11 DEF TrainingCompletes
      <4> QED
        BY <1>4, <4>1
    <3>12. ASSUME NEW h \in Executors, RecordCandidate(h) PROVE Goal
      BY <1>4, <3>12 DEF RecordCandidate, Raise, vars, data
    <3>13. ASSUME NEW h \in Executors, StopCycle(h) PROVE Goal
      BY <1>4, <3>13 DEF StopCycle, vars, data
    <3>14. ASSUME NEW h \in Executors, StopStudy(h) PROVE Goal
      BY <1>4, <3>14 DEF StopStudy, vars, data
    <3>15. ASSUME NEW h \in Executors, SetRefit(h) PROVE Goal
      BY <1>4, <3>15 DEF SetRefit, vars, data
    <3>16. ASSUME NEW h \in Executors, SetTest(h) PROVE Goal
      BY <1>4, <3>16 DEF SetTest, vars, data
    <3>17. ASSUME NEW h \in Executors, CloseCycle(h) PROVE Goal
      BY <1>4, <3>17 DEF CloseCycle, vars, data
    <3>18. ASSUME NEW h \in Executors, Finish(h) PROVE Goal
      BY <1>4, <3>18 DEF Finish, Ends, vars, data
    <3>19. ASSUME NEW h \in Executors, FailCycle(h) PROVE Goal
      BY <1>4, <3>19 DEF FailCycle, vars, data
    <3>20. ASSUME NEW h \in Executors, FailStudy(h) PROVE Goal
      BY <1>4, <3>20 DEF FailStudy, vars, data
    <3>21. ASSUME NEW h \in Executors, Leave(h) PROVE Goal
      BY <1>4, <3>21 DEF Leave, Unlock, vars, data
    <3>22. ASSUME NEW h \in Executors, NEW max \in Cycles, Acquire(h, max) PROVE Goal
      BY <1>4, <3>22 DEF Acquire, vars, data
    <3>23. ASSUME NEW h \in Executors, Interrupt(h) PROVE Goal
      <4>1. runs' = runs \/ runs' = [runs EXCEPT ![Stage(h)].status = "failed"]
        BY <3>23 DEF Interrupt
      <4> QED
        BY <1>4, <4>1
    <3>24. ASSUME NEW h \in Executors, Kill(h) PROVE Goal
      BY <1>4, <3>24 DEF Kill, Fault, Unlock, vars, data
    <3>25. CASE LoseLock
      BY <1>4, <3>25 DEF LoseLock, Fault, vars, data
    <3>26. CASE EvaluateByHand
      BY <1>4, <3>26 DEF EvaluateByHand, Fault, vars, data
    <3>27. CASE UNCHANGED vars
      BY <1>4, <3>27 DEF vars, vars, data
    <3> QED
      BY <3>1, <3>2, <3>3, <3>4, <3>5, <3>6, <3>7, <3>8, <3>9, <3>10, <3>11, <3>12, <3>13,
         <3>14, <3>15, <3>16, <3>17, <3>18, <3>19, <3>20, <3>21, <3>22, <3>23, <3>24, <3>25,
         <3>26, <3>27 DEF Next, Step, Refuse
  <2>2. pc[e] \in Holding \ {"tested"} /\ ViewHeld(e)
    BY <2>1 DEF Holding, HeldInv, Held
  <2>3. local[e].winner = None
    BY <2>1, <2>2, StageShape
  <2>4. Stage(e)[1] = local[e].number /\ Source(e) = local[e].previous
    BY <2>2, <2>3, StageShape
  <2>5. runs'[s].source = local[e].previous /\ s[1] = local[e].number
    BY <2>1, <2>4
  <2>6. /\ local[e].number - 1 \in Cycles
        /\ cycles[local[e].number - 1].selected = local[e].previous
    BY <2>2, <2>5 DEF ViewHeld
  <2> QED
    BY <2>1, <2>5, <2>6
<1> QED
  BY <1>3, <1>4

\* The only new index after an evaluation is added is its own.
LEMMA NewIndex ==
    ASSUME IInv, NEW x, evaluations' = Append(evaluations, x),
           NEW i \in DOMAIN evaluations', i \notin DOMAIN evaluations
    PROVE  evaluations'[i] = x
<1>1. evaluations \in Seq(Evaluations \cup {x})
  <2>1. evaluations \in Seq(Evaluations)
    BY DEF IInv, EvaluationsOK
  <2> QED
    BY <2>1, LenProperties, ElementOfSeq
<1>2. /\ Len(evaluations) \in Nat /\ DOMAIN evaluations = 1 .. Len(evaluations)
      /\ DOMAIN evaluations' = 1 .. (Len(evaluations) + 1)
      /\ evaluations'[Len(evaluations) + 1] = x
  BY <1>1, AppendProperties, LenProperties
<1>3. i = Len(evaluations) + 1
  BY <1>2
<1> QED
  BY <1>2, <1>3

\* A test is evaluated after its cycle's selection and refit are stored.
LEMMA TestsStep == IInv /\ HeldInv /\ [Next]_vars => TestsSelected'
<1> SUFFICES ASSUME IInv, HeldInv, [Next]_vars, NEW i \in DOMAIN evaluations',
                    evaluations'[i].scope = "extended_out_of_sample"
             PROVE  LET it == evaluations'[i]
                        cycle == cycles'[it.checkpoint[1]]
                    IN  /\ cycle.refit = it.checkpoint
                        /\ cycle.selected = runs'[it.checkpoint].source
  BY DEF TestsSelected
<1>1. /\ KeptRuns /\ KeptEvaluations /\ RunsOK /\ cycles \in [Cycles -> CycleRows]
      /\ TestsSelected /\ None \notin Checkpoints
  BY RunsStep, EvaluationsStep, Names DEF IInv, CyclesOK, HeldInv
<1>2. ASSUME NEW c \in Cycles
      PROVE  /\ cycles[c].selected # None => cycles'[c].selected = cycles[c].selected
             /\ cycles[c].refit # None => cycles'[c].refit = cycles[c].refit
  <2>1. CASE cycles'[c] = cycles[c]
    BY <2>1
  <2>2. CASE cycles'[c] # cycles[c]
    <3>0. PICK n \in Cycles : \E row : Change(n, row)
      BY <2>2, ChangeStep DEF OneRow
    <3>1. PICK row : Change(n, row)
      BY <3>0
    <3>2. n = c /\ cycles'[c] = row
      BY <1>1, <2>2, <3>1 DEF Change
    <3> QED
      BY <3>1, <3>2 DEF Change, Decided
  <2> QED
    BY <2>1, <2>2
<1>3. CASE i \in DOMAIN evaluations
  <2>1. PICK it : it = evaluations[i] /\ it = evaluations'[i]
    BY <1>1, <1>3 DEF KeptEvaluations
  <2>2. /\ cycles[it.checkpoint[1]].refit = it.checkpoint
        /\ cycles[it.checkpoint[1]].selected = runs[it.checkpoint].source
    BY <1>1, <1>3, <2>1 DEF TestsSelected
  <2>3. EvaluationOK(it) /\ it.checkpoint \in {Base} \cup DOMAIN runs
    BY <1>3, <2>1 DEF IInv, EvaluationsOK
  <2>4. PICK n \in Cycles : it.checkpoint \in Refits(n)
    BY <2>1, <2>3 DEF EvaluationOK
  <2>5. /\ it.checkpoint[1] \in Cycles /\ it.checkpoint \in DOMAIN runs
        /\ it.checkpoint \in Checkpoints
    BY <2>3, <2>4, Kinds, Names
  <2>6. /\ runs[it.checkpoint].source \in Checkpoints
        /\ runs'[it.checkpoint].source = runs[it.checkpoint].source
    BY <1>1, <2>5 DEF RunsOK, RunRows, KeptRuns
  <2> QED
    BY <1>1, <1>2, <2>1, <2>2, <2>5, <2>6
<1>4. CASE i \notin DOMAIN evaluations
  <2>1. PICK e \in Executors :
           /\ pc[e] = "measure_test" /\ evaluations'[i].checkpoint = Stage(e)
           /\ cycles' = cycles /\ runs' = runs
    <3> DEFINE Goal == \E e \in Executors :
           /\ pc[e] = "measure_test" /\ evaluations'[i].checkpoint = Stage(e)
           /\ cycles' = cycles /\ runs' = runs
    <3> SUFFICES Goal
      OBVIOUS
    <3>1. ASSUME NEW h \in Executors, OpenStudy(h) PROVE Goal
      BY <1>4, <3>1 DEF OpenStudy, vars, data
    <3>2. ASSUME NEW h \in Executors, Load(h) PROVE Goal
      BY <1>4, <3>2 DEF Load, vars, data
    <3>3. ASSUME NEW h \in Executors, PassCompleted(h) PROVE Goal
      BY <1>4, <3>3 DEF PassCompleted, Raise, vars, data
    <3>4. ASSUME NEW h \in Executors, BeginCycle(h) PROVE Goal
      BY <1>4, <3>4 DEF BeginCycle, Ends, View, vars, data
    <3>5. ASSUME NEW h \in Executors, FindEvaluation(h) PROVE Goal
      BY <1>4, <3>5 DEF FindEvaluation, Raise, vars, data
    <3>6. ASSUME NEW h \in Executors, Measure(h) PROVE Goal
      <4>1. PICK x : /\ evaluations' = Append(evaluations, x)
                    /\ x.checkpoint = Target(h).checkpoint /\ x.scope = Target(h).scope
        BY <3>6 DEF Measure, Measured
      <4>2. evaluations'[i] = x
        BY <1>4, <4>1, NewIndex
      <4>3. pc[h] \in {"measure_reference", "measure_test"} /\ cycles' = cycles /\ runs' = runs
        BY <3>6 DEF Measure
      <4>4. pc[h] = "measure_test" /\ x.checkpoint = Stage(h)
        BY <4>1, <4>2, <4>3, TargetShape
      <4> QED
        BY <4>2, <4>3, <4>4
    <3>7. ASSUME NEW h \in Executors, SetReference(h) PROVE Goal
      BY <1>4, <3>7 DEF SetReference, vars, data
    <3>8. ASSUME NEW h \in Executors, ResumePrefix(h) PROVE Goal
      BY <1>4, <3>8 DEF ResumePrefix, Raise, vars, data
    <3>9. ASSUME NEW h \in Executors, FindStage(h) PROVE Goal
      BY <1>4, <3>9 DEF FindStage, Raise, vars, data
    <3>10. ASSUME NEW h \in Executors, CreateStage(h) PROVE Goal
      BY <1>4, <3>10 DEF CreateStage, Raise, vars, data
    <3>11. ASSUME NEW h \in Executors, TrainingCompletes(h) PROVE Goal
      <4>1. PICK x : x.scope = "run_validation" /\ evaluations' = Append(evaluations, x)
        BY <1>4, <3>11 DEF TrainingCompletes, Measured
      <4> QED
        BY <1>4, <4>1, NewIndex
    <3>12. ASSUME NEW h \in Executors, RecordCandidate(h) PROVE Goal
      BY <1>4, <3>12 DEF RecordCandidate, Raise, vars, data
    <3>13. ASSUME NEW h \in Executors, StopCycle(h) PROVE Goal
      BY <1>4, <3>13 DEF StopCycle, vars, data
    <3>14. ASSUME NEW h \in Executors, StopStudy(h) PROVE Goal
      BY <1>4, <3>14 DEF StopStudy, vars, data
    <3>15. ASSUME NEW h \in Executors, SetRefit(h) PROVE Goal
      BY <1>4, <3>15 DEF SetRefit, vars, data
    <3>16. ASSUME NEW h \in Executors, SetTest(h) PROVE Goal
      BY <1>4, <3>16 DEF SetTest, vars, data
    <3>17. ASSUME NEW h \in Executors, CloseCycle(h) PROVE Goal
      BY <1>4, <3>17 DEF CloseCycle, vars, data
    <3>18. ASSUME NEW h \in Executors, Finish(h) PROVE Goal
      BY <1>4, <3>18 DEF Finish, Ends, vars, data
    <3>19. ASSUME NEW h \in Executors, FailCycle(h) PROVE Goal
      BY <1>4, <3>19 DEF FailCycle, vars, data
    <3>20. ASSUME NEW h \in Executors, FailStudy(h) PROVE Goal
      BY <1>4, <3>20 DEF FailStudy, vars, data
    <3>21. ASSUME NEW h \in Executors, Leave(h) PROVE Goal
      BY <1>4, <3>21 DEF Leave, Unlock, vars, data
    <3>22. ASSUME NEW h \in Executors, NEW max \in Cycles, Acquire(h, max) PROVE Goal
      BY <1>4, <3>22 DEF Acquire, vars, data
    <3>23. ASSUME NEW h \in Executors, Interrupt(h) PROVE Goal
      BY <1>4, <3>23 DEF Interrupt, Fault, vars, data
    <3>24. ASSUME NEW h \in Executors, Kill(h) PROVE Goal
      BY <1>4, <3>24 DEF Kill, Fault, Unlock, vars, data
    <3>25. CASE LoseLock
      BY <1>4, <3>25 DEF LoseLock, Fault, vars, data
    <3>26. CASE EvaluateByHand
      <4>1. PICK x : x.scope = "run_validation" /\ evaluations' = Append(evaluations, x)
        BY <1>4, <3>26 DEF EvaluateByHand, Measured
      <4> QED
        BY <1>4, <4>1, NewIndex
    <3>27. CASE UNCHANGED vars
      BY <1>4, <3>27 DEF vars, vars, data
    <3> QED
      BY <3>1, <3>2, <3>3, <3>4, <3>5, <3>6, <3>7, <3>8, <3>9, <3>10, <3>11, <3>12, <3>13,
         <3>14, <3>15, <3>16, <3>17, <3>18, <3>19, <3>20, <3>21, <3>22, <3>23, <3>24, <3>25,
         <3>26, <3>27 DEF Next, Step, Refuse
  <2>2. /\ pc[e] \in Holding \ {"tested"} /\ local[e].winner # None
        /\ Stage(e) \in DOMAIN runs
    BY <2>1 DEF Holding, Refitting, IInv, ExecutorsOK, GridOK, StageOK, Completed
  <2>3. /\ Stage(e) = <<local[e].number, "refit", local[e].winner.order>>
        /\ Source(e) = <<local[e].number, "candidate", local[e].winner.order>>
        /\ Source(e) = local[e].winner.checkpoint
    BY <2>2, StageShape
  <2>4. cycles[local[e].number].refit = Stage(e)
    BY <2>1 DEF HeldInv, Held, TestHeld, Cycle
  <2>5. cycles[local[e].number].selected = local[e].winner.checkpoint
    BY <2>2, AtCycle
  <2>6. runs[Stage(e)].source = Source(e)
    BY <1>1, <2>2, <2>3 DEF RunsOK
  <2> QED
    BY <2>1, <2>3, <2>4, <2>5, <2>6
<1> QED
  BY <1>3, <1>4

\* While its connection lives, the holder of the lock is the one executor at work.
LEMMA LockStep == IInv /\ LockHeld /\ ~ lost' /\ [Next]_vars => LockHeld'
<1> SUFFICES ASSUME IInv, LockHeld, ~ lost', [Next]_vars PROVE LockHeld'
  OBVIOUS
<1>p. pc \in [Executors -> Labels] /\ None \notin Executors
  BY Names DEF IInv, ControlOK
<1> USE DEF LockHeld, Goto
<1>1. ASSUME NEW e \in Executors, OpenStudy(e) PROVE LockHeld'
  <2>1. pc[e] # "off" /\ lock' = lock
    BY <1>1 DEF OpenStudy, data
  <2>2. \A f \in Executors : pc'[f] # "off" <=> pc[f] # "off"
    BY <1>p, <2>1, <1>1 DEF OpenStudy
  <2> QED
    BY <2>1, <2>2
<1>2. ASSUME NEW e \in Executors, Load(e) PROVE LockHeld'
  <2>1. pc[e] # "off" /\ lock' = lock
    BY <1>2 DEF Load, data
  <2>2. \A f \in Executors : pc'[f] # "off" <=> pc[f] # "off"
    BY <1>p, <2>1, <1>2 DEF Load
  <2> QED
    BY <2>1, <2>2
<1>3. ASSUME NEW e \in Executors, PassCompleted(e) PROVE LockHeld'
  <2>1. pc[e] # "off" /\ lock' = lock
    BY <1>3 DEF PassCompleted, Raise, data
  <2>2. \A f \in Executors : pc'[f] # "off" <=> pc[f] # "off"
    BY <1>p, <2>1, <1>3 DEF PassCompleted, Raise
  <2> QED
    BY <2>1, <2>2
<1>4. ASSUME NEW e \in Executors, BeginCycle(e) PROVE LockHeld'
  <2>1. pc[e] # "off" /\ lock' = lock
    BY <1>4 DEF BeginCycle, Ends, View, data
  <2>2. \A f \in Executors : pc'[f] # "off" <=> pc[f] # "off"
    BY <1>p, <2>1, <1>4 DEF BeginCycle, Ends, View
  <2> QED
    BY <2>1, <2>2
<1>5. ASSUME NEW e \in Executors, FindEvaluation(e) PROVE LockHeld'
  <2>1. pc[e] # "off" /\ lock' = lock
    BY <1>5 DEF FindEvaluation, Raise, data
  <2>2. \A f \in Executors : pc'[f] # "off" <=> pc[f] # "off"
    BY <1>p, <2>1, <1>5 DEF FindEvaluation, Raise
  <2> QED
    BY <2>1, <2>2
<1>6. ASSUME NEW e \in Executors, Measure(e) PROVE LockHeld'
  <2>1. pc[e] # "off" /\ lock' = lock
    BY <1>6 DEF Measure, data
  <2>2. \A f \in Executors : pc'[f] # "off" <=> pc[f] # "off"
    BY <1>p, <2>1, <1>6 DEF Measure
  <2> QED
    BY <2>1, <2>2
<1>7. ASSUME NEW e \in Executors, SetReference(e) PROVE LockHeld'
  <2>1. pc[e] # "off" /\ lock' = lock
    BY <1>7 DEF SetReference, data
  <2>2. \A f \in Executors : pc'[f] # "off" <=> pc[f] # "off"
    BY <1>p, <2>1, <1>7 DEF SetReference
  <2> QED
    BY <2>1, <2>2
<1>8. ASSUME NEW e \in Executors, ResumePrefix(e) PROVE LockHeld'
  <2>1. pc[e] # "off" /\ lock' = lock
    BY <1>8 DEF ResumePrefix, Raise, data
  <2>2. \A f \in Executors : pc'[f] # "off" <=> pc[f] # "off"
    BY <1>p, <2>1, <1>8 DEF ResumePrefix, Raise
  <2> QED
    BY <2>1, <2>2
<1>9. ASSUME NEW e \in Executors, FindStage(e) PROVE LockHeld'
  <2>1. pc[e] # "off" /\ lock' = lock
    BY <1>9 DEF FindStage, Raise, data
  <2>2. \A f \in Executors : pc'[f] # "off" <=> pc[f] # "off"
    BY <1>p, <2>1, <1>9 DEF FindStage, Raise
  <2> QED
    BY <2>1, <2>2
<1>10. ASSUME NEW e \in Executors, CreateStage(e) PROVE LockHeld'
  <2>1. pc[e] # "off" /\ lock' = lock
    BY <1>10 DEF CreateStage, Raise, data
  <2>2. \A f \in Executors : pc'[f] # "off" <=> pc[f] # "off"
    BY <1>p, <2>1, <1>10 DEF CreateStage, Raise
  <2> QED
    BY <2>1, <2>2
<1>11. ASSUME NEW e \in Executors, TrainingCompletes(e) PROVE LockHeld'
  <2>1. pc[e] # "off" /\ lock' = lock
    BY <1>11 DEF TrainingCompletes, data
  <2>2. \A f \in Executors : pc'[f] # "off" <=> pc[f] # "off"
    BY <1>p, <2>1, <1>11 DEF TrainingCompletes
  <2> QED
    BY <2>1, <2>2
<1>12. ASSUME NEW e \in Executors, RecordCandidate(e) PROVE LockHeld'
  <2>1. pc[e] # "off" /\ lock' = lock
    BY <1>12 DEF RecordCandidate, Raise, data
  <2>2. \A f \in Executors : pc'[f] # "off" <=> pc[f] # "off"
    BY <1>p, <2>1, <1>12 DEF RecordCandidate, Raise
  <2> QED
    BY <2>1, <2>2
<1>13. ASSUME NEW e \in Executors, StopCycle(e) PROVE LockHeld'
  <2>1. pc[e] # "off" /\ lock' = lock
    BY <1>13 DEF StopCycle, data
  <2>2. \A f \in Executors : pc'[f] # "off" <=> pc[f] # "off"
    BY <1>p, <2>1, <1>13 DEF StopCycle
  <2> QED
    BY <2>1, <2>2
<1>14. ASSUME NEW e \in Executors, StopStudy(e) PROVE LockHeld'
  <2>1. pc[e] # "off" /\ lock' = lock
    BY <1>14 DEF StopStudy, data
  <2>2. \A f \in Executors : pc'[f] # "off" <=> pc[f] # "off"
    BY <1>p, <2>1, <1>14 DEF StopStudy
  <2> QED
    BY <2>1, <2>2
<1>15. ASSUME NEW e \in Executors, SetRefit(e) PROVE LockHeld'
  <2>1. pc[e] # "off" /\ lock' = lock
    BY <1>15 DEF SetRefit, data
  <2>2. \A f \in Executors : pc'[f] # "off" <=> pc[f] # "off"
    BY <1>p, <2>1, <1>15 DEF SetRefit
  <2> QED
    BY <2>1, <2>2
<1>16. ASSUME NEW e \in Executors, SetTest(e) PROVE LockHeld'
  <2>1. pc[e] # "off" /\ lock' = lock
    BY <1>16 DEF SetTest, data
  <2>2. \A f \in Executors : pc'[f] # "off" <=> pc[f] # "off"
    BY <1>p, <2>1, <1>16 DEF SetTest
  <2> QED
    BY <2>1, <2>2
<1>17. ASSUME NEW e \in Executors, CloseCycle(e) PROVE LockHeld'
  <2>1. pc[e] # "off" /\ lock' = lock
    BY <1>17 DEF CloseCycle, data
  <2>2. \A f \in Executors : pc'[f] # "off" <=> pc[f] # "off"
    BY <1>p, <2>1, <1>17 DEF CloseCycle
  <2> QED
    BY <2>1, <2>2
<1>18. ASSUME NEW e \in Executors, Finish(e) PROVE LockHeld'
  <2>1. pc[e] # "off" /\ lock' = lock
    BY <1>18 DEF Finish, Ends, data
  <2>2. \A f \in Executors : pc'[f] # "off" <=> pc[f] # "off"
    BY <1>p, <2>1, <1>18 DEF Finish, Ends
  <2> QED
    BY <2>1, <2>2
<1>19. ASSUME NEW e \in Executors, FailCycle(e) PROVE LockHeld'
  <2>1. pc[e] # "off" /\ lock' = lock
    BY <1>19 DEF FailCycle, data
  <2>2. \A f \in Executors : pc'[f] # "off" <=> pc[f] # "off"
    BY <1>p, <2>1, <1>19 DEF FailCycle
  <2> QED
    BY <2>1, <2>2
<1>20. ASSUME NEW e \in Executors, FailStudy(e) PROVE LockHeld'
  <2>1. pc[e] # "off" /\ lock' = lock
    BY <1>20 DEF FailStudy, data
  <2>2. \A f \in Executors : pc'[f] # "off" <=> pc[f] # "off"
    BY <1>p, <2>1, <1>20 DEF FailStudy
  <2> QED
    BY <2>1, <2>2
<1>21. ASSUME NEW e \in Executors, Leave(e) PROVE LockHeld'
  <2>1. pc[e] # "off" /\ lock = e /\ lock' = None
    BY <1>21 DEF Leave, Unlock
  <2>2. \A f \in Executors : pc'[f] = "off"
    BY <1>p, <2>1, <1>21 DEF Leave, Unlock
  <2> QED
    BY <1>p, <2>1, <2>2
<1>22. ASSUME NEW e \in Executors, NEW max \in Cycles, Acquire(e, max) PROVE LockHeld'
  <2>1. \A f \in Executors : pc[f] = "off"
    BY <1>p, <1>22 DEF Acquire
  <2>2. lock' = e /\ \A f \in Executors : pc'[f] # "off" <=> f = e
    BY <1>p, <2>1, <1>22 DEF Acquire
  <2> QED
    BY <2>2
<1>23. ASSUME NEW e \in Executors, Interrupt(e) PROVE LockHeld'
  <2>1. pc[e] # "off" /\ lock' = lock
    BY <1>23 DEF Interrupt, Fault, data, Outside
  <2>2. \A f \in Executors : pc'[f] # "off" <=> pc[f] # "off"
    BY <1>p, <2>1, <1>23 DEF Interrupt, Fault
  <2> QED
    BY <2>1, <2>2
<1>24. ASSUME NEW e \in Executors, Kill(e) PROVE LockHeld'
  <2>1. pc[e] # "off" /\ lock = e /\ lock' = None
    BY <1>24 DEF Kill, Fault, Unlock
  <2>2. \A f \in Executors : pc'[f] = "off"
    BY <1>p, <2>1, <1>24 DEF Kill, Fault, Unlock
  <2> QED
    BY <1>p, <2>1, <2>2
<1>25. CASE LoseLock
  BY <1>25 DEF LoseLock, Fault, vars, data
<1>26. CASE EvaluateByHand
  BY <1>26 DEF EvaluateByHand, Fault, vars, data
<1>27. CASE UNCHANGED vars
  BY <1>27 DEF vars, vars, data
<1> QED
  BY <1>1, <1>2, <1>3, <1>4, <1>5, <1>6, <1>7, <1>8, <1>9, <1>10, <1>11, <1>12, <1>13, <1>14,
     <1>15, <1>16, <1>17, <1>18, <1>19, <1>20, <1>21, <1>22, <1>23, <1>24, <1>25, <1>26,
     <1>27 DEF Next, Step, Refuse

\* An added evaluation is the last one.
LEMMA NewLast ==
    ASSUME IInv, NEW x, evaluations' = Append(evaluations, x)
    PROVE  Len(evaluations) + 1 \in DOMAIN evaluations' /\ evaluations'[Len(evaluations) + 1] = x
<1>1. evaluations \in Seq(Evaluations \cup {x})
  <2>1. evaluations \in Seq(Evaluations)
    BY DEF IInv, EvaluationsOK
  <2> QED
    BY <2>1, LenProperties, ElementOfSeq
<1>2. /\ Len(evaluations) \in Nat
      /\ DOMAIN evaluations' = 1 .. (Len(evaluations) + 1)
      /\ evaluations'[Len(evaluations) + 1] = x
  BY <1>1, AppendProperties, LenProperties
<1> QED
  BY <1>2

\* An executor that holds no cycle and looks for none.
LEMMA IdleHeld ==
    ASSUME NEW e, pc'[e] \notin Holding \cup {"cycle"}
    PROVE  Held(e)'
<1>1. ViewHeld(e)'
  BY DEF ViewHeld, Holding, Choosing, Refitting
<1>2. GridHeld(e)'
  BY DEF GridHeld, Holding, Choosing, Refitting
<1>3. TestHeld(e)'
  BY DEF TestHeld, Holding, Choosing, Refitting
<1> QED
  BY <1>1, <1>2, <1>3 DEF Held

\* Within a cycle, the other cycles are as they were read.
LEMMA ViewSame ==
    ASSUME IInv, HeldInv, NEW e \in Executors,
           pc[e] \in Holding \ {"tested"}, pc'[e] \in Holding \ {"tested"},
           local'[e].view = local[e].view, local'[e].number = local[e].number,
           local'[e].previous = local[e].previous,
           \A c \in Cycles : c # local[e].number => cycles'[c] = cycles[c]
    PROVE  ViewHeld(e)'
<1>1. ViewHeld(e) /\ local[e].number \in Cycles /\ Cycles \subseteq Nat \ {0}
  BY AtCycle, Names
<1>2. PICK n : n = local[e].number
  OBVIOUS
<1>3. \A c \in Cycles : n < c => c # n
  BY <1>1, <1>2
<1>n. n \in Nat
  BY <1>1, <1>2
<1>4. n - 1 # n
  BY <1>n
<1>5. \A c \in Cycles : n < c => cycles'[c] = local'[e].view[c]
  BY <1>1, <1>2, <1>3 DEF ViewHeld
<1>6. n # 1 => n - 1 \in Cycles /\ cycles'[n - 1].selected = local'[e].previous
  BY <1>1, <1>2, <1>4 DEF ViewHeld
<1>7. pc'[e] # "cycle" /\ pc'[e] # "tested"
  BY DEF Holding, Choosing, Refitting
<1> QED
  BY <1>2, <1>5, <1>6, <1>7 DEF ViewHeld

\* Every step of the executor at work leaves it where it should be.
LEMMA OwnHeld ==
    ASSUME IInv, HeldInv, [Next]_vars, NEW e \in Executors,
           (\E max \in Cycles : Acquire(e, max)) \/ Step(e) \/ Interrupt(e) \/ Kill(e)
    PROVE  Held(e)'
<1>p. /\ pc \in [Executors -> Labels] /\ local \in [Executors -> Locals]
      /\ cycles \in [Cycles -> CycleRows]
      /\ LoopOK(e) /\ GridOK(e) /\ StageOK(e) /\ ViewHeld(e) /\ GridHeld(e) /\ TestHeld(e)
  BY DEF IInv, ControlOK, LocalsOK, CyclesOK, ExecutorsOK, HeldInv, Held
<1>i. Raise(e) => Held(e)'
  <2>1. Raise(e) => pc'[e] \notin Holding \cup {"cycle"}
    BY <1>p DEF Raise, Goto, Holding, Choosing, Refitting
  <2> QED
    BY <2>1, IdleHeld
<1>k. KeptEvaluations /\ Cycles \subseteq Nat \ {0} /\ None \notin Nat /\ None \notin Checkpoints
  BY EvaluationsStep, Names
<1>1. CASE OpenStudy(e)
  <2>1. pc'[e] \notin Holding \cup {"cycle"}
    BY <1>p, <1>1 DEF OpenStudy, Goto, Holding, Choosing, Refitting
  <2> QED
    BY <2>1, IdleHeld
<1>2. CASE Load(e)
  <2>1. /\ pc'[e] = "cycle" /\ local'[e].view = cycles /\ local'[e].number = 1
        /\ cycles' = cycles
    BY <1>p, <1>2 DEF Load, Goto, Locals, data
  <2>2. ViewHeld(e)'
    BY <2>1 DEF ViewHeld, Cycle, View, Holding, Choosing, Refitting
  <2> QED
    BY <2>1, <2>2 DEF Held, GridHeld, TestHeld, Holding, Choosing, Refitting
<1>3. CASE PassCompleted(e)
  <2>1. CASE Raise(e)
    BY <1>i, <2>1
  <2>2. CASE ~ Raise(e)
    <3>1. /\ pc[e] = "cycle" /\ pc' = pc /\ ~ Ends(e) /\ cycles' = cycles
          /\ local' = [local EXCEPT ![e].previous = View(e).selected, ![e].number = @ + 1]
      BY <2>2, <1>3 DEF PassCompleted, data
    <3>2. /\ local'[e].view = local[e].view /\ local'[e].number = local[e].number + 1
          /\ local'[e].previous = View(e).selected
      BY <1>p, <3>1 DEF Locals
    <3>3. PICK n : n = local[e].number
      OBVIOUS
    <3>4. n \in Cycles /\ n \in Nat \ {0} /\ cycles[n] = View(e)
      BY <1>k, <1>p, <3>1, <3>3 DEF Ends, ViewHeld, Cycle
    <3>5. \A c \in Cycles : n + 1 <= c => n < c
      BY <1>k, <3>4
    <3>6. \A c \in Cycles : n + 1 < c => n + 1 <= c
      BY <1>k, <3>4
    <3>7. \A c \in Cycles : n < c => cycles[c] = local[e].view[c]
      BY <1>p, <3>1, <3>3 DEF ViewHeld
    <3>8. (n + 1) - 1 = n /\ n + 1 <= n + 1
      BY <3>4
    <3>9. ViewHeld(e)'
      <4>1. \A c \in Cycles : n + 1 < c => cycles[c] = local[e].view[c]
        BY <3>5, <3>6, <3>7
      <4>2. n + 1 \in Cycles => cycles[n + 1] = local[e].view[n + 1]
        BY <3>5, <3>7, <3>8
      <4>3. cycles[(n + 1) - 1].selected = View(e).selected /\ (n + 1) - 1 \in Cycles
        BY <3>4, <3>8
      <4>4. pc'[e] = "cycle" /\ local'[e].number = n + 1
        BY <3>1, <3>2, <3>3
      <4> HIDE DEF View
      <4> QED
        BY <3>1, <3>2, <4>1, <4>2, <4>3, <4>4 DEF ViewHeld, Cycle, View
    <3> QED
      BY <3>1, <3>9 DEF Held, GridHeld, TestHeld, Holding, Choosing, Refitting
  <2> QED
    BY <2>1, <2>2
<1>4. CASE BeginCycle(e)
  <2>1. CASE pc'[e] = "raised"
    BY <2>1, IdleHeld DEF Holding, Choosing, Refitting
  <2>2. CASE pc'[e] # "raised"
    <3>1. /\ pc[e] = "cycle" /\ ~ Ends(e)
          /\ local' = [local EXCEPT ![e].current = local[e].number, ![e].reference = View(e).reference,
                                    ![e].records = View(e).records]
          /\ cycles' = [cycles EXCEPT ![local[e].number].source = local[e].previous,
                                      ![local[e].number].status = "running"]
          /\ pc'[e] = IF View(e).reference = None THEN "reference" ELSE "prefix"
      BY <1>p, <2>2, <1>4 DEF BeginCycle, Goto
    <3>2. /\ local'[e].view = local[e].view /\ local'[e].number = local[e].number
          /\ local'[e].previous = local[e].previous /\ local'[e].winner = local[e].winner
          /\ local'[e].reference = View(e).reference /\ local'[e].records = View(e).records
      BY <1>p, <3>1 DEF Locals
    <3>3. PICK n : n = local[e].number
      OBVIOUS
    <3>4. n \in Cycles /\ n \in Nat \ {0} /\ cycles[n] = View(e) /\ local[e].winner = None
      BY <1>k, <1>p, <3>1, <3>3 DEF Ends, ViewHeld, Cycle, GridOK
    <3>5. \A c \in Cycles : c # n => cycles'[c] = cycles[c]
      BY <1>p, <3>1, <3>3
    <3>6. /\ cycles'[n].records = View(e).records /\ cycles'[n].reference = View(e).reference
          /\ cycles'[n].selected = View(e).selected
      BY <1>p, <3>1, <3>3, <3>4 DEF CycleRows
    <3>7. View(e)' = View(e) /\ Cycle(e)' = cycles'[n]
      BY <3>2, <3>3 DEF View, Cycle
    <3>8. pc'[e] \in {"reference", "prefix"} /\ (pc'[e] = "reference" <=> View(e).reference = None)
      BY <3>1
    <3>9. ViewHeld(e)'
      <4>1. \A c \in Cycles : n < c => c # n
        BY <1>k, <3>4
      <4>2. n - 1 # n
        BY <3>4
      <4>3. \A c \in Cycles : n < c => cycles'[c] = local[e].view[c]
        BY <1>p, <3>1, <3>3, <3>5, <4>1 DEF ViewHeld
      <4>4. n # 1 => n - 1 \in Cycles /\ cycles'[n - 1].selected = local[e].previous
        BY <1>p, <3>1, <3>3, <3>5, <4>2 DEF ViewHeld
      <4> QED
        BY <3>2, <3>3, <3>8, <4>3, <4>4 DEF ViewHeld
    <3>10. GridHeld(e)'
      BY <3>2, <3>4, <3>6, <3>7, <3>8 DEF GridHeld, Holding, Choosing, Refitting
    <3> QED
      BY <3>8, <3>9, <3>10 DEF Held, TestHeld
  <2> QED
    BY <2>1, <2>2
<1>5. CASE FindEvaluation(e)
  <2>1. CASE Raise(e)
    BY <1>i, <2>1
  <2>2. CASE ~ Raise(e)
    <3> DEFINE t == Target(e)
               rows == Matching(t.checkpoint, t.scope, t.range)
               i == IF rows = {} THEN None ELSE CHOOSE k \in rows : TRUE
    <3>1. /\ pc[e] \in {"reference", "test"} /\ ~ (Cardinality(rows) > 1)
          /\ local' = [local EXCEPT ![e].found = i]
          /\ pc'[e] = IF rows = {}
                      THEN (IF pc[e] = "reference" THEN "measure_reference" ELSE "measure_test")
                      ELSE (IF pc[e] = "reference" THEN "set_reference" ELSE "set_test")
          /\ UNCHANGED <<data, lock, bounds>>
      BY <1>p, <2>2, <1>5 DEF FindEvaluation, Goto
    <3>2. rows # {} => i \in rows
      OBVIOUS
    <3>m. /\ pc[e] = "test" => rows = Matching(Stage(e), "extended_out_of_sample", TestRange(local[e].number))
          /\ IsFiniteSet(rows)
      <4>1. pc[e] = "test" => /\ t.checkpoint = Stage(e) /\ t.scope = "extended_out_of_sample"
                             /\ t.range = TestRange(local[e].number)
        BY TargetShape
      <4>2. IsFiniteSet(rows)
        <5>1. rows \subseteq 1 .. Len(evaluations) /\ Len(evaluations) \in Nat
          BY LenProperties DEF Matching, IInv, EvaluationsOK
        <5>2. IsFiniteSet(1 .. Len(evaluations))
        BY <5>1, FS_Interval
      <5>3. rows \in SUBSET (1 .. Len(evaluations))
        BY <5>1
      <5> HIDE DEF rows
      <5> QED
        BY <5>2, <5>3, FS_Subset
      <4> HIDE DEF t
      <4> QED
        BY <4>1, <4>2
    <3> HIDE DEF t, rows, i
    <3>u. \A k \in rows : k = i
      <4>1. CASE rows = {}
        BY <4>1
      <4>2. CASE rows # {}
        <5>1. Cardinality(rows) \in Nat /\ Cardinality(rows) # 0
          BY <3>m, <4>2, FS_CardinalityType, FS_EmptySet
        <5>2. Cardinality(rows) = 1
          BY <3>1, <5>1
        <5>3. PICK x : rows = {x}
          BY <3>m, <5>2, FS_Singleton
        <5> QED
          BY <3>2, <5>3
      <4> QED
        BY <4>1, <4>2
    <3>3. /\ local'[e].view = local[e].view /\ local'[e].number = local[e].number
          /\ local'[e].previous = local[e].previous /\ local'[e].winner = local[e].winner
          /\ local'[e].reference = local[e].reference /\ local'[e].records = local[e].records
          /\ local'[e].found = i
      BY <1>p, <3>1 DEF Locals
    <3>4. \/ pc[e] = "reference" /\ pc'[e] \in {"measure_reference", "set_reference"}
          \/ pc[e] = "test" /\ pc'[e] = "measure_test" /\ rows = {}
          \/ pc[e] = "test" /\ pc'[e] = "set_test" /\ rows # {}
      BY <3>1
    <3>s. Cycle(e)' = Cycle(e) /\ View(e)' = View(e)
      BY <3>1, <3>3 DEF Cycle, View, data
    <3>v. ViewHeld(e)'
      BY <3>1, <3>3, <3>4, ViewSame DEF Holding, Choosing, Refitting, data
    <3>g. GridHeld(e)'
      BY <1>p, <3>3, <3>4, <3>s DEF GridHeld, Holding, Choosing, Refitting
    <3>t. TestHeld(e)'
      <4>1. CASE pc[e] = "test"
        <5>1. Cycle(e).refit = Stage(e) /\ Stage(e)' = Stage(e)
          BY <1>p, <3>3, <4>1 DEF TestHeld, Stage
        <5>2. Cycle(e).test # None => Cycle(e).test \in rows
          <6>1. RowSound(Cycle(e), local[e].number)
            BY <4>1, AtCycle DEF Holding, Refitting
          <6> QED
            BY <3>m, <4>1, <5>1, <6>1 DEF RowSound
        <5>3. rows # {} => i \in Matching(Stage(e), "extended_out_of_sample", TestRange(local[e].number))'
          <6>1. Matching(Stage(e), "extended_out_of_sample", TestRange(local[e].number))'
                   = Matching(Stage(e), "extended_out_of_sample", TestRange(local[e].number))
            BY <3>1, <3>3, <5>1 DEF Matching, data
          <6> QED
            BY <3>2, <3>m, <4>1, <6>1
        <5> QED
          BY <3>3, <3>4, <3>s, <3>u, <4>1, <5>1, <5>2, <5>3 DEF TestHeld
      <4>2. CASE pc[e] = "reference"
        BY <3>4, <4>2 DEF TestHeld
      <4> QED
        BY <3>1, <4>1, <4>2
    <3> QED
      BY <3>v, <3>g, <3>t DEF Held
  <2> QED
    BY <2>1, <2>2
<1>6. CASE Measure(e)
  <2>1. /\ local' = [local EXCEPT ![e].found = Len(evaluations) + 1]
        /\ cycles' = cycles /\ runs' = runs
        /\ \/ pc[e] = "measure_reference" /\ pc'[e] = "set_reference"
           \/ pc[e] = "measure_test" /\ pc'[e] = "set_test"
    BY <1>p, <1>6 DEF Measure, Goto
  <2>3. /\ local'[e].view = local[e].view /\ local'[e].number = local[e].number
        /\ local'[e].previous = local[e].previous /\ local'[e].winner = local[e].winner
        /\ local'[e].reference = local[e].reference /\ local'[e].records = local[e].records
        /\ local'[e].found = Len(evaluations) + 1
    BY <1>p, <2>1 DEF Locals
  <2>s. Cycle(e)' = Cycle(e) /\ View(e)' = View(e) /\ Stage(e)' = Stage(e)
    BY <2>1, <2>3 DEF Cycle, View, Stage
  <2>v. ViewHeld(e)'
    BY <2>1, <2>3, ViewSame DEF Holding, Choosing, Refitting
  <2>g. GridHeld(e)'
    BY <1>p, <2>1, <2>3, <2>s DEF GridHeld, Holding, Choosing, Refitting
  <2>t. TestHeld(e)'
    <3>1. CASE pc[e] = "measure_test"
      <4>1. PICK x : /\ evaluations' = Append(evaluations, x)
                    /\ x.checkpoint = Target(e).checkpoint /\ x.scope = Target(e).scope
                    /\ x.range = Target(e).range
        BY <1>6 DEF Measure, Measured
      <4>2. /\ x.checkpoint = Stage(e) /\ x.scope = "extended_out_of_sample"
            /\ x.range = TestRange(local[e].number)
        BY <3>1, <4>1, TargetShape
      <4>3. PICK m : m = Len(evaluations) + 1
        OBVIOUS
      <4>4. m \in DOMAIN evaluations' /\ evaluations'[m] = x
        BY <4>1, <4>3, NewLast
      <4>5. m \in Matching(Stage(e), "extended_out_of_sample", TestRange(local[e].number))'
        BY <2>3, <2>s, <4>2, <4>4 DEF Matching
      <4>6. Cycle(e).refit = Stage(e) /\ Cycle(e).test = None
        BY <1>p, <3>1 DEF TestHeld
      <4>7. pc'[e] = "set_test" /\ local'[e].found = m
        BY <2>1, <2>3, <3>1, <4>3
      <4> QED
        BY <2>s, <4>5, <4>6, <4>7 DEF TestHeld
    <3>2. CASE pc[e] = "measure_reference"
      BY <2>1, <3>2 DEF TestHeld
    <3> QED
      BY <2>1, <3>1, <3>2
  <2> QED
    BY <2>v, <2>g, <2>t DEF Held
<1>7. CASE SetReference(e)
  <2>1. /\ local' = [local EXCEPT ![e].reference = local[e].found]
        /\ pc[e] = "set_reference" /\ pc'[e] = "prefix"
        /\ cycles' = [cycles EXCEPT ![local[e].number].reference = local[e].found]
    BY <1>p, <1>7 DEF SetReference, Goto
  <2>3. /\ local'[e].view = local[e].view /\ local'[e].number = local[e].number
        /\ local'[e].previous = local[e].previous /\ local'[e].winner = local[e].winner
        /\ local'[e].reference = local[e].found /\ local'[e].records = local[e].records
        /\ local'[e].found = local[e].found
    BY <1>p, <2>1 DEF Locals
  <2>4. local[e].number \in Cycles
    BY <2>1, AtCycle DEF Holding, Choosing
  <2>5. /\ Cycle(e)'.reference = local[e].found /\ Cycle(e)'.records = Cycle(e).records
        /\ Cycle(e)'.selected = Cycle(e).selected /\ View(e)' = View(e)
    BY <1>p, <2>1, <2>3, <2>4 DEF Cycle, View, CycleRows
  <2>6. \A c \in Cycles : c # local[e].number => cycles'[c] = cycles[c]
    BY <1>p, <2>1
  <2>v. ViewHeld(e)'
    BY <2>1, <2>3, <2>6, ViewSame DEF Holding, Choosing, Refitting
  <2>g. GridHeld(e)'
    BY <1>p, <2>1, <2>3, <2>5 DEF GridHeld, Holding, Choosing, Refitting
  <2>t. TestHeld(e)'
    BY <2>1 DEF TestHeld
  <2> QED
    BY <2>v, <2>g, <2>t DEF Held
<1>8. CASE ResumePrefix(e)
  <2>1. CASE Raise(e)
    BY <1>i, <2>1
  <2>2. CASE ~ Raise(e)
    <3> DEFINE w == SelectCandidate(local[e].records, ReferenceScore(e))
    <3>1. /\ pc[e] = "prefix" /\ local' = [local EXCEPT ![e].winner = w]
          /\ View(e).selected # None => w # None /\ w.checkpoint = View(e).selected
          /\ pc'[e] = IF w = None THEN "grid" ELSE "refit"
          /\ UNCHANGED <<data, lock, bounds>>
      BY <1>p, <2>2, <1>8 DEF ResumePrefix, Goto
    <3>2. Cycle(e).selected = None => w = None
      <4>1. /\ RowSound(Cycle(e), local[e].number) /\ local[e].records = Cycle(e).records
            /\ local[e].reference = Cycle(e).reference
            /\ local[e].records \in Seq(RecordsOf(local[e].number))
        BY <3>1, AtCycle DEF Holding, Choosing, GridOK
      <4>2. ASSUME Cycle(e).selected = None, w # None PROVE FALSE
        <5>1. PICK k \in DOMAIN local[e].records : Improves(local[e].records[k], ReferenceScore(e))
          BY <4>1, <4>2, Selected
        <5>2. k \in Wins(Cycle(e))
          BY <4>1, <5>1 DEF Wins, Improves, ReferenceScore
        <5>3. Cycle(e).records # <<>>
          BY <4>1, <5>1
        <5> QED
          BY <4>1, <4>2, <5>2, <5>3 DEF RowSound
      <4> QED
        BY <4>2
    <3> HIDE DEF w
    <3>3. /\ local'[e].view = local[e].view /\ local'[e].number = local[e].number
          /\ local'[e].previous = local[e].previous /\ local'[e].winner = w
          /\ local'[e].reference = local[e].reference /\ local'[e].records = local[e].records
          /\ local'[e].found = local[e].found
      BY <1>p, <3>1 DEF Locals
    <3>4. pc[e] = "prefix" /\ pc'[e] \in {"grid", "refit"} /\ (pc'[e] = "grid" <=> w = None)
      BY <3>1
    <3>5. View(e).selected = Cycle(e).selected
      BY <1>p, <3>4 DEF GridHeld
    <3>s. Cycle(e)' = Cycle(e) /\ View(e)' = View(e)
      BY <3>1, <3>3 DEF Cycle, View, data
    <3>v. ViewHeld(e)'
      BY <3>1, <3>3, <3>4, ViewSame DEF Holding, Choosing, Refitting, data
    <3>g. GridHeld(e)'
      <4>1. w # None => w.checkpoint = Cycle(e).selected
        BY <3>1, <3>2, <3>5
      <4>2. w = None => Cycle(e).selected = None
        BY <3>1, <3>5
      <4> QED
        BY <1>p, <3>3, <3>4, <3>s, <4>1, <4>2 DEF GridHeld, Holding, Choosing, Refitting
    <3>t. TestHeld(e)'
      BY <3>4 DEF TestHeld
    <3> QED
      BY <3>v, <3>g, <3>t DEF Held
  <2> QED
    BY <2>1, <2>2
<1>9. CASE FindStage(e)
  <2>1. CASE Raise(e)
    BY <1>i, <2>1
  <2>2. CASE ~ Raise(e)
    <3>1. UNCHANGED <<data, lock, local, bounds>>
      BY <1>p, <2>2, <1>9 DEF FindStage
    <3>4. \/ pc[e] = "grid" /\ pc'[e] \in {"create", "record"}
          \/ pc[e] = "refit" /\ pc'[e] \in {"create", "set_refit"}
      BY <1>p, <2>2, <1>9 DEF FindStage, Goto
    <3>3. /\ local'[e].view = local[e].view /\ local'[e].number = local[e].number
          /\ local'[e].previous = local[e].previous /\ local'[e].winner = local[e].winner
          /\ local'[e].reference = local[e].reference /\ local'[e].records = local[e].records
          /\ local'[e].found = local[e].found
      BY <3>1
    <3>s. Cycle(e)' = Cycle(e) /\ View(e)' = View(e)
      BY <3>1, <3>3 DEF Cycle, View, data
    <3>v. ViewHeld(e)'
      BY <3>1, <3>3, <3>4, ViewSame DEF Holding, Choosing, Refitting, data
    <3>g. GridHeld(e)'
      BY <1>p, <3>3, <3>4, <3>s DEF GridHeld, GridOK, Holding, Choosing, Refitting
    <3>t. TestHeld(e)'
      BY <3>4 DEF TestHeld
    <3> QED
      BY <3>v, <3>g, <3>t DEF Held
  <2> QED
    BY <2>1, <2>2
<1>10. CASE CreateStage(e)
  <2>1. CASE Raise(e)
    BY <1>i, <2>1
  <2>2. CASE ~ Raise(e)
    <3>1. local' = local /\ cycles' = cycles
      BY <2>2, <1>10 DEF CreateStage
    <3>4. pc[e] = "create" /\ pc'[e] = "training"
      BY <1>p, <2>2, <1>10 DEF CreateStage, Goto
    <3>3. /\ local'[e].view = local[e].view /\ local'[e].number = local[e].number
          /\ local'[e].previous = local[e].previous /\ local'[e].winner = local[e].winner
          /\ local'[e].reference = local[e].reference /\ local'[e].records = local[e].records
          /\ local'[e].found = local[e].found
      BY <3>1
    <3>s. Cycle(e)' = Cycle(e) /\ View(e)' = View(e)
      BY <3>1, <3>3 DEF Cycle, View, data
    <3>v. ViewHeld(e)'
      BY <3>1, <3>3, <3>4, ViewSame DEF Holding, Choosing, Refitting, data
    <3>g. GridHeld(e)'
      BY <1>p, <3>3, <3>4, <3>s DEF GridHeld, Holding, Choosing, Refitting
    <3>t. TestHeld(e)'
      BY <3>4 DEF TestHeld
    <3> QED
      BY <3>v, <3>g, <3>t DEF Held
  <2> QED
    BY <2>1, <2>2
<1>11. CASE TrainingCompletes(e)
  <2>1. local' = local /\ cycles' = cycles
    BY <1>11 DEF TrainingCompletes
  <2>4. /\ pc[e] = "training" /\ pc'[e] \in {"record", "set_refit"}
        /\ pc'[e] = "record" => local[e].winner = None
    BY <1>p, <1>11 DEF TrainingCompletes, Goto
  <2>3. /\ local'[e].view = local[e].view /\ local'[e].number = local[e].number
        /\ local'[e].previous = local[e].previous /\ local'[e].winner = local[e].winner
        /\ local'[e].reference = local[e].reference /\ local'[e].records = local[e].records
        /\ local'[e].found = local[e].found
    BY <2>1
  <2>s. Cycle(e)' = Cycle(e) /\ View(e)' = View(e)
    BY <2>1, <2>3 DEF Cycle, View, data
  <2>v. ViewHeld(e)'
    BY <2>1, <2>3, <2>4, ViewSame DEF Holding, Choosing, Refitting, data
  <2>g. GridHeld(e)'
    BY <1>p, <2>3, <2>4, <2>s DEF GridHeld, Holding, Choosing, Refitting
  <2>t. TestHeld(e)'
    BY <2>4 DEF TestHeld
  <2> QED
    BY <2>v, <2>g, <2>t DEF Held
<1>12. CASE RecordCandidate(e)
  <2>1. CASE Raise(e)
    BY <1>i, <2>1
  <2>2. CASE ~ Raise(e)
    <3>1. PICK r : /\ NewRecord(e, r)
                   /\ local' = [local EXCEPT ![e].records = Append(@, r),
                                ![e].winner = IF Improves(r, ReferenceScore(e)) THEN r ELSE None]
                   /\ cycles' = [cycles EXCEPT
                        ![local[e].number].records = Append(local[e].records, r),
                        ![local[e].number].selected =
                            IF Improves(r, ReferenceScore(e)) THEN Stage(e) ELSE None]
                   /\ Goto(e, IF Improves(r, ReferenceScore(e)) THEN "refit" ELSE "grid")
      BY <2>2, <1>12, Recorded
    <3>2. pc[e] = "record" /\ local[e].number \in Cycles
      <4>1. pc[e] = "record"
        BY <1>12 DEF RecordCandidate
      <4> QED
        BY <4>1, AtCycle DEF Holding, Choosing
    <3> DEFINE w == IF Improves(r, ReferenceScore(e)) THEN r ELSE None
               x == IF Improves(r, ReferenceScore(e)) THEN Stage(e) ELSE None
    <3>3. /\ local'[e].view = local[e].view /\ local'[e].number = local[e].number
          /\ local'[e].previous = local[e].previous /\ local'[e].winner = w
          /\ local'[e].reference = local[e].reference /\ local'[e].records = Append(local[e].records, r)
          /\ local'[e].found = local[e].found
      BY <1>p, <3>1 DEF Locals
    <3>4. pc'[e] = IF Improves(r, ReferenceScore(e)) THEN "refit" ELSE "grid"
      BY <1>p, <3>1 DEF Goto
    <3>5. /\ Cycle(e)'.reference = Cycle(e).reference /\ Cycle(e)'.selected = x
          /\ Cycle(e)'.records = Append(local[e].records, r)
      BY <1>p, <3>1, <3>2, <3>3 DEF Cycle, CycleRows
    <3>6. r # None /\ r.checkpoint = Stage(e)
      BY <3>1, Names DEF NewRecord, RecordsOf
    <3>7. \/ pc'[e] = "refit" /\ w = r /\ x = Stage(e)
          \/ pc'[e] = "grid" /\ w = None /\ x = None
      BY <3>4
    <3>c. \A c \in Cycles : c # local[e].number => cycles'[c] = cycles[c]
      BY <1>p, <3>1
    <3> HIDE DEF w, x
    <3>v. ViewHeld(e)'
      BY <3>2, <3>3, <3>7, <3>c, ViewSame DEF Holding, Choosing, Refitting
    <3>g. GridHeld(e)'
      <4>1. local[e].reference = Cycle(e).reference
        BY <1>p, <3>2 DEF GridHeld, Holding, Choosing
      <4> QED
        BY <3>3, <3>5, <3>6, <3>7, <4>1 DEF GridHeld, Holding, Choosing, Refitting
    <3>t. TestHeld(e)'
      BY <3>7 DEF TestHeld
    <3> QED
      BY <3>v, <3>g, <3>t DEF Held
  <2> QED
    BY <2>1, <2>2
<1>13. CASE StopCycle(e)
  <2>1. /\ pc[e] = "grid" /\ pc'[e] = "stop_study" /\ local' = local
        /\ cycles' = [cycles EXCEPT ![local[e].number].status = "stopped"]
    BY <1>p, <1>13 DEF StopCycle, Goto
  <2>2. local[e].number \in Cycles
    BY <2>1, AtCycle DEF Holding, Choosing, Refitting
  <2>3. /\ local'[e].view = local[e].view /\ local'[e].number = local[e].number
        /\ local'[e].previous = local[e].previous /\ local'[e].winner = local[e].winner
        /\ local'[e].reference = local[e].reference /\ local'[e].records = local[e].records
        /\ local'[e].found = local[e].found
    BY <1>p, <2>1 DEF Locals
  <2>c. \A c \in Cycles : c # local[e].number => cycles'[c] = cycles[c]
    BY <1>p, <2>1
  <2>5. /\ Cycle(e)'.reference = Cycle(e).reference /\ Cycle(e)'.records = Cycle(e).records
        /\ Cycle(e)'.selected = Cycle(e).selected
    BY <1>p, <2>1, <2>2, <2>3 DEF Cycle, CycleRows
  <2>v. ViewHeld(e)'
    BY <2>1, <2>3, <2>c, ViewSame DEF Holding, Choosing, Refitting
  <2>g. GridHeld(e)'
    BY <1>p, <2>1, <2>3, <2>5 DEF GridHeld, Holding, Choosing, Refitting
  <2>t. TestHeld(e)'
    BY <2>1 DEF TestHeld
  <2> QED
    BY <2>v, <2>g, <2>t DEF Held
<1>14. CASE StopStudy(e)
  <2>1. pc'[e] \notin Holding \cup {"cycle"}
    BY <1>p, <1>14 DEF StopStudy, Goto, Holding, Choosing, Refitting
  <2> QED
    BY <2>1, IdleHeld
<1>15. CASE SetRefit(e)
  <2>1. /\ pc[e] = "set_refit" /\ pc'[e] = "test" /\ local' = local
        /\ cycles' = [cycles EXCEPT ![local[e].number].refit = Stage(e)]
    BY <1>p, <1>15 DEF SetRefit, Goto
  <2>2. local[e].number \in Cycles
    BY <2>1, AtCycle DEF Holding, Choosing, Refitting
  <2>3. /\ local'[e].view = local[e].view /\ local'[e].number = local[e].number
        /\ local'[e].previous = local[e].previous /\ local'[e].winner = local[e].winner
        /\ local'[e].reference = local[e].reference /\ local'[e].records = local[e].records
        /\ local'[e].found = local[e].found
    BY <1>p, <2>1 DEF Locals
  <2>c. \A c \in Cycles : c # local[e].number => cycles'[c] = cycles[c]
    BY <1>p, <2>1
  <2>5. /\ Cycle(e)'.reference = Cycle(e).reference /\ Cycle(e)'.records = Cycle(e).records
        /\ Cycle(e)'.selected = Cycle(e).selected /\ Cycle(e)'.refit = Stage(e)
        /\ Stage(e)' = Stage(e)
    BY <1>p, <2>1, <2>2, <2>3 DEF Cycle, CycleRows, Stage
  <2>v. ViewHeld(e)'
    BY <2>1, <2>3, <2>c, ViewSame DEF Holding, Choosing, Refitting
  <2>g. GridHeld(e)'
    BY <1>p, <2>1, <2>3, <2>5 DEF GridHeld, Holding, Choosing, Refitting
  <2>t. TestHeld(e)'
    BY <2>1, <2>5 DEF TestHeld
  <2> QED
    BY <2>v, <2>g, <2>t DEF Held
<1>16. CASE SetTest(e)
  <2>1. /\ pc[e] = "set_test" /\ pc'[e] = "tested"
        /\ local' = [local EXCEPT ![e].previous = local[e].winner.checkpoint]
        /\ cycles' = [cycles EXCEPT ![local[e].number].test = local[e].found,
                                    ![local[e].number].status = "completed"]
    BY <1>p, <1>16 DEF SetTest, Goto
  <2>2. local[e].number \in Cycles
    BY <2>1, AtCycle DEF Holding, Choosing, Refitting
  <2>3. /\ local'[e].view = local[e].view /\ local'[e].number = local[e].number
        /\ local'[e].previous = local[e].winner.checkpoint /\ local'[e].winner = local[e].winner
        /\ local'[e].reference = local[e].reference /\ local'[e].records = local[e].records
    BY <1>p, <2>1 DEF Locals
  <2>c. \A c \in Cycles : c # local[e].number => cycles'[c] = cycles[c]
    BY <1>p, <2>1
  <2>5. /\ Cycle(e)'.reference = Cycle(e).reference /\ Cycle(e)'.records = Cycle(e).records
        /\ Cycle(e)'.selected = Cycle(e).selected
    BY <1>p, <2>1, <2>2, <2>3 DEF Cycle, CycleRows
  <2>6. Cycle(e).selected = local[e].winner.checkpoint
    BY <1>p, <2>1 DEF GridHeld, GridOK, Holding, Refitting
  <2>v. ViewHeld(e)'
    <3>1. PICK n : n = local[e].number
      OBVIOUS
    <3>2. \A c \in Cycles : n < c => c # n
      BY <1>k, <2>2, <3>1
    <3>3. \A c \in Cycles : n < c => cycles'[c] = local[e].view[c]
      BY <1>p, <2>1, <2>c, <3>1, <3>2 DEF ViewHeld, Holding, Refitting
    <3> QED
      BY <2>1, <2>3, <2>5, <2>6, <3>1, <3>3 DEF ViewHeld
  <2>g. GridHeld(e)'
    BY <1>p, <2>1, <2>3, <2>5 DEF GridHeld, Holding, Choosing, Refitting
  <2>t. TestHeld(e)'
    BY <2>1 DEF TestHeld
  <2> QED
    BY <2>v, <2>g, <2>t DEF Held
<1>17. CASE CloseCycle(e)
  <2>1. /\ pc[e] = "tested" /\ pc'[e] = "cycle" /\ cycles' = cycles
    BY <1>p, <1>17 DEF CloseCycle, Goto, data
  <2>3. /\ local'[e].view = local[e].view /\ local'[e].number = local[e].number + 1
        /\ local'[e].previous = local[e].previous
    BY <1>p, <1>17 DEF CloseCycle, Locals
  <2>4. PICK n : n = local[e].number
    OBVIOUS
  <2>5. n \in Cycles /\ n \in Nat \ {0} /\ cycles[n].selected = local[e].previous
    BY <1>p, <2>1, <2>4, AtCycle DEF Holding, ViewHeld
  <2>6. \A c \in Cycles : n + 1 <= c => n < c
    BY <1>k, <2>5
  <2>7. \A c \in Cycles : n + 1 < c => n + 1 <= c
    BY <1>k, <2>5
  <2>8. \A c \in Cycles : n < c => cycles[c] = local[e].view[c]
    BY <1>p, <2>1, <2>4 DEF ViewHeld, Holding
  <2>9. (n + 1) - 1 = n /\ n + 1 <= n + 1
    BY <2>5
  <2>v. ViewHeld(e)'
    <3>1. \A c \in Cycles : n + 1 < c => cycles[c] = local[e].view[c]
      BY <2>6, <2>7, <2>8
    <3>2. n + 1 \in Cycles => cycles[n + 1] = local[e].view[n + 1]
      BY <2>6, <2>8, <2>9
    <3>3. cycles[(n + 1) - 1].selected = local[e].previous /\ (n + 1) - 1 \in Cycles
      BY <2>5, <2>9
    <3>4. local'[e].number = n + 1
      BY <2>3, <2>4
    <3> QED
      BY <2>1, <2>3, <3>1, <3>2, <3>3, <3>4 DEF ViewHeld, Cycle, View
  <2> QED
    BY <2>1, <2>v DEF Held, GridHeld, TestHeld, Holding, Choosing, Refitting
<1>18. CASE Finish(e)
  <2>1. pc'[e] \notin Holding \cup {"cycle"}
    BY <1>p, <1>18 DEF Finish, Goto, Holding, Choosing, Refitting
  <2> QED
    BY <2>1, IdleHeld
<1>19. CASE FailCycle(e)
  <2>1. pc'[e] \notin Holding \cup {"cycle"}
    BY <1>p, <1>19 DEF FailCycle, Goto, Holding, Choosing, Refitting
  <2> QED
    BY <2>1, IdleHeld
<1>20. CASE FailStudy(e)
  <2>1. pc'[e] \notin Holding \cup {"cycle"}
    BY <1>p, <1>20 DEF FailStudy, Goto, Holding, Choosing, Refitting
  <2> QED
    BY <2>1, IdleHeld
<1>21. CASE Leave(e)
  <2>1. pc'[e] \notin Holding \cup {"cycle"}
    BY <1>p, <1>21 DEF Leave, Goto, Holding, Choosing, Refitting
  <2> QED
    BY <2>1, IdleHeld
<1>22. ASSUME NEW max \in Cycles, Acquire(e, max) PROVE Held(e)'
  <2>1. pc'[e] \notin Holding \cup {"cycle"}
    BY <1>p, <1>22 DEF Acquire, Goto, Holding, Choosing, Refitting
  <2> QED
    BY <2>1, IdleHeld
<1>23. CASE Interrupt(e)
  <2>1. pc'[e] \notin Holding \cup {"cycle"}
    BY <1>p, <1>23 DEF Interrupt, Goto, Holding, Choosing, Refitting
  <2> QED
    BY <2>1, IdleHeld
<1>24. CASE Kill(e)
  <2>1. pc'[e] \notin Holding \cup {"cycle"}
    BY <1>p, <1>24 DEF Kill, Goto, Holding, Choosing, Refitting
  <2> QED
    BY <2>1, IdleHeld
<1> QED
  BY <1>1, <1>2, <1>3, <1>4, <1>5, <1>6, <1>7, <1>8, <1>9, <1>10, <1>11, <1>12, <1>13, <1>14,
     <1>15, <1>16, <1>17, <1>18, <1>19, <1>20, <1>21, <1>22, <1>23, <1>24 DEF Step

\* As long as the lock holds, every step leaves every executor at work on
\* rows that nobody else has changed.
LEMMA HeldStep == IInv /\ HeldInv /\ ~ lost' /\ [Next]_vars => HeldInv'
<1> SUFFICES ASSUME IInv, HeldInv, ~ lost', [Next]_vars PROVE HeldInv'
  OBVIOUS
<1>1. LockHeld'
  BY LockStep DEF HeldInv
<1>2. (\A c \in Cycles : RowSound(cycles[c], c))' /\ SourcesSelected' /\ TestsSelected'
  BY SoundStep, SourcesStep, TestsStep
<1>3. ASSUME NEW f \in Executors PROVE Held(f)'
  <2>1. ASSUME NEW e \in Executors,
               (\E max \in Cycles : Acquire(e, max)) \/ Step(e) \/ Interrupt(e) \/ Kill(e)
        PROVE  Held(f)'
    <3>1. CASE f = e
      BY <2>1, <3>1, OwnHeld
    <3>2. CASE f # e
      <4>1. Untouched(f)
        BY <2>1, <3>2, OthersStep
      <4>2. CASE pc[f] = "off"
        <5>1. pc'[f] \notin Holding \cup {"cycle"}
          BY <4>1, <4>2 DEF Untouched, Holding, Choosing, Refitting
        <5> QED
          BY <5>1, IdleHeld
      <4>3. CASE pc[f] # "off"
        <5>1. lock = f /\ pc[e] = "off" /\ f # None
          BY <3>2, <4>3, Names DEF HeldInv, LockHeld
        <5>2. \A max : ~ Acquire(e, max)
          BY <5>1 DEF Acquire
        <5>3. ~ Step(e) /\ ~ Interrupt(e) /\ ~ Kill(e)
          BY <5>1 DEF Step, OpenStudy, Load, PassCompleted, BeginCycle, FindEvaluation, Measure,
             SetReference, ResumePrefix, FindStage, CreateStage, TrainingCompletes,
             RecordCandidate, StopCycle, StopStudy, SetRefit, SetTest, CloseCycle, Finish,
             FailCycle, FailStudy, Leave, Interrupt, Kill, Outside
        <5> QED
          BY <2>1, <5>2, <5>3
      <4> QED
        BY <4>2, <4>3
    <3> QED
      BY <3>1, <3>2
  <2>2. ASSUME UNCHANGED <<pc, local, cycles>> PROVE Held(f)'
    <3>1. Held(f) /\ Cycle(f)' = Cycle(f) /\ View(f)' = View(f) /\ Stage(f)' = Stage(f)
      BY <2>2 DEF HeldInv, Cycle, View, Stage
    <3>2. ViewHeld(f)' /\ GridHeld(f)'
      BY <2>2, <3>1 DEF Held, ViewHeld, GridHeld
    <3>3. PICK s, r, i : s = Stage(f) /\ r = TestRange(local[f].number) /\ i = local[f].found
      OBVIOUS
    <3>4. i \in Matching(s, "extended_out_of_sample", r)
             => (i \in Matching(s, "extended_out_of_sample", r))'
      BY EvaluationsStep, MatchingKept
    <3>5. s = Stage(f)' /\ r = TestRange(local'[f].number) /\ i = local'[f].found
      BY <2>2, <3>1, <3>3
    <3>6. TestHeld(f)'
      BY <2>2, <3>1, <3>3, <3>4, <3>5 DEF Held, TestHeld
    <3> QED
      BY <3>2, <3>6 DEF Held
  <2>3. CASE LoseLock
    BY <2>2, <2>3 DEF LoseLock, data
  <2>4. CASE EvaluateByHand
    BY <2>2, <2>4 DEF EvaluateByHand
  <2>5. CASE UNCHANGED vars
    BY <2>2, <2>5 DEF vars
  <2> QED
    BY <2>1, <2>3, <2>4, <2>5 DEF Next, Refuse
<1> QED
  BY <1>1, <1>2, <1>3 DEF HeldInv

\* Before the study is opened nothing is decided.
LEMMA InitHeld == Init => HeldInv
<1> SUFFICES ASSUME Init PROVE HeldInv
  OBVIOUS
<1>1. LockHeld
  BY Names DEF Init, LockHeld
<1>2. ASSUME NEW c \in Cycles PROVE RowSound(cycles[c], c)
  <2>1. cycles[c] = PendingCycle /\ DOMAIN <<>> = {}
    BY DEF Init
  <2> QED
    BY <2>1 DEF RowSound, PendingCycle, Wins
<1>3. ASSUME NEW e \in Executors PROVE Held(e)
  BY DEF Init, Held, ViewHeld, GridHeld, TestHeld, Holding, Choosing, Refitting
<1>4. SourcesSelected /\ TestsSelected
  BY DEF Init, SourcesSelected, TestsSelected
<1> QED
  BY <1>1, <1>2, <1>3, <1>4 DEF HeldInv

\* A connection that is lost stays lost.
LEMMA LostStays == IInv /\ [Next]_vars /\ lost => lost'
<1> SUFFICES ASSUME lost, [Next]_vars PROVE lost'
  OBVIOUS
<1>1. ASSUME NEW e \in Executors, Step(e) PROVE lost' = lost
  BY <1>1 DEF Step, OpenStudy, Load, PassCompleted, BeginCycle, FindEvaluation, Measure,
     SetReference, ResumePrefix, FindStage, CreateStage, TrainingCompletes, RecordCandidate,
     StopCycle, StopStudy, SetRefit, SetTest, CloseCycle, Finish, FailCycle, FailStudy, Leave,
     Raise, bounds, data
<1>2. ASSUME NEW e \in Executors, NEW max, Acquire(e, max) PROVE lost' = lost
  BY <1>2 DEF Acquire, bounds
<1>3. ASSUME NEW e \in Executors, Interrupt(e) \/ Kill(e) PROVE lost' = lost
  BY <1>3 DEF Interrupt, Kill
<1>4. ASSUME LoseLock PROVE lost'
  BY <1>4 DEF LoseLock
<1>5. ASSUME EvaluateByHand \/ UNCHANGED vars PROVE lost' = lost
  BY <1>5 DEF EvaluateByHand, vars
<1> QED
  BY <1>1, <1>2, <1>3, <1>4, <1>5 DEF Next, Refuse

-----------------------------------------------------------------------------
(* The theorems *)

\* The inductive invariant: IInv whatever happens to the lock, and HeldInv
\* until its connection dies.
LEMMA HeldAsLong == Spec => [](IInv /\ (~ lost => HeldInv))
<1>1. IInv /\ (~ lost => HeldInv) /\ [Next]_vars => (~ lost => HeldInv)'
  BY HeldStep, LostStays
<1>2. Init => (~ lost => HeldInv)
  BY InitHeld
<1> QED
  BY <1>1, <1>2, InductiveInvariant, PTL DEF Spec

\* The study's rows are well formed, and every stage was trained from where
\* it had to be: with any number of executors in one study, whatever is
\* interrupted or killed, the lock lost or not (LineageSound says nothing
\* of the selection after the lock was lost).
THEOREM StudyIsSound == Spec => []StudySound
<1>1. IInv /\ (~ lost => HeldInv) => StudySound
  <2> SUFFICES ASSUME IInv, ~ lost => HeldInv PROVE TypeOK /\ LineageSound
    BY DEF StudySound
  <2>1. TypeOK
    <3>1. ASSUME NEW c \in Cycles
          PROVE  /\ cycles[c].status \in {"pending", "running", "completed", "failed", "stopped"}
                 /\ cycles[c].source \in {None, Base} \cup DOMAIN runs
                 /\ {cycles[c].reference, cycles[c].test} \subseteq {None} \cup DOMAIN evaluations
                 /\ {cycles[c].selected, cycles[c].refit} \subseteq {None} \cup DOMAIN runs
                 /\ Len(cycles[c].records) <= Options
      BY DEF IInv, CyclesOK, RowOK, CycleRows, Statuses
    <3> QED
      BY <3>1 DEF TypeOK, IInv, ControlOK, RunsOK, EvaluationsOK
  <2>2. LineageSound
    <3> SUFFICES ASSUME NEW s \in DOMAIN runs
                 PROVE  IF s[2] = "refit"
                        THEN runs[s].source = <<s[1], "candidate", s[3]>> /\ Carries(runs[s].source)
                        ELSE IF s[1] = 1 THEN runs[s].source = Base
                             ELSE /\ Carries(runs[s].source)
                                  /\ ~lost => runs[s].source = cycles[s[1] - 1].selected
      BY DEF LineageSound
    <3>1. /\ s \in Stages
          /\ IF s[2] = "refit"
             THEN runs[s].source = <<s[1], "candidate", s[3]>> /\ Carries(runs[s].source)
             ELSE runs[s].source \in Earlier(s[1]) /\ (s[1] = 1 \/ Carries(runs[s].source))
      BY DEF IInv, RunsOK
    <3>2. CASE s[2] = "refit"
      BY <3>1, <3>2
    <3>3. CASE s[2] # "refit"
      <4>1. s[2] = "candidate"
        BY <3>1, <3>3 DEF Stages
      <4>2. s[1] = 1 => runs[s].source = Base
        <5>1. \A c \in Cycles : ~ (c < 1)
          BY Names
        <5>2. \A t \in Stages : t[1] \in Cycles
          BY DEF Stages
        <5> QED
          BY <3>1, <3>3, <5>1, <5>2 DEF Earlier
      <4>3. ~ lost /\ s[1] # 1 => runs[s].source = cycles[s[1] - 1].selected
        BY <4>1 DEF HeldInv, SourcesSelected
      <4> QED
        BY <3>1, <3>3, <4>2, <4>3
    <3> QED
      BY <3>2, <3>3
  <2> QED
    BY <2>1, <2>2
<1> QED
  BY <1>1, HeldAsLong, PTL

\* No row scored by an evaluation was ever trained on by a stage the policy
\* descends from, nor by the source of the study, lock or no lock.
THEOREM RowsStayAhead == Spec => []RowsAhead
BY RowsAreAhead, InductiveInvariant, PTL

\* As long as the lock holds no evaluation sees the future: the rows are
\* ahead, and a test is evaluated only after its cycle's selection and refit
\* are stored.
THEOREM NothingLooksAhead == Spec => [](~ lost => NoLookAhead)
<1>1. IInv /\ (~ lost => HeldInv) => (~ lost => NoLookAhead)
  <2> SUFFICES ASSUME IInv, HeldInv, NEW i \in DOMAIN evaluations
               PROVE  LET it == evaluations[i]
                      IN  /\ \A k \in DOMAIN ancestry : ancestry[k].train.end <= it.range.start
                          /\ \A s \in Lineage(it.checkpoint) \ {Base} :
                                TrainRange(s).end <= it.range.start
                          /\ it.scope = "extended_out_of_sample" =>
                                LET cycle == cycles[it.checkpoint[1]]
                                IN  /\ cycle.refit = it.checkpoint
                                    /\ ~lost => cycle.selected = runs[it.checkpoint].source
    BY DEF NoLookAhead
  <2>1. /\ \A k \in DOMAIN ancestry : ancestry[k].train.end <= evaluations[i].range.start
        /\ \A s \in Lineage(evaluations[i].checkpoint) \ {Base} :
              TrainRange(s).end <= evaluations[i].range.start
    BY RowsAreAhead DEF RowsAhead
  <2>2. evaluations[i].scope = "extended_out_of_sample" =>
           /\ cycles[evaluations[i].checkpoint[1]].refit = evaluations[i].checkpoint
           /\ cycles[evaluations[i].checkpoint[1]].selected = runs[evaluations[i].checkpoint].source
    BY DEF HeldInv, TestsSelected
  <2> QED
    BY <2>1, <2>2
<1> QED
  BY <1>1, HeldAsLong, PTL

\* As long as the lock holds, what is selected is the first recorded attempt
\* that strictly improves on the reference, a cycle stops only with its grid
\* exhausted, and a completed cycle lacks neither winner, refit nor test.
THEOREM SelectionIsSound == Spec => [](~ lost => SelectionSound)
<1>1. IInv /\ (~ lost => HeldInv) => (~ lost => SelectionSound)
  <2> SUFFICES ASSUME IInv, HeldInv, NEW c \in Cycles
               PROVE  LET cycle == cycles[c]
                          better(k) == cycle.records[k].score > evaluations[cycle.reference].score
                          wins == {k \in DOMAIN cycle.records : better(k)}
                      IN  /\ \A k \in DOMAIN cycle.records : cycle.records[k].order = k - 1
                          /\ cycle.selected # None =>
                                 /\ wins = {Len(cycle.records)}
                                 /\ cycle.selected = Last(cycle.records).checkpoint
                          /\ cycle.records # <<>> /\ cycle.selected = None => wins = {}
                          /\ ~lost /\ cycle.status = "stopped" =>
                                 Len(cycle.records) = Options /\ wins = {}
                          /\ ~lost /\ cycle.status = "completed" =>
                                 None \notin {cycle.selected, cycle.refit, cycle.test}
    BY DEF SelectionSound
  <2>1. RowSound(cycles[c], c)
    BY DEF HeldInv
  <2>2. cycles[c].records = <<>> => Wins(cycles[c]) = {}
    BY DEF Wins
  <2>3. /\ \A k \in DOMAIN cycles[c].records : cycles[c].records[k].order = k - 1
        /\ cycles[c].selected # None =>
              /\ Wins(cycles[c]) = {Len(cycles[c].records)}
              /\ cycles[c].selected = Last(cycles[c].records).checkpoint
        /\ cycles[c].selected = None => Wins(cycles[c]) = {}
        /\ cycles[c].status = "stopped" => Len(cycles[c].records) = Options /\ cycles[c].selected = None
        /\ cycles[c].status = "completed" =>
              None \notin {cycles[c].selected, cycles[c].refit, cycles[c].test}
    BY <2>1, <2>2 DEF RowSound, Last
  <2> QED
    BY <2>3 DEF Wins
<1> QED
  BY <1>1, HeldAsLong, PTL

\* As long as the lock holds, no step takes a decision back: not a restart,
\* not a second executor, not the failure handler.
THEOREM DecisionsStay == Spec => DecisionStays
<1> DEFINE Stay == ~ lost' =>
        \A c \in Cycles :
            /\ \A f \in {"reference", "selected", "refit", "test"} :
                   cycles[c][f] # None => cycles'[c][f] = cycles[c][f]
            /\ IsPrefix(cycles[c].records, cycles'[c].records)
<1>1. IInv /\ (~ lost => HeldInv) /\ [Next]_vars => Stay
  <2> SUFFICES ASSUME IInv, ~ lost => HeldInv, [Next]_vars, ~ lost', NEW c \in Cycles
               PROVE  Decided(cycles[c], cycles'[c])
    BY DEF Decided
  <2>1. HeldInv /\ cycles \in [Cycles -> CycleRows]
    BY LostStays DEF IInv, CyclesOK
  <2>2. CASE cycles'[c] = cycles[c]
    <3>1. IsPrefix(cycles[c].records, cycles[c].records)
      BY <2>1, PrefixSame DEF CycleRows
    <3> QED
      BY <2>2, <3>1 DEF Decided
  <2>3. CASE cycles'[c] # cycles[c]
    <3>0. PICK n \in Cycles : \E row : Change(n, row)
      BY <2>1, <2>3, ChangeStep DEF OneRow
    <3>1. PICK row : Change(n, row)
      BY <3>0
    <3>2. n = c /\ cycles'[c] = row
      BY <2>1, <2>3, <3>1 DEF Change
    <3> QED
      BY <3>1, <3>2 DEF Change
  <2> QED
    BY <2>2, <2>3
<1>2. IInv /\ (~ lost => HeldInv) /\ [Next]_vars => [Stay]_vars
  BY <1>1
<1> QED
  BY <1>2, HeldAsLong, PTL DEF DecisionStays, Spec

=============================================================================
