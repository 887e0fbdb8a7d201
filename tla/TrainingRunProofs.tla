--------------------------- MODULE TrainingRunProofs ---------------------------
(***************************************************************************)
(* Proofs about TrainingRun for every configuration, any scores and any    *)
(* combination of faults.                                                  *)
(*                                                                         *)
(* FlowInv says what holds at each place of the control, SaveInv ties the  *)
(* checkpoint being saved and the remembered ones (latest, final) to files *)
(* and rows, HandlerInv is what the failure handler relies on: the steps   *)
(* in the row never exceed those of the model, no INTERRUPTED checkpoint   *)
(* exists before it starts, and before fail_run the model is saved.        *)
(*                                                                         *)
(* The second part proves that the outcome is whole and that training      *)
(* stops when it should.  There the invariant is joined by what a run      *)
(* without an error has done so far: CountInv and SegmentInv (training     *)
(* goes from event to event), PeriodicInv and FinalInv (each event's       *)
(* checkpoint has its row, no other step has), ScoredInv (each due         *)
(* evaluation has been completed once, on the data it should be, or is     *)
(* under way), StaleInv (what early stopping keeps is what the rows of     *)
(* evaluations say); and by what stays of it: DoneInv after the run is     *)
(* completed, HalfInv when exceptions are the only faults.                 *)
(***************************************************************************)
EXTENDS TrainingRun, TLAPS, SequenceTheorems, FiniteSetTheorems

\* The checkpoint being saved is that of the failure handler.
InRescue == pc \in Saves /\ saving[1] = "interrupted"

\* TypeOK but for the evaluations.
BaseOK ==
    /\ config \in Configs
    /\ status \in {"pending", "running", "completed", "failed"}
    /\ steps \in 0 .. config.total
    /\ stopped \in BOOLEAN
    /\ saving \in Checkpoints \cup {NoCheckpoint}
    /\ files \subseteq Checkpoints
    /\ rows \subseteq Checkpoints
    /\ scope \in {"none", "train", "validation"}
    /\ model \in {"none", "made", "counted"}
    /\ local \in 0 .. config.total
    /\ done \in 0 .. config.total
    /\ latest \in -1 .. config.total
    /\ final \in BOOLEAN
    /\ stopping \in BOOLEAN
    /\ pc \in Places \cup Handler \cup Ends

EvalsOK ==
    /\ evals \in Seq(EvaluationRows)
    /\ early \in [best : Checkpoints \cup {NoCheckpoint}, score : Int, stale : Nat]
    /\ pc \in {"mark_eval", "evaluate", "observe"} => evals # <<>>

FlowInv ==
    /\ done <= local
    /\ pc \in Saves \cup Evaluating \cup {"observe"} => saving \in Checkpoints
    /\ pc \in Evaluating => scope \in {"train", "validation"}
    /\ pc = "learn" => done < config.total /\ ~ final
    /\ pc \in Places \ {"learn"} /\ ~ InRescue => done = local
    /\ pc \in {"mark", "model", "count"} => model # "counted" /\ local = 0
    /\ pc \in Places \ {"mark", "model", "count"} /\ ~ InRescue => model = "counted"

SaveInv ==
    /\ rows \subseteq files
    /\ pc \in {"insert", "commit"} => saving \in files /\ saving \notin rows
    /\ pc = "saved" => saving \in rows
    /\ pc \in Saves =>
          /\ saving[1] \in {"periodic", "final"} => saving[2] = done
          /\ saving[1] = "final" => done = config.total \/ stopping
          /\ saving[1] = "interrupted" => saving[2] = LocalSteps
    /\ latest # -1 => \E r \in rows : r[2] = latest
    /\ final => /\ <<"final", local>> \in rows
                /\ model = "counted"
                /\ done = config.total \/ stopping

HandlerInv ==
    /\ steps <= LocalSteps
    /\ \A f \in files : f[1] = "interrupted" =>
          pc \in {"failing"} \cup Ends \/ (InRescue /\ pc # "store")
    /\ status = "failed" /\ "abandon" \notin config.faults => pc \in Ends
    /\ pc = "failing" /\ "again" \notin config.faults /\ model # "none" =>
          \E r \in rows : r[2] = LocalSteps
    /\ RaisedIsRecorded

IInv == BaseOK /\ EvalsOK /\ FlowInv /\ SaveInv /\ HandlerInv

-----------------------------------------------------------------------------

\* The numbers of every configuration.
LEMMA ConfigNumbers == BaseOK => config.total \in Nat \ {0} /\ config.total \in Events
BY TrainingAssumption DEF BaseOK, Events

\* Away from a boundary there is a step left to take.
LEMMA StepLeft == BaseOK /\ FlowInv /\ pc = "learn" /\ ~ AtBoundary => local < config.total
BY ConfigNumbers DEF BaseOK, FlowInv, AtBoundary

\* LocalSteps is the model's step count once its zero is known.
LEMMA LocalStepsValue == BaseOK => LocalSteps = IF model = "counted" THEN local ELSE 0
BY ConfigNumbers DEF BaseOK, LocalSteps

\* The run's parts hold initially.
LEMMA InitIInv == Init => IInv
<1> SUFFICES ASSUME Init PROVE IInv
  OBVIOUS
<1>0. config \in Configs /\ config.total \in Nat
  BY TrainingAssumption DEF Init
<1>1. BaseOK
  <2>1. latest \in -1 .. config.total /\ {steps, local, done} \subseteq 0 .. config.total
    BY <1>0 DEF Init
  <2>2. pc \in Places /\ saving = NoCheckpoint
    BY DEF Init, Places
  <2> QED
    BY <1>0, <2>1, <2>2 DEF Init, BaseOK
<1>2. EvalsOK
  BY DEF Init, EvalsOK, NothingSeen, NoCheckpoint
<1>3. FlowInv /\ SaveInv
  BY DEF Init, FlowInv, SaveInv, InRescue, Saves, Evaluating, Places, NoCheckpoint
<1>4. HandlerInv
  BY <1>1, LocalStepsValue DEF Init, HandlerInv, RaisedIsRecorded
<1> QED
  BY <1>1, <1>2, <1>3, <1>4 DEF IInv

\* Every step keeps the types of all but the evaluations.
LEMMA BaseStep == IInv /\ [Next]_vars => BaseOK'
<1> SUFFICES ASSUME IInv, [Next]_vars PROVE BaseOK'
  OBVIOUS
<1> USE ConfigNumbers, LocalStepsValue DEF IInv, BaseOK, FlowInv, Committed, rowVars, saveVars, evalVars, modelVars, loopVars, Saves, Evaluating, Places, Handler, Ends, Checkpoints, Reasons, InRescue
<1>1. CASE MarkRunning
  BY <1>1 DEF MarkRunning
<1>2. CASE MakeModel
  BY <1>2 DEF MakeModel
<1>3. CASE CountSteps
  BY <1>3 DEF CountSteps, Save
<1>4. CASE Learn
  BY <1>4, StepLeft DEF Learn, AtBoundary
<1>5. CASE Progress
  BY <1>5 DEF Progress
<1>6. CASE Store
  BY <1>6 DEF Store
<1>7. CASE Insert
  BY <1>7 DEF Insert
<1>8. CASE CommitRow
  BY <1>8 DEF CommitRow
<1>9. CASE Saved
  BY <1>9 DEF Saved, Evaluate, AfterEvent
<1>10. CASE CreateEvaluation
  BY <1>10 DEF CreateEvaluation
<1>11. CASE MarkEvaluation
  BY <1>11 DEF MarkEvaluation
<1>12. CASE Observe
  <2>1. UNCHANGED <<config, rowVars, files, rows, scope, modelVars, done, latest, final>>
    BY <1>12 DEF Observe
  <2>2. \/ stopping' = TRUE /\ Save("final", done)
        \/ pc' = AfterEvent /\ UNCHANGED <<stopping, saving>>
    BY <1>12 DEF Observe
  <2>3. stopping' \in BOOLEAN
    <3>1. stopping' = TRUE \/ stopping' = stopping
      BY <2>2
    <3> QED
      BY <3>1
  <2>4. saving' \in Checkpoints \cup {NoCheckpoint}
    <3>1. saving' = <<"final", done>> \/ saving' = saving
      BY <2>2 DEF Save
    <3>2. done \in Nat /\ "final" \in Reasons
      BY DEF Reasons
    <3> QED
      BY <3>1, <3>2
  <2>5. pc' \in Places
    BY <2>2 DEF Save, AfterEvent
  <2> QED
    BY <2>1, <2>3, <2>4, <2>5
<1>13. CASE Checks
  BY <1>13 DEF Checks
<1>14. CASE CompleteRun
  BY <1>14 DEF CompleteRun
<1>15. CASE Return
  BY <1>15 DEF Return
<1>16. CASE Raise
  BY <1>16 DEF Raise, FailEvaluation
<1>17. CASE Rescue
  BY <1>17 DEF Rescue, Save
<1>18. CASE InterruptedSaved
  BY <1>18 DEF InterruptedSaved
<1>19. CASE FailRun
  BY <1>19 DEF FailRun
<1>20. CASE Crash
  BY <1>20 DEF Crash
<1>21. CASE MarkAbandoned
  BY <1>21 DEF MarkAbandoned
<1>22. ASSUME NEW score \in Scores, CompleteEvaluation(score) PROVE BaseOK'
  BY <1>22 DEF CompleteEvaluation
<1>23. CASE UNCHANGED vars
  BY <1>23 DEF vars
<1> QED
  BY <1>1, <1>2, <1>3, <1>4, <1>5, <1>6, <1>7, <1>8, <1>9, <1>10, <1>11, <1>12, <1>13, <1>14, <1>15, <1>16, <1>17, <1>18, <1>19, <1>20, <1>21, <1>22, <1>23 DEF Next, Train

\* Every step keeps what the places of the control promise.
LEMMA FlowStep == IInv /\ [Next]_vars => FlowInv'
<1> SUFFICES ASSUME IInv, [Next]_vars PROVE FlowInv'
  OBVIOUS
<1> USE ConfigNumbers DEF IInv, BaseOK, FlowInv, SaveInv, Committed, rowVars, saveVars, evalVars, modelVars, loopVars, Saves, Evaluating, Places, Handler, Ends, Checkpoints, Reasons, InRescue
<1>1. CASE MarkRunning
  BY <1>1 DEF MarkRunning
<1>2. CASE MakeModel
  BY <1>2 DEF MakeModel
<1>3. CASE CountSteps
  <2>1. \/ saving' = <<"initial", 0>> /\ pc' = "store"
        \/ pc' = "learn" /\ saving' = saving
    BY <1>3 DEF CountSteps, Save
  <2>2. pc = "count" /\ model' = "counted" /\ UNCHANGED <<config, local, done, final, scope, latest>>
    BY <1>3 DEF CountSteps
  <2>3. done = local /\ ~ final
    BY <2>2
  <2>4. done = 0
    BY <2>2
  <2> QED
    BY <2>1, <2>2, <2>3, <2>4
<1>4. CASE Learn
  BY <1>4 DEF Learn, AtBoundary
<1>5. CASE Progress
  BY <1>5 DEF Progress
<1>6. CASE Store
  BY <1>6 DEF Store
<1>7. CASE Insert
  BY <1>7 DEF Insert
<1>8. CASE CommitRow
  BY <1>8 DEF CommitRow
<1>9. CASE Saved
  BY <1>9 DEF Saved, Evaluate, AfterEvent
<1>10. CASE CreateEvaluation
  BY <1>10 DEF CreateEvaluation
<1>11. CASE MarkEvaluation
  BY <1>11 DEF MarkEvaluation
<1>12. CASE Observe
  BY <1>12 DEF Observe, Save, AfterEvent
<1>13. CASE Checks
  BY <1>13 DEF Checks
<1>14. CASE CompleteRun
  BY <1>14 DEF CompleteRun
<1>15. CASE Return
  BY <1>15 DEF Return
<1>16. CASE Raise
  BY <1>16 DEF Raise, FailEvaluation
<1>17. CASE Rescue
  <2>1. \/ saving' = <<"interrupted", LocalSteps>> /\ pc' = "store"
        \/ pc' \in {"failing", "raised"}
    BY <1>17 DEF Rescue, Save
  <2>2. UNCHANGED <<done, local, model>>
    BY <1>17 DEF Rescue
  <2>3. LocalSteps \in Nat
    BY LocalStepsValue
  <2> QED
    BY <2>1, <2>2, <2>3
<1>18. CASE InterruptedSaved
  BY <1>18 DEF InterruptedSaved
<1>19. CASE FailRun
  BY <1>19 DEF FailRun
<1>20. CASE Crash
  BY <1>20 DEF Crash
<1>21. CASE MarkAbandoned
  BY <1>21 DEF MarkAbandoned
<1>22. ASSUME NEW score \in Scores, CompleteEvaluation(score) PROVE FlowInv'
  BY <1>22 DEF CompleteEvaluation
<1>23. CASE UNCHANGED vars
  BY <1>23 DEF vars
<1> QED
  BY <1>1, <1>2, <1>3, <1>4, <1>5, <1>6, <1>7, <1>8, <1>9, <1>10, <1>11, <1>12, <1>13, <1>14, <1>15, <1>16, <1>17, <1>18, <1>19, <1>20, <1>21, <1>22, <1>23 DEF Next, Train

\* Every step keeps files, rows and the remembered checkpoints together.
LEMMA SaveStep == IInv /\ [Next]_vars => SaveInv'
<1> SUFFICES ASSUME IInv, [Next]_vars PROVE SaveInv'
  OBVIOUS
<1>a. BaseOK'
  BY BaseStep
<1>b. LocalSteps' = IF model' = "counted" THEN local' ELSE 0
  BY <1>a, ConfigNumbers DEF BaseOK, LocalSteps, IInv
<1> USE <1>b, ConfigNumbers, LocalStepsValue DEF IInv, BaseOK, FlowInv, SaveInv, NoCheckpoint, Committed, rowVars, saveVars, evalVars, modelVars, loopVars, Saves, Evaluating, Places, Handler, Ends, Checkpoints, Reasons, InRescue
<1>1. CASE MarkRunning
  BY <1>1 DEF MarkRunning
<1>2. CASE MakeModel
  BY <1>2 DEF MakeModel
<1>3. CASE CountSteps
  BY <1>3 DEF CountSteps, Save
<1>4. CASE Learn
  BY <1>4 DEF Learn
<1>5. CASE Progress
  BY <1>5 DEF Progress
<1>6. CASE Store
  BY <1>6 DEF Store
<1>7. CASE Insert
  BY <1>7 DEF Insert
<1>8. CASE CommitRow
  BY <1>8 DEF CommitRow
<1>9. CASE Saved
  BY <1>9 DEF Saved, Evaluate, AfterEvent
<1>10. CASE CreateEvaluation
  BY <1>10 DEF CreateEvaluation
<1>11. CASE MarkEvaluation
  BY <1>11 DEF MarkEvaluation
<1>12. CASE Observe
  BY <1>12 DEF Observe, Save, AfterEvent
<1>13. CASE Checks
  BY <1>13 DEF Checks
<1>14. CASE CompleteRun
  BY <1>14 DEF CompleteRun
<1>15. CASE Return
  BY <1>15 DEF Return
<1>16. CASE Raise
  BY <1>16 DEF Raise, FailEvaluation, InHandler
<1>17. CASE Rescue
  BY <1>17 DEF Rescue, Save
<1>18. CASE InterruptedSaved
  BY <1>18 DEF InterruptedSaved
<1>19. CASE FailRun
  BY <1>19 DEF FailRun
<1>20. CASE Crash
  BY <1>20 DEF Crash
<1>21. CASE MarkAbandoned
  BY <1>21 DEF MarkAbandoned
<1>22. ASSUME NEW score \in Scores, CompleteEvaluation(score) PROVE SaveInv'
  BY <1>22 DEF CompleteEvaluation
<1>23. CASE UNCHANGED vars
  BY <1>23 DEF vars
<1> QED
  BY <1>1, <1>2, <1>3, <1>4, <1>5, <1>6, <1>7, <1>8, <1>9, <1>10, <1>11, <1>12, <1>13, <1>14, <1>15, <1>16, <1>17, <1>18, <1>19, <1>20, <1>21, <1>22, <1>23 DEF Next, Train

\* Every step keeps what the failure handler relies on.
LEMMA HandlerStep == IInv /\ [Next]_vars => HandlerInv'
<1> SUFFICES ASSUME IInv, [Next]_vars PROVE HandlerInv'
  OBVIOUS
<1>a. BaseOK'
  BY BaseStep
<1>b. LocalSteps' = IF model' = "counted" THEN local' ELSE 0
  BY <1>a, ConfigNumbers DEF BaseOK, LocalSteps, IInv
<1> USE <1>b, ConfigNumbers, LocalStepsValue DEF IInv, BaseOK, FlowInv, SaveInv, HandlerInv, RaisedIsRecorded, Committed, rowVars, saveVars, evalVars, modelVars, loopVars, Saves, Evaluating, Places, Handler, Ends, Checkpoints, Reasons, InRescue
<1>1. CASE MarkRunning
  BY <1>1 DEF MarkRunning
<1>2. CASE MakeModel
  BY <1>2 DEF MakeModel
<1>3. CASE CountSteps
  BY <1>3 DEF CountSteps, Save
<1>4. CASE Learn
  BY <1>4 DEF Learn
<1>5. CASE Progress
  BY <1>5 DEF Progress
<1>6. CASE Store
  BY <1>6 DEF Store
<1>7. CASE Insert
  BY <1>7 DEF Insert
<1>8. CASE CommitRow
  BY <1>8 DEF CommitRow
<1>9. CASE Saved
  BY <1>9 DEF Saved, Evaluate, AfterEvent
<1>10. CASE CreateEvaluation
  BY <1>10 DEF CreateEvaluation
<1>11. CASE MarkEvaluation
  BY <1>11 DEF MarkEvaluation
<1>12. CASE Observe
  BY <1>12 DEF Observe, Save, AfterEvent
<1>13. CASE Checks
  BY <1>13 DEF Checks
<1>14. CASE CompleteRun
  BY <1>14 DEF CompleteRun, Completable
<1>15. CASE Return
  BY <1>15 DEF Return
<1>16. CASE Raise
  <2>1. UNCHANGED <<config, rowVars, rows, saving, modelVars, loopVars>> /\ pc \in Places
    BY <1>16 DEF Raise
  <2>2. files' \subseteq files /\ pc' \in {"rescue", "failing"}
    BY <1>16 DEF Raise, FailEvaluation
  <2>3. pc' = "failing" => InRescue
    BY <1>16 DEF Raise, FailEvaluation, InHandler
  <2>4. InRescue => pc' = "failing"
    BY <1>16 DEF Raise, FailEvaluation, InHandler
  <2>5. InRescue => "again" \in config.faults
    <3>1. InRescue => ~ Refused
      BY DEF Refused, Insertable
    <3> QED
      BY <1>16, <3>1 DEF Raise, Excepts, Interrupts, InHandler
  <2> QED
    BY <2>1, <2>2, <2>3, <2>4, <2>5
<1>17. CASE Rescue
  BY <1>17 DEF Rescue, Save, Unsaved
<1>18. CASE InterruptedSaved
  BY <1>18 DEF InterruptedSaved
<1>19. CASE FailRun
  BY <1>19 DEF FailRun
<1>20. CASE Crash
  BY <1>20 DEF Crash
<1>21. CASE MarkAbandoned
  BY <1>21 DEF MarkAbandoned
<1>22. ASSUME NEW score \in Scores, CompleteEvaluation(score) PROVE HandlerInv'
  BY <1>22 DEF CompleteEvaluation
<1>23. CASE UNCHANGED vars
  BY <1>23 DEF vars
<1> QED
  BY <1>1, <1>2, <1>3, <1>4, <1>5, <1>6, <1>7, <1>8, <1>9, <1>10, <1>11, <1>12, <1>13, <1>14, <1>15, <1>16, <1>17, <1>18, <1>19, <1>20, <1>21, <1>22, <1>23 DEF Next, Train

-----------------------------------------------------------------------------
(* The evaluations *)

\* Replacing the last row by another keeps a sequence of rows.
LEMMA LastReplaced ==
    ASSUME NEW q \in Seq(EvaluationRows), q # <<>>, NEW e \in EvaluationRows
    PROVE  /\ [q EXCEPT ![Len(q)] = e] \in Seq(EvaluationRows)
           /\ [q EXCEPT ![Len(q)] = e] # <<>>
<1>1. Len(q) \in 1 .. Len(q)
  OBVIOUS
<1>2. /\ [q EXCEPT ![Len(q)] = e] \in Seq(EvaluationRows)
      /\ Len([q EXCEPT ![Len(q)] = e]) = Len(q)
  BY <1>1, ExceptSeq
<1> QED
  BY <1>1, <1>2

\* Every step keeps the rows of evaluations, and the last one while an
\* evaluation is under way.
LEMMA EvalsStep == IInv /\ [Next]_vars => EvalsOK'
<1> SUFFICES ASSUME IInv, [Next]_vars PROVE EvalsOK'
  OBVIOUS
<1> DEFINE open == {"mark_eval", "evaluate", "observe"}
<1>a. /\ evals \in Seq(EvaluationRows)
      /\ early \in [best : Checkpoints \cup {NoCheckpoint}, score : Int, stale : Nat]
      /\ pc \in open => evals # <<>> /\ evals[Last] \in EvaluationRows
  BY DEF IInv, EvalsOK, Last
<1>1. ASSUME UNCHANGED <<evals, early>>, pc' \notin open PROVE EvalsOK'
  BY <1>1, <1>a DEF EvalsOK
<1>2. CASE CreateEvaluation
  <2>1. saving \in Checkpoints /\ scope \in {"train", "validation"}
    BY <1>2 DEF CreateEvaluation, IInv, FlowInv, Evaluating
  <2> DEFINE e == [of |-> saving, scope |-> scope, status |-> "pending", score |-> 0]
  <2>2. e \in EvaluationRows
    BY <2>1 DEF EvaluationRows
  <2>3. evals' = Append(evals, e) /\ UNCHANGED early
    BY <1>2 DEF CreateEvaluation
  <2>4. evals' \in Seq(EvaluationRows) /\ evals' # <<>>
    BY <1>a, <2>2, <2>3, AppendProperties
  <2> QED
    BY <1>a, <2>3, <2>4 DEF EvalsOK
<1>3. ASSUME NEW e \in EvaluationRows, pc \in open,
             evals' = [evals EXCEPT ![Last] = e], UNCHANGED early
      PROVE  EvalsOK'
  <2>1. evals' \in Seq(EvaluationRows) /\ evals' # <<>>
    BY <1>3, <1>a, LastReplaced DEF Last
  <2> QED
    BY <1>3, <1>a, <2>1 DEF EvalsOK
<1>4. CASE MarkEvaluation
  <2>1. pc \in open
    BY <1>4 DEF MarkEvaluation
  <2>2. [evals[Last] EXCEPT !.status = "running"] \in EvaluationRows
    BY <1>a, <2>1 DEF EvaluationRows
  <2> QED
    BY <1>3, <1>4, <2>1, <2>2 DEF MarkEvaluation, evalVars
<1>5. ASSUME NEW score \in Scores, CompleteEvaluation(score) PROVE EvalsOK'
  <2>1. pc \in open
    BY <1>5 DEF CompleteEvaluation
  <2> DEFINE e == [evals[Last] EXCEPT !.status = "completed", !.score = score]
  <2>2. e \in EvaluationRows
    BY <1>a, <2>1, TrainingAssumption DEF EvaluationRows
  <2>3. evals' = [evals EXCEPT ![Last] = e] /\ UNCHANGED early
    BY <1>5, <1>a, <2>1 DEF CompleteEvaluation
  <2> QED
    BY <1>3, <2>1, <2>2, <2>3
<1>6. CASE Observe
  <2>1. evals[Last].score \in Int
    BY <1>6, <1>a DEF Observe, EvaluationRows
  <2>2. saving \in Checkpoints
    BY <1>6 DEF Observe, IInv, FlowInv
  <2>3. UNCHANGED evals /\ early' = Observed(evals[Last].score) /\ evals # <<>>
    BY <1>6, <1>a DEF Observe
  <2>4. early' \in [best : Checkpoints \cup {NoCheckpoint}, score : Int, stale : Nat]
    BY <1>a, <2>1, <2>2, <2>3 DEF Observed
  <2> QED
    BY <1>a, <2>3, <2>4 DEF EvalsOK
<1>7. CASE Raise
  <2>1. UNCHANGED early /\ pc' \notin open
    BY <1>7 DEF Raise, FailEvaluation
  <2>2. CASE UNCHANGED evals
    BY <1>1, <2>1, <2>2
  <2>3. CASE evals' # evals
    <3> DEFINE e == [evals[Last] EXCEPT !.status =
                        IF @ \in {"pending", "running"} THEN "failed" ELSE @]
    <3>1. pc \in open /\ evals' = [evals EXCEPT ![Last] = e]
      BY <1>7, <2>3 DEF Raise, FailEvaluation
    <3>2. e \in EvaluationRows
      BY <1>a, <3>1 DEF EvaluationRows
    <3> QED
      BY <1>3, <2>1, <3>1, <3>2
  <2> QED
    BY <2>2, <2>3
<1>8. CASE MarkRunning \/ MakeModel \/ CountSteps \/ Learn \/ Progress \/ Store \/ Insert
  BY <1>1, <1>8 DEF MarkRunning, MakeModel, CountSteps, Learn, Progress, Store, Insert,
                    Committed, Save, evalVars
<1>9. CASE CommitRow \/ Saved \/ Checks \/ CompleteRun \/ Return
  BY <1>1, <1>9 DEF CommitRow, Saved, Checks, CompleteRun, Return, Evaluate, AfterEvent,
                    Committed, evalVars
<1>10. CASE Rescue \/ InterruptedSaved \/ FailRun \/ Crash
  BY <1>1, <1>10 DEF Rescue, InterruptedSaved, FailRun, Crash, Save, evalVars
<1>11. CASE MarkAbandoned \/ UNCHANGED vars
  BY <1>11, <1>a DEF MarkAbandoned, vars, evalVars, EvalsOK
<1> QED
  BY <1>2, <1>4, <1>5, <1>6, <1>7, <1>8, <1>9, <1>10, <1>11 DEF Next, Train

-----------------------------------------------------------------------------
(* Theorems *)

\* IInv is inductive.
THEOREM InductiveInvariant == Spec => []IInv
<1>1. IInv /\ [Next]_vars => IInv'
  <2> SUFFICES ASSUME IInv, [Next]_vars PROVE IInv'
    OBVIOUS
  <2>1. BaseOK' /\ EvalsOK' /\ FlowInv' /\ SaveInv' /\ HandlerInv'
    BY BaseStep, EvalsStep, FlowStep, SaveStep, HandlerStep
  <2> QED
    BY <2>1 DEF IInv
<1> QED
  BY InitIInv, <1>1, PTL DEF Spec

\* Every variable always has its type, whatever is configured and whatever
\* fails; in particular no step count ever exceeds the run's budget.
THEOREM TypeCorrect == Spec => []TypeOK
<1>1. IInv => TypeOK
  BY DEF IInv, BaseOK, EvalsOK, TypeOK
<1> QED
  BY InductiveInvariant, <1>1, PTL

\* No checkpoint row is ever without its file (persist_checkpoint_file), for
\* every schedule, and whichever exceptions, interrupts, lost commit answers
\* and kills come between its statements.
THEOREM CheckpointRowsHaveFiles == Spec => []RowsHaveFiles
<1>1. IInv => RowsHaveFiles
  BY DEF IInv, SaveInv, RowsHaveFiles
<1> QED
  BY InductiveInvariant, <1>1, PTL

\* Whenever train_ppo_run has raised without an error in its handler, the run
\* has its outcome and a failed one a checkpoint of the step it came to.
THEOREM FailuresAreRecorded == Spec => []RaisedIsRecorded
<1>1. IInv => RaisedIsRecorded
  BY DEF IInv, HandlerInv
<1> QED
  BY InductiveInvariant, <1>1, PTL

\* No write of a trainer or of whoever marks its run abandoned changes an
\* outcome that is in the row.
THEOREM OutcomesStay == Spec => OutcomeStays
<1>1. [Next]_vars => [(status \in {"completed", "failed"}) => UNCHANGED status]_vars
  <2> SUFFICES ASSUME [Next]_vars, status \in {"completed", "failed"} PROVE status' = status
    OBVIOUS
  <2>1. CASE MarkRunning \/ CompleteRun \/ FailRun \/ MarkAbandoned
    BY <2>1 DEF MarkRunning, CompleteRun, Completable, FailRun, MarkAbandoned
  <2>2. CASE MakeModel \/ CountSteps \/ Learn \/ Progress \/ Store \/ Insert \/ CommitRow
    BY <2>2 DEF MakeModel, CountSteps, Learn, Progress, Store, Insert, CommitRow, rowVars
  <2>3. CASE Saved \/ CreateEvaluation \/ MarkEvaluation \/ Observe \/ Checks \/ Return
    BY <2>3 DEF Saved, CreateEvaluation, MarkEvaluation, Observe, Checks, Return, rowVars
  <2>4. ASSUME NEW score \in Scores, CompleteEvaluation(score) PROVE status' = status
    BY <2>4 DEF CompleteEvaluation, rowVars
  <2>5. CASE Raise \/ Rescue \/ InterruptedSaved \/ Crash \/ UNCHANGED vars
    BY <2>5 DEF Raise, Rescue, InterruptedSaved, Crash, rowVars, vars
  <2> QED
    BY <2>1, <2>2, <2>3, <2>4, <2>5 DEF Next, Train
<1> QED
  BY <1>1, PTL DEF Spec, OutcomeStays

-----------------------------------------------------------------------------
(* A run without an error *)

\* No error is under way.
Normal == pc \in Places /\ ~ InRescue

Due == Events \ {config.total}

\* The row has the steps of the last event.
CountInv == Normal /\ pc # "progress" => steps = done

\* Training goes from event to event without passing one, and what is saved
\* is the checkpoint of the event or the INITIAL one.
SegmentInv == Normal =>
    /\ pc = "learn" => \A e \in Events : e > done => e >= local
    /\ pc \in {"mark", "model", "count", "learn", "progress"} => ~ stopping
    /\ done \in Events \cup {0}
    /\ pc \in {"progress", "observe", "checks", "complete"} \cup Evaluating => done > 0
    /\ pc \in Saves =>
          /\ saving[1] = "initial" => done = 0 /\ saving[2] = 0 /\ ~ stopping
          /\ saving[1] # "initial" => done > 0
          /\ saving[1] = "periodic" => done < config.total /\ ~ stopping

\* Every event that has passed has its PERIODIC checkpoint, and no other step.
PeriodicInv == Normal =>
    /\ \A c \in rows : c[1] = "periodic" => c[2] \in Due /\ c[2] <= done
    /\ \A e \in Due :
          e < done \/ (e = done /\ (pc \notin {"progress", "store", "insert", "commit"} \/ stopping))
              => <<"periodic", e>> \in rows

\* The FINAL checkpoint is one, of the last step; the others are named above.
FinalInv == Normal =>
    /\ \A c \in rows :
          /\ c[1] = "final" => c[2] = done /\ (final \/ (pc = "saved" /\ saving = c))
          /\ c[1] = "initial" => c[2] = 0
    /\ pc = "commit" /\ saving[1] = "final" => \A c \in rows : c[1] # "final"
    /\ pc = "complete" => Consistent

-----------------------------------------------------------------------------

NormalStep ==
    \/ MarkRunning \/ MakeModel \/ CountSteps \/ Learn \/ Progress
    \/ Store \/ Insert \/ CommitRow \/ Saved
    \/ CreateEvaluation \/ MarkEvaluation \/ \E score \in Scores : CompleteEvaluation(score)
    \/ Observe \/ Checks \/ CompleteRun
    \/ UNCHANGED <<config, steps, saveVars, evalVars, modelVars, loopVars, pc>>

\* An error is never left again: a step to a normal state starts in one, and
\* none of the failure handler's makes it.
LEMMA NormalSteps == IInv /\ [Next]_vars /\ Normal' => Normal /\ NormalStep
<1> SUFFICES ASSUME IInv, [Next]_vars, Normal' PROVE Normal /\ NormalStep
  OBVIOUS
<1> USE DEF Normal, InRescue, Saves, Evaluating, Places, Handler, Ends
<1>1. ~ (Raise \/ Rescue \/ InterruptedSaved \/ FailRun \/ Return \/ Crash)
  BY DEF Raise, FailEvaluation, Rescue, Save, InterruptedSaved, FailRun, Return, Crash
<1>2. CASE UNCHANGED vars \/ MarkAbandoned
  BY <1>2 DEF vars, MarkAbandoned, NormalStep, rowVars, saveVars, evalVars, modelVars, loopVars
<1>3. CASE Train
  <2>1. NormalStep
    BY <1>1, <1>3 DEF Train, NormalStep
  <2>2. CASE MarkRunning \/ MakeModel \/ CountSteps \/ Learn \/ Progress \/ Checks \/ CompleteRun
    BY <2>1, <2>2 DEF MarkRunning, MakeModel, CountSteps, Learn, Progress, Checks, CompleteRun
  <2>3. CASE Store \/ Insert \/ CommitRow
    BY <2>1, <2>3 DEF Store, Insert, CommitRow, saveVars
  <2>4. CASE Saved \/ CreateEvaluation \/ MarkEvaluation \/ Observe
    BY <2>1, <2>4 DEF Saved, CreateEvaluation, MarkEvaluation, Observe
  <2>5. CASE \E score \in Scores : CompleteEvaluation(score)
    BY <2>1, <2>5 DEF CompleteEvaluation
  <2> QED
    BY <1>1, <1>3, <2>1, <2>2, <2>3, <2>4, <2>5 DEF Train
<1> QED
  BY <1>1, <1>2, <1>3 DEF Next

\* The configuration, and with it the schedule, never changes.
LEMMA EventsKept == [Next]_vars => config' = config /\ Events' = Events
<1> SUFFICES ASSUME [Next]_vars PROVE config' = config /\ Events' = Events
  OBVIOUS
<1>1. config' = config
  <2>1. CASE MarkRunning \/ MakeModel \/ CountSteps \/ Learn \/ Progress \/ Store \/ Insert
    BY <2>1 DEF MarkRunning, MakeModel, CountSteps, Learn, Progress, Store, Insert
  <2>2. CASE CommitRow \/ Saved \/ CreateEvaluation \/ MarkEvaluation \/ Observe \/ Checks
    BY <2>2 DEF CommitRow, Saved, CreateEvaluation, MarkEvaluation, Observe, Checks
  <2>3. ASSUME NEW score \in Scores, CompleteEvaluation(score) PROVE config' = config
    BY <2>3 DEF CompleteEvaluation
  <2>4. CASE CompleteRun \/ Return \/ Raise \/ Rescue \/ InterruptedSaved \/ FailRun
    BY <2>4 DEF CompleteRun, Return, Raise, Rescue, InterruptedSaved, FailRun
  <2>5. CASE Crash \/ MarkAbandoned \/ UNCHANGED vars
    BY <2>5 DEF Crash, MarkAbandoned, vars
  <2> QED
    BY <2>1, <2>2, <2>3, <2>4, <2>5 DEF Next, Train
<1> QED
  BY <1>1 DEF Events, Multiples, Resolved

\* Events are steps of the run.
LEMMA EventSteps == BaseOK => Events \subseteq 1 .. config.total /\ config.total \in Events
BY ConfigNumbers DEF Events, Multiples, BaseOK

\* progress writes the steps of the event.
LEMMA CountStep == IInv /\ CountInv /\ [Next]_vars => CountInv'
<1> SUFFICES ASSUME IInv /\ CountInv, [Next]_vars, Normal' PROVE CountInv'
  BY DEF CountInv
<1> Normal /\ NormalStep /\ config' = config /\ Events' = Events
  BY NormalSteps, EventsKept
<1> USE DEF IInv, BaseOK, FlowInv, Normal, InRescue, Saves, Evaluating, Places, CountInv
<1>1. CASE MarkRunning \/ MakeModel \/ CountSteps \/ Learn \/ Progress
  BY <1>1 DEF MarkRunning, Committed, MakeModel, CountSteps, Save, Learn, AtBoundary,
         Progress, rowVars, saveVars, evalVars, modelVars, loopVars
<1>2. CASE Store \/ Insert \/ CommitRow \/ Saved \/ CreateEvaluation
  BY <1>2 DEF Store, Insert, CommitRow, Saved, Evaluate, AfterEvent, CreateEvaluation,
         Committed, rowVars, saveVars, evalVars, modelVars, loopVars
<1>3. CASE MarkEvaluation \/ Observe \/ Checks \/ CompleteRun
  BY <1>3 DEF MarkEvaluation, Observe, Save, AfterEvent, Checks, CompleteRun, Committed,
         rowVars, saveVars, evalVars, modelVars, loopVars
<1>4. ASSUME NEW score \in Scores, CompleteEvaluation(score) PROVE CountInv'
  BY <1>4 DEF CompleteEvaluation, rowVars, saveVars, evalVars, modelVars, loopVars
<1>5. CASE UNCHANGED <<config, steps, saveVars, evalVars, modelVars, loopVars, pc>>
  BY <1>5 DEF rowVars, saveVars, evalVars, modelVars, loopVars
<1> QED
  BY <1>1, <1>2, <1>3, <1>4, <1>5 DEF NormalStep

\* A segment ends at the next event.
LEMMA SegmentStep == IInv /\ SegmentInv /\ [Next]_vars => SegmentInv'
<1> SUFFICES ASSUME IInv /\ SegmentInv, [Next]_vars, Normal' PROVE SegmentInv'
  BY DEF SegmentInv
<1> Normal /\ NormalStep /\ config' = config /\ Events' = Events
  BY NormalSteps, EventsKept
<1> USE ConfigNumbers, EventSteps DEF IInv, BaseOK, FlowInv, SaveInv, NoCheckpoint,
         Normal, InRescue, Saves, Evaluating, Places, Checkpoints, Reasons, SegmentInv,
         Due
<1>1. CASE CountSteps
  BY <1>1 DEF CountSteps, Save, rowVars, saveVars, evalVars, modelVars, loopVars
<1>2. CASE Learn
  BY <1>2 DEF Learn, AtBoundary, rowVars, saveVars, evalVars, modelVars, loopVars
<1>3. CASE Progress
  BY <1>3 DEF Progress, Committed, rowVars, saveVars, evalVars, modelVars, loopVars
<1>4. CASE Store
  BY <1>4 DEF Store, rowVars, saveVars, evalVars, modelVars, loopVars
<1>5. CASE Insert
  BY <1>5 DEF Insert, rowVars, saveVars, evalVars, modelVars, loopVars
<1>6. CASE CommitRow
  BY <1>6 DEF CommitRow, rowVars, saveVars, evalVars, modelVars, loopVars
<1>7. CASE Saved
  BY <1>7 DEF Saved, Evaluate, AfterEvent, rowVars, saveVars, evalVars, modelVars,
         loopVars
<1>8. CASE CreateEvaluation
  BY <1>8 DEF CreateEvaluation, Committed, rowVars, saveVars, evalVars, modelVars,
         loopVars
<1>9. CASE MarkEvaluation
  BY <1>9 DEF MarkEvaluation, rowVars, saveVars, evalVars, modelVars, loopVars
<1>10. CASE Observe
  BY <1>10 DEF Observe, Save, AfterEvent, rowVars, saveVars, evalVars, modelVars, loopVars
<1>11. CASE Checks
  BY <1>11 DEF Checks, rowVars, saveVars, evalVars, modelVars, loopVars
<1>12. CASE MarkRunning \/ MakeModel \/ CompleteRun
  BY <1>12 DEF MarkRunning, Committed, MakeModel, CompleteRun, rowVars, saveVars,
         evalVars, modelVars, loopVars
<1>13. ASSUME NEW score \in Scores, CompleteEvaluation(score) PROVE SegmentInv'
  BY <1>13 DEF CompleteEvaluation, rowVars, saveVars, evalVars, modelVars, loopVars
<1>14. CASE UNCHANGED <<config, steps, saveVars, evalVars, modelVars, loopVars, pc>>
  BY <1>14 DEF rowVars, saveVars, evalVars, modelVars, loopVars
<1> QED
  BY <1>1, <1>2, <1>3, <1>4, <1>5, <1>6, <1>7, <1>8, <1>9, <1>10, <1>11, <1>12, <1>13,
         <1>14 DEF NormalStep

\* Each event's checkpoint is committed before training goes on.
LEMMA PeriodicStep == IInv /\ SegmentInv /\ PeriodicInv /\ [Next]_vars => PeriodicInv'
<1> SUFFICES ASSUME IInv /\ SegmentInv /\ PeriodicInv, [Next]_vars, Normal' PROVE PeriodicInv'
  BY DEF PeriodicInv
<1> Normal /\ NormalStep /\ config' = config /\ Events' = Events
  BY NormalSteps, EventsKept
<1> USE ConfigNumbers, EventSteps DEF IInv, BaseOK, FlowInv, SaveInv, NoCheckpoint,
         Normal, InRescue, Saves, Evaluating, Places, Checkpoints, Reasons, PeriodicInv,
         SegmentInv, Due
<1>1. CASE CountSteps
  BY <1>1 DEF CountSteps, Save, rowVars, saveVars, evalVars, modelVars, loopVars
<1>2. CASE Learn
  BY <1>2 DEF Learn, AtBoundary, rowVars, saveVars, evalVars, modelVars, loopVars
<1>3. CASE Progress
  BY <1>3 DEF Progress, Committed, rowVars, saveVars, evalVars, modelVars, loopVars
<1>4. CASE Store
  BY <1>4 DEF Store, rowVars, saveVars, evalVars, modelVars, loopVars
<1>5. CASE Insert
  BY <1>5 DEF Insert, rowVars, saveVars, evalVars, modelVars, loopVars
<1>6. CASE CommitRow
  BY <1>6 DEF CommitRow, rowVars, saveVars, evalVars, modelVars, loopVars
<1>7. CASE Saved
  BY <1>7 DEF Saved, Evaluate, AfterEvent, rowVars, saveVars, evalVars, modelVars,
         loopVars
<1>8. CASE Observe
  BY <1>8 DEF Observe, Save, AfterEvent, rowVars, saveVars, evalVars, modelVars, loopVars
<1>9. CASE MarkRunning \/ MakeModel \/ CreateEvaluation \/ MarkEvaluation \/ Checks
  BY <1>9 DEF MarkRunning, Committed, MakeModel, CreateEvaluation, MarkEvaluation, Checks,
         rowVars, saveVars, evalVars, modelVars, loopVars
<1>10. CASE CompleteRun
  BY <1>10 DEF CompleteRun, Committed, rowVars, saveVars, evalVars, modelVars, loopVars
<1>11. ASSUME NEW score \in Scores, CompleteEvaluation(score) PROVE PeriodicInv'
  BY <1>11 DEF CompleteEvaluation, rowVars, saveVars, evalVars, modelVars, loopVars
<1>12. CASE UNCHANGED <<config, steps, saveVars, evalVars, modelVars, loopVars, pc>>
  BY <1>12 DEF rowVars, saveVars, evalVars, modelVars, loopVars
<1> QED
  BY <1>1, <1>2, <1>3, <1>4, <1>5, <1>6, <1>7, <1>8, <1>9, <1>10, <1>11,
         <1>12 DEF NormalStep

\* The FINAL checkpoint is inserted once.
LEMMA FinalStep == IInv /\ SegmentInv /\ FinalInv /\ [Next]_vars => FinalInv'
<1> SUFFICES ASSUME IInv /\ SegmentInv /\ FinalInv, [Next]_vars, Normal' PROVE FinalInv'
  BY DEF FinalInv
<1> Normal /\ NormalStep /\ config' = config /\ Events' = Events
  BY NormalSteps, EventsKept
<1> USE ConfigNumbers, EventSteps DEF IInv, BaseOK, FlowInv, SaveInv, NoCheckpoint,
         Normal, InRescue, Saves, Evaluating, Places, Checkpoints, Reasons, FinalInv,
         SegmentInv, Insertable, Consistent
<1>1. CASE CountSteps
  BY <1>1 DEF CountSteps, Save, rowVars, saveVars, evalVars, modelVars, loopVars
<1>2. CASE Learn
  BY <1>2 DEF Learn, AtBoundary, rowVars, saveVars, evalVars, modelVars, loopVars
<1>3. CASE Progress
  BY <1>3 DEF Progress, Committed, rowVars, saveVars, evalVars, modelVars, loopVars
<1>4. CASE Store
  BY <1>4 DEF Store, rowVars, saveVars, evalVars, modelVars, loopVars
<1>5. CASE Insert
  BY <1>5 DEF Insert, rowVars, saveVars, evalVars, modelVars, loopVars
<1>6. CASE CommitRow
  BY <1>6 DEF CommitRow, rowVars, saveVars, evalVars, modelVars, loopVars
<1>7. CASE Saved
  BY <1>7 DEF Saved, Evaluate, AfterEvent, rowVars, saveVars, evalVars, modelVars,
         loopVars
<1>8. CASE Observe
  BY <1>8 DEF Observe, Save, AfterEvent, rowVars, saveVars, evalVars, modelVars, loopVars
<1>9. CASE Checks
  BY <1>9 DEF Checks, rowVars, saveVars, evalVars, modelVars, loopVars
<1>10. CASE MarkRunning \/ MakeModel \/ CreateEvaluation \/ MarkEvaluation \/ CompleteRun
  BY <1>10 DEF MarkRunning, Committed, MakeModel, CreateEvaluation, MarkEvaluation,
         CompleteRun, rowVars, saveVars, evalVars, modelVars, loopVars
<1>11. ASSUME NEW score \in Scores, CompleteEvaluation(score) PROVE FinalInv'
  BY <1>11 DEF CompleteEvaluation, rowVars, saveVars, evalVars, modelVars, loopVars
<1>12. CASE UNCHANGED <<config, steps, saveVars, evalVars, modelVars, loopVars, pc>>
  BY <1>12 DEF rowVars, saveVars, evalVars, modelVars, loopVars
<1> QED
  BY <1>1, <1>2, <1>3, <1>4, <1>5, <1>6, <1>7, <1>8, <1>9, <1>10, <1>11,
         <1>12 DEF NormalStep

-----------------------------------------------------------------------------
(* The rows of evaluations *)

\* What Append does to the rows.
LEMMA AppendedRow ==
    ASSUME EvalsOK, NEW e \in EvaluationRows, e.status = "pending", evals' = Append(evals, e)
    PROVE  /\ Last \in Nat /\ Last' = Last + 1
           /\ DOMAIN evals = 1 .. Last /\ DOMAIN evals' = 1 .. Last + 1
           /\ \A i \in 1 .. Last : evals'[i] = evals[i]
           /\ evals'[Last + 1] = e
           /\ \A c, data : Completed(c, data)' = Completed(c, data)
<1>1. evals \in Seq(EvaluationRows)
  BY DEF EvalsOK
<1>2. /\ Last \in Nat /\ Last' = Last + 1
      /\ DOMAIN evals = 1 .. Last /\ DOMAIN evals' = 1 .. Last + 1
      /\ \A i \in 1 .. Last : evals'[i] = evals[i]
      /\ evals'[Last + 1] = e
  BY <1>1, AppendProperties, LenProperties DEF Last
<1>3. ASSUME NEW c, NEW data PROVE Completed(c, data)' = Completed(c, data)
  <2>1. Completed(c, data)' = {i \in 1 .. Last + 1 : evals'[i].of = c /\ evals'[i].scope = data
                                                   /\ evals'[i].status = "completed"}
    BY <1>2 DEF Completed
  <2>2. Completed(c, data) = {i \in 1 .. Last : evals[i].of = c /\ evals[i].scope = data
                                                /\ evals[i].status = "completed"}
    BY <1>2 DEF Completed
  <2>3. \A i \in 1 .. Last + 1 : i \in 1 .. Last \/ i = Last + 1
    BY <1>2
  <2>4. \A i \in 1 .. Last : i \in 1 .. Last + 1
    BY <1>2
  <2> QED
    BY <1>2, <2>1, <2>2, <2>3, <2>4
<1> QED
  BY <1>2, <1>3

\* What a change of the last row does to them.
LEMMA ReplacedRow ==
    ASSUME EvalsOK, evals # <<>>, NEW e, evals' = [evals EXCEPT ![Last] = e]
    PROVE  /\ Last \in Nat /\ Last \in 1 .. Last /\ Last' = Last
           /\ DOMAIN evals = 1 .. Last /\ DOMAIN evals' = 1 .. Last
           /\ \A i \in 1 .. Last : i # Last => evals'[i] = evals[i]
           /\ evals'[Last] = e
           /\ \A c, data : \A i :
                 i \in Completed(c, data)' <=>
                    \/ i # Last /\ i \in Completed(c, data)
                    \/ i = Last /\ e.of = c /\ e.scope = data /\ e.status = "completed"
<1>1. evals \in Seq(EvaluationRows)
  BY DEF EvalsOK
<1>2. Last \in Nat /\ Last \in 1 .. Last /\ DOMAIN evals = 1 .. Last
  BY <1>1, LenProperties, EmptySeq DEF Last
<1>3. /\ DOMAIN evals' = 1 .. Last
      /\ \A i \in 1 .. Last : i # Last => evals'[i] = evals[i]
      /\ evals'[Last] = e
  BY <1>2
<1>4. Last' = Last
  <2>1. evals' = [i \in 1 .. Last |-> evals'[i]]
    BY <1>2, <1>3
  <2> QED
    BY <1>2, <1>3, <2>1 DEF Last
<1>5. ASSUME NEW c, NEW data, NEW i
      PROVE  i \in Completed(c, data)' <=>
                \/ i # Last /\ i \in Completed(c, data)
                \/ i = Last /\ e.of = c /\ e.scope = data /\ e.status = "completed"
  BY <1>2, <1>3 DEF Completed
<1> QED
  BY <1>2, <1>3, <1>4, <1>5

Initial == <<"initial", 0>>

\* The evaluations the event of checkpoint c asks for have been completed.
Evaluated(c) ==
    \E v \in DOMAIN evals :
       /\ Completed(c, "validation") = {v}
       /\ Completed(c, "train") = IF config.cycle THEN {} ELSE {v - 1}

InProgress(c) == c = saving /\ pc \in {"saved"} \cup Evaluating

\* The TRAIN row of the checkpoint is behind, or there is none to come.
TrainDone(rowsBefore) ==
    Completed(saving, "train") =
        IF config.cycle \/ scope = "train" THEN {} ELSE {rowsBefore}

RowsOfCheckpoints == \A i \in DOMAIN evals : evals[i].of \in rows

AllScored == \A c \in rows \ {Initial} : EvaluationDue(c[2]) => InProgress(c) \/ Evaluated(c)

\* A checkpoint just saved has no evaluation yet, and one being evaluated the
\* rows its place says.
Underway ==
    /\ pc = "saved" => \A i \in DOMAIN evals : evals[i].of # saving
    /\ pc \in Evaluating =>
          /\ saving \in rows
          /\ config.cycle => scope = "validation"
          /\ Completed(saving, "validation") = {}
    /\ pc = "create" => TrainDone(Last)
    /\ pc \in {"mark_eval", "evaluate"} =>
          /\ evals[Last].of = saving /\ evals[Last].scope = scope
          /\ evals[Last].status \in {"pending", "running"}
          /\ TrainDone(Last - 1)

\* A checkpoint's evaluations follow its row, one after the other.
ScoredInv == Normal => RowsOfCheckpoints /\ AllScored /\ Underway

\* An evaluation only adds and changes rows of the checkpoint being evaluated.
LEMMA ScoredStep == IInv /\ SegmentInv /\ ScoredInv /\ [Next]_vars => ScoredInv'
<1> SUFFICES ASSUME IInv /\ SegmentInv /\ ScoredInv, [Next]_vars, Normal' PROVE RowsOfCheckpoints' /\ AllScored' /\ Underway'
  BY DEF ScoredInv
<1> Normal /\ NormalStep /\ config' = config /\ Events' = Events
  BY NormalSteps, EventsKept
<1> RowsOfCheckpoints /\ AllScored /\ Underway
  BY DEF ScoredInv
<1>a. \A s : EvaluationDue(s)' <=> EvaluationDue(s)
  BY DEF EvaluationDue, Resolved
<1>b. /\ EvalsOK
      /\ pc \in {"mark_eval", "evaluate"} => evals # <<>> /\ scope \in {"train", "validation"}
      /\ pc \in Evaluating => saving \in Checkpoints /\ scope \in {"train", "validation"}
      /\ pc = "commit" => saving \notin rows
      /\ pc = "saved" => saving \in rows
  BY DEF IInv, EvalsOK, FlowInv, SaveInv, Evaluating, Saves
<1>c. pc = "saved" => IF saving[1] = "initial" THEN saving = Initial ELSE saving[2] = done
  <2>1. pc = "saved" => saving \in Checkpoints /\ saving[1] # "interrupted"
    BY DEF IInv, FlowInv, Saves, Normal, InRescue
  <2>2. pc = "saved" /\ saving[1] = "initial" => saving[2] = 0
    BY DEF SegmentInv, Saves
  <2>3. pc = "saved" /\ saving[1] \in {"periodic", "final"} => saving[2] = done
    BY DEF IInv, SaveInv, Saves
  <2> QED
    BY <2>1, <2>2, <2>3 DEF Checkpoints, Reasons, Initial
<1>d. ASSUME UNCHANGED <<evals, config, rows>>, pc \notin {"saved"} \cup Evaluating,
             pc' \notin {"saved"} \cup Evaluating
      PROVE  RowsOfCheckpoints' /\ AllScored' /\ Underway'
  <2>1. \A c : Evaluated(c)' <=> Evaluated(c)
    BY <1>d DEF Evaluated, Completed
  <2>2. \A c : ~ InProgress(c) /\ ~ InProgress(c)'
    BY <1>d DEF InProgress
  <2>3. RowsOfCheckpoints' /\ Underway'
    BY <1>d DEF RowsOfCheckpoints, Underway, Evaluating
  <2>4. AllScored'
    BY <1>a, <1>d, <2>1, <2>2 DEF AllScored
  <2> QED
    BY <2>3, <2>4
<1>1. CASE MarkRunning
  <2>1. /\ UNCHANGED <<evals, config, rows>>
        /\ pc \notin {"saved"} \cup Evaluating /\ pc' \notin {"saved"} \cup Evaluating
    BY <1>1 DEF Evaluating, MarkRunning, Committed, rowVars, saveVars, evalVars, modelVars, loopVars
  <2> QED
    BY <1>d, <2>1
<1>2. CASE MakeModel
  <2>1. /\ UNCHANGED <<evals, config, rows>>
        /\ pc \notin {"saved"} \cup Evaluating /\ pc' \notin {"saved"} \cup Evaluating
    BY <1>2 DEF Evaluating, MakeModel, rowVars, saveVars, evalVars, modelVars, loopVars
  <2> QED
    BY <1>d, <2>1
<1>3. CASE CountSteps
  <2>1. /\ UNCHANGED <<evals, config, rows>>
        /\ pc \notin {"saved"} \cup Evaluating /\ pc' \notin {"saved"} \cup Evaluating
    BY <1>3 DEF Evaluating, CountSteps, Save, rowVars, saveVars, evalVars, modelVars, loopVars
  <2> QED
    BY <1>d, <2>1
<1>4. CASE Learn
  <2>1. /\ UNCHANGED <<evals, config, rows>>
        /\ pc \notin {"saved"} \cup Evaluating /\ pc' \notin {"saved"} \cup Evaluating
    BY <1>4 DEF Evaluating, Learn, AtBoundary, rowVars, saveVars, evalVars, modelVars, loopVars
  <2> QED
    BY <1>d, <2>1
<1>5. CASE Progress
  <2>1. /\ UNCHANGED <<evals, config, rows>>
        /\ pc \notin {"saved"} \cup Evaluating /\ pc' \notin {"saved"} \cup Evaluating
    BY <1>5 DEF Evaluating, Progress, Committed, rowVars, saveVars, evalVars, modelVars, loopVars
  <2> QED
    BY <1>d, <2>1
<1>6. CASE Store
  <2>1. /\ UNCHANGED <<evals, config, rows>>
        /\ pc \notin {"saved"} \cup Evaluating /\ pc' \notin {"saved"} \cup Evaluating
    BY <1>6 DEF Evaluating, Store, rowVars, saveVars, evalVars, modelVars, loopVars
  <2> QED
    BY <1>d, <2>1
<1>7. CASE Insert
  <2>1. /\ UNCHANGED <<evals, config, rows>>
        /\ pc \notin {"saved"} \cup Evaluating /\ pc' \notin {"saved"} \cup Evaluating
    BY <1>7 DEF Evaluating, Insert, rowVars, saveVars, evalVars, modelVars, loopVars
  <2> QED
    BY <1>d, <2>1
<1>8. CASE CommitRow
  <2>1. rows' = rows \cup {saving} /\ pc' = "saved" /\ UNCHANGED <<evals, saving, config, scope>>
    BY <1>8 DEF CommitRow, evalVars, Normal, InRescue, Places, Saves, Evaluating
  <2>2. \A i \in DOMAIN evals : evals[i].of # saving
    BY <1>8, <1>b DEF CommitRow, RowsOfCheckpoints
  <2>3. \A c : Evaluated(c)' <=> Evaluated(c)
    BY <2>1 DEF Evaluated, Completed
  <2>4. ~ \E c : InProgress(c)
    BY <1>8 DEF CommitRow, InProgress, Evaluating
  <2>5. InProgress(saving)'
    BY <2>1 DEF InProgress
  <2>6. RowsOfCheckpoints' /\ Underway'
    BY <2>1, <2>2 DEF RowsOfCheckpoints, Underway, Evaluating
  <2>7. AllScored'
    BY <1>a, <2>1, <2>3, <2>4, <2>5 DEF AllScored
  <2> QED
    BY <2>6, <2>7
<1>9. CASE Saved
  <2>1. UNCHANGED <<evals, saving, rows, config, done>> /\ pc = "saved" /\ saving \in rows
    BY <1>9, <1>b DEF Saved, saveVars
  <2>2. \A c : Evaluated(c)' <=> Evaluated(c)
    BY <2>1 DEF Evaluated, Completed
  <2>3. \A c : InProgress(c) => c = saving
    BY DEF InProgress
  <2>4. CASE pc' = "create" /\ scope' = IF config.cycle THEN "validation" ELSE "train"
    <3>1. Completed(saving, "validation")' = {} /\ Completed(saving, "train")' = {}
      BY <2>1 DEF Completed, Underway
    <3>2. TrainDone(Last)'
      BY <2>1, <2>4, <3>1 DEF TrainDone
    <3>3. InProgress(saving)'
      BY <2>1, <2>4 DEF InProgress, Evaluating
    <3>4. RowsOfCheckpoints' /\ Underway'
      BY <2>1, <2>4, <3>1, <3>2 DEF RowsOfCheckpoints, Underway
    <3>5. AllScored'
      BY <1>a, <2>1, <2>2, <2>3, <3>3 DEF AllScored
    <3> QED
      BY <3>4, <3>5
  <2>5. CASE pc' \in {"checks", "learn"} /\ ~ (saving[1] # "initial" /\ EvaluationDue(done))
    <3>1. saving = Initial \/ ~ EvaluationDue(saving[2])
      <4>1. CASE saving[1] = "initial"
        BY <1>c, <2>1, <4>1
      <4>2. CASE saving[1] # "initial"
        <5>1. saving[2] = done /\ ~ EvaluationDue(done)
          BY <1>c, <2>1, <2>5, <4>2
        <5> QED
          BY <5>1
      <4> QED
        BY <4>1, <4>2
    <3>2. RowsOfCheckpoints' /\ Underway'
      BY <2>1, <2>5 DEF RowsOfCheckpoints, Underway, Evaluating
    <3>3. AllScored'
      BY <1>a, <2>1, <2>2, <2>3, <3>1 DEF AllScored
    <3> QED
      BY <3>2, <3>3
  <2> QED
    BY <1>9, <2>4, <2>5 DEF Saved, Evaluate, AfterEvent
<1>10. CASE CreateEvaluation
  <2> DEFINE e == [of |-> saving, scope |-> scope, status |-> "pending", score |-> 0]
  <2>1. /\ UNCHANGED <<saving, rows, config, scope>> /\ pc = "create" /\ pc' = "mark_eval"
        /\ evals' = Append(evals, e)
    BY <1>10 DEF CreateEvaluation, Committed, saveVars, Normal, Places, Saves, Evaluating
  <2>2. e \in EvaluationRows /\ e.status = "pending" /\ e.of = saving /\ e.scope = scope
    BY <1>b, <2>1 DEF EvaluationRows, Evaluating
  <2> HIDE DEF e
  <2>3. /\ Last \in Nat /\ Last' = Last + 1
        /\ DOMAIN evals = 1 .. Last /\ DOMAIN evals' = 1 .. Last + 1
        /\ \A i \in 1 .. Last : evals'[i] = evals[i]
        /\ evals'[Last + 1] = e
        /\ \A c, data : Completed(c, data)' = Completed(c, data)
    BY <1>b, <2>1, <2>2, AppendedRow
  <2>4. \A c : Evaluated(c) => Evaluated(c)'
    <3>1. \A i \in DOMAIN evals : i \in DOMAIN evals'
      BY <2>3
    <3> QED
      BY <2>1, <2>3, <3>1 DEF Evaluated
  <2>5. \A c : InProgress(c) => InProgress(c)'
    BY <2>1 DEF InProgress, Evaluating
  <2>6. Completed(saving, "validation")' = {} /\ saving' \in rows' /\ (config.cycle => scope = "validation")
    BY <2>1, <2>3 DEF Underway, Evaluating
  <2>7. TrainDone(Last - 1)'
    <3>1. Last' - 1 = Last
      BY <2>3
    <3> QED
      BY <2>1, <2>3, <3>1 DEF TrainDone, Underway
  <2>8. \A i \in DOMAIN evals' : evals'[i].of \in rows'
    <3>1. \A i \in DOMAIN evals' : i \in DOMAIN evals \/ i = Last + 1
      BY <2>3
    <3> QED
      BY <2>1, <2>2, <2>3, <2>6, <3>1 DEF RowsOfCheckpoints
  <2>9. Underway'
    BY <2>1, <2>2, <2>3, <2>6, <2>7 DEF Underway
  <2>10. AllScored'
    BY <1>a, <2>1, <2>4, <2>5 DEF AllScored
  <2> QED
    BY <2>8, <2>9, <2>10 DEF RowsOfCheckpoints
<1>11. CASE MarkEvaluation
  <2> DEFINE e == [evals[Last] EXCEPT !.status = "running"]
  <2>1. /\ UNCHANGED <<saving, rows, config, scope>> /\ pc = "mark_eval" /\ pc' = "evaluate"
        /\ evals' = [evals EXCEPT ![Last] = e] /\ evals # <<>>
    BY <1>11, <1>b DEF MarkEvaluation, saveVars
  <2>2. /\ Last \in Nat /\ Last \in 1 .. Last /\ Last' = Last
        /\ DOMAIN evals = 1 .. Last /\ DOMAIN evals' = 1 .. Last
        /\ \A i \in 1 .. Last : i # Last => evals'[i] = evals[i]
        /\ evals'[Last] = e
        /\ \A c, data : \A i :
              i \in Completed(c, data)' <=>
                 \/ i # Last /\ i \in Completed(c, data)
                 \/ i = Last /\ e.of = c /\ e.scope = data /\ e.status = "completed"
    <3> HIDE DEF e
    <3> QED
      BY <1>b, <2>1, ReplacedRow
  <2>3. e.of = saving /\ e.scope = scope /\ e.status = "running"
    <3>1. evals[Last] \in EvaluationRows
      BY <1>b, <2>2 DEF EvalsOK
    <3> QED
      BY <2>1, <3>1 DEF EvaluationRows, Underway
  <2> HIDE DEF e
  <2>4. \A c, data : Completed(c, data)' = Completed(c, data)
    <3>1. \A c, data : Last \notin Completed(c, data)
      BY <2>1 DEF Completed, Underway
    <3>2. \A c, data, i : i \in Completed(c, data)' <=> i \in Completed(c, data)
      BY <2>2, <2>3, <3>1
    <3> QED
      BY <3>2
  <2>5. \A c : Evaluated(c) => Evaluated(c)'
    BY <2>1, <2>2, <2>4 DEF Evaluated
  <2>6. \A c : InProgress(c) => InProgress(c)'
    BY <2>1 DEF InProgress, Evaluating
  <2>7. TrainDone(Last - 1)'
    BY <2>1, <2>2, <2>4 DEF TrainDone, Underway
  <2>8. RowsOfCheckpoints'
    <3>1. saving \in rows
      BY <2>1 DEF Underway, Evaluating
    <3> QED
      BY <2>1, <2>2, <2>3, <3>1 DEF RowsOfCheckpoints
  <2>9. Underway'
    BY <2>1, <2>2, <2>3, <2>4, <2>7 DEF Underway, Evaluating
  <2>10. AllScored'
    BY <1>a, <2>1, <2>5, <2>6 DEF AllScored
  <2> QED
    BY <2>8, <2>9, <2>10
<1>12. CASE Observe
  <2>1. /\ UNCHANGED <<evals, config, rows>>
        /\ pc \notin {"saved"} \cup Evaluating /\ pc' \notin {"saved"} \cup Evaluating
    BY <1>12 DEF Evaluating, Observe, Save, AfterEvent, rowVars, saveVars, evalVars, modelVars, loopVars
  <2> QED
    BY <1>d, <2>1
<1>13. CASE Checks
  <2>1. /\ UNCHANGED <<evals, config, rows>>
        /\ pc \notin {"saved"} \cup Evaluating /\ pc' \notin {"saved"} \cup Evaluating
    BY <1>13 DEF Evaluating, Checks, rowVars, saveVars, evalVars, modelVars, loopVars
  <2> QED
    BY <1>d, <2>1
<1>14. CASE CompleteRun
  <2>1. /\ UNCHANGED <<evals, config, rows>>
        /\ pc \notin {"saved"} \cup Evaluating /\ pc' \notin {"saved"} \cup Evaluating
    BY <1>14 DEF Evaluating, CompleteRun, Committed, rowVars, saveVars, evalVars, modelVars, loopVars
  <2> QED
    BY <1>d, <2>1
<1>15. ASSUME NEW score \in Scores, CompleteEvaluation(score) PROVE RowsOfCheckpoints' /\ AllScored' /\ Underway'
  <2> DEFINE e == [evals[Last] EXCEPT !.status = "completed", !.score = score]
  <2>1. /\ UNCHANGED <<saving, rows, config>> /\ pc = "evaluate"
        /\ \/ scope = "train" /\ pc' = "create" /\ scope' = "validation"
           \/ scope = "validation" /\ pc' = "observe" /\ UNCHANGED scope
    BY <1>15 DEF CompleteEvaluation, saveVars, Normal, Places, Saves, Evaluating
  <2>2. evals # <<>> /\ evals[Last] \in EvaluationRows
    <3>1. evals # <<>> /\ evals \in Seq(EvaluationRows)
      BY <1>b, <2>1 DEF EvalsOK
    <3> QED
      BY <3>1, LenProperties, EmptySeq DEF Last
  <2>3. evals' = [evals EXCEPT ![Last] = e]
    BY <1>15, <2>2 DEF CompleteEvaluation, EvaluationRows
  <2>4. /\ Last \in Nat /\ Last \in 1 .. Last /\ Last' = Last
        /\ DOMAIN evals = 1 .. Last /\ DOMAIN evals' = 1 .. Last
        /\ \A i \in 1 .. Last : i # Last => evals'[i] = evals[i]
        /\ evals'[Last] = e
        /\ \A c, data : \A i :
              i \in Completed(c, data)' <=>
                 \/ i # Last /\ i \in Completed(c, data)
                 \/ i = Last /\ e.of = c /\ e.scope = data /\ e.status = "completed"
    <3> HIDE DEF e
    <3> QED
      BY <1>b, <2>2, <2>3, ReplacedRow
  <2>5. e.of = saving /\ e.scope = scope /\ e.status = "completed"
    BY <2>1, <2>2 DEF EvaluationRows, Underway
  <2> HIDE DEF e
  <2>6. /\ \A c, data : Last \notin Completed(c, data)
        /\ Completed(saving, "validation") = {} /\ TrainDone(Last - 1) /\ saving \in rows
        /\ config.cycle => scope = "validation"
    BY <2>1 DEF Completed, Underway, Evaluating
  <2>7. /\ \A c, data : c # saving \/ data # scope => Completed(c, data)' = Completed(c, data)
        /\ \A c, data : c = saving /\ data = scope => Completed(c, data)' = Completed(c, data) \cup {Last}
    <3>1. \A c, data, i : c # saving \/ data # scope => (i \in Completed(c, data)' <=> i \in Completed(c, data))
      BY <2>4, <2>5, <2>6
    <3>2. \A c, data, i : c = saving /\ data = scope =>
                            (i \in Completed(c, data)' <=> i \in Completed(c, data) \cup {Last})
      BY <2>4, <2>5, <2>6
    <3>3. \A c, data : (\A i : i \in Completed(c, data)' <=> i \in Completed(c, data))
                         => Completed(c, data)' = Completed(c, data)
      BY DEF Completed
    <3>4. \A c, data : (\A i : i \in Completed(c, data)' <=> i \in Completed(c, data) \cup {Last})
                         => Completed(c, data)' = Completed(c, data) \cup {Last}
      OBVIOUS
    <3> QED
      BY <3>1, <3>2, <3>3, <3>4
  <2>8. \A c : c # saving /\ Evaluated(c) => Evaluated(c)'
    BY <2>1, <2>4, <2>7 DEF Evaluated
  <2>9. RowsOfCheckpoints'
    BY <2>1, <2>4, <2>5, <2>6 DEF RowsOfCheckpoints
  <2>10. \A c : InProgress(c) <=> c = saving
    BY <2>1 DEF InProgress, Evaluating
  <2>11. CASE scope = "train"
    <3>1. pc' = "create" /\ scope' = "validation" /\ ~ config.cycle
      BY <2>1, <2>6, <2>11
    <3>2. Completed(saving, "validation")' = {} /\ Completed(saving, "train")' = {Last}
      BY <2>1, <2>6, <2>7, <2>11 DEF TrainDone
    <3>3. TrainDone(Last)'
      BY <2>1, <2>4, <3>1, <3>2 DEF TrainDone
    <3>4. InProgress(saving)'
      BY <2>1, <3>1 DEF InProgress, Evaluating
    <3> QED
      <4>1. Underway'
        BY <2>1, <2>6, <3>1, <3>2, <3>3 DEF Underway
      <4>2. AllScored'
        BY <1>a, <2>1, <2>8, <2>10, <3>4 DEF AllScored
      <4> QED
        BY <2>9, <4>1, <4>2
  <2>12. CASE scope = "validation"
    <3>1. pc' = "observe" /\ scope' = scope
      BY <2>1, <2>12
    <3>2. /\ Completed(saving, "validation")' = {Last}
          /\ Completed(saving, "train")' = IF config.cycle THEN {} ELSE {Last - 1}
      BY <2>1, <2>6, <2>7, <2>12 DEF TrainDone
    <3>3. Evaluated(saving)'
      BY <2>1, <2>4, <3>2 DEF Evaluated
    <3> QED
      <4>1. Underway'
        BY <3>1 DEF Underway, Evaluating
      <4>2. AllScored'
        BY <1>a, <2>1, <2>8, <2>10, <3>3 DEF AllScored
      <4> QED
        BY <2>9, <4>1, <4>2
  <2> QED
    BY <2>1, <2>11, <2>12
<1>16. CASE UNCHANGED <<config, steps, saveVars, evalVars, modelVars, loopVars, pc>>
  <2>1. UNCHANGED <<evals, rows, saving, scope, pc>>
    BY <1>16 DEF saveVars, evalVars
  <2>2. \A c : (Evaluated(c)' <=> Evaluated(c)) /\ (InProgress(c)' <=> InProgress(c))
    BY <2>1 DEF Evaluated, Completed, InProgress
  <2>3. \A c, data : Completed(c, data)' = Completed(c, data)
    BY <2>1 DEF Completed
  <2>4. Last' = Last
    BY <2>1 DEF Last
  <2>5. \A n : TrainDone(n)' <=> TrainDone(n)
    BY <2>1, <2>3 DEF TrainDone
  <2>6. RowsOfCheckpoints' /\ Underway'
    BY <2>1, <2>3, <2>4, <2>5 DEF RowsOfCheckpoints, Underway
  <2>7. AllScored'
    BY <1>a, <2>1, <2>2 DEF AllScored
  <2> QED
    BY <2>6, <2>7
<1> QED
  BY <1>1, <1>2, <1>3, <1>4, <1>5, <1>6, <1>7, <1>8, <1>9, <1>10, <1>11, <1>12, <1>13,
         <1>14, <1>15, <1>16 DEF NormalStep

-----------------------------------------------------------------------------
(* The end of the run *)

\* A completed run is whole, and nothing of it changes any more.
DoneInv ==
    status = "completed" =>
        /\ pc \in {"return", "rescue", "failing"} \cup Ends
        /\ final
        /\ CompletedIsWhole

\* The checkpoints of a run about to be completed are those of its schedule.
LEMMA DueIsSaved ==
    ASSUME BaseOK, SaveInv, PeriodicInv, FinalInv, Normal, pc = "complete"
    PROVE  {c \in rows : c[1] \in {"periodic", "final"}} = DueCheckpoints(done)
<1>1. final /\ local = done
  BY DEF FinalInv, Consistent
<1>2. done \in Nat /\ config.total \in Nat
  BY ConfigNumbers DEF BaseOK
<1>3. \A e : e \in Due <=>
              /\ e \in 1 .. config.total - 1
              /\ \/ e % Resolved(config.checkpoint) = 0
                 \/ config.mode = "scheduled" /\ e % Resolved(config.eval) = 0
  BY <1>2 DEF Due, Events, Multiples
<1>4. DueCheckpoints(done) =
        {<<"final", done>>} \cup {<<"periodic", e>> : e \in {e \in Due : e <= done}}
  <2>1. \A e : (/\ e \in 1 .. done
                /\ \/ e % Resolved(config.checkpoint) = 0
                   \/ config.mode = "scheduled" /\ e % Resolved(config.eval) = 0
                /\ e < config.total)
               <=> e \in Due /\ e <= done
    BY <1>2, <1>3
  <2>2. {e \in 1 .. done :
            /\ \/ e % Resolved(config.checkpoint) = 0
               \/ config.mode = "scheduled" /\ e % Resolved(config.eval) = 0
            /\ e < config.total} = {e \in Due : e <= done}
    BY <2>1
  <2> QED
    BY <2>2 DEF DueCheckpoints
<1>5. \A c \in rows : c[1] = "periodic" => c = <<"periodic", c[2]>> /\ c[2] \in Due /\ c[2] <= done
  BY DEF BaseOK, Checkpoints, PeriodicInv
<1>6. \A c \in rows : c[1] = "final" => c = <<"final", done>>
  BY DEF BaseOK, Checkpoints, FinalInv
<1>7. \A e \in Due : e <= done => <<"periodic", e>> \in rows
  BY <1>2, <1>3 DEF PeriodicInv
<1>8. <<"final", done>> \in rows
  BY <1>1 DEF SaveInv
<1> QED
  BY <1>4, <1>5, <1>6, <1>7, <1>8

\* What a completed run is asked for, of the steps and the flag of its row.
LEMMA DoneStep ==
    IInv /\ CountInv /\ PeriodicInv /\ FinalInv /\ ScoredInv /\ DoneInv /\ [Next]_vars => DoneInv'
<1> SUFFICES ASSUME IInv, CountInv, PeriodicInv, FinalInv, ScoredInv, DoneInv, [Next]_vars,
                    status' = "completed"
             PROVE  DoneInv'
  BY DEF DoneInv
<1> config' = config /\ Events' = Events
  BY EventsKept
<1>a. ASSUME UNCHANGED <<status, steps, stopped, rows, evals>>, CompletedIsWhole
      PROVE  CompletedIsWhole'
  <2>1. \A s : (EvaluationDue(s)' <=> EvaluationDue(s)) /\ DueCheckpoints(s)' = DueCheckpoints(s)
    BY DEF EvaluationDue, DueCheckpoints, Resolved
  <2>2. \A c, data : Completed(c, data)' = Completed(c, data)
    BY <1>a DEF Completed
  <2>3. DueCheckpoints(steps)' = DueCheckpoints(steps)
    BY <1>a DEF DueCheckpoints, Resolved
  <2> QED
    BY <1>a, <2>1, <2>2, <2>3 DEF CompletedIsWhole
<1>1. CASE status = "completed"
  <2> /\ pc \in {"return", "rescue", "failing"} \cup Ends
      /\ final /\ CompletedIsWhole
    BY <1>1 DEF DoneInv
  <2>1. /\ UNCHANGED <<status, steps, stopped, rows, evals, final>>
        /\ pc' \in {"return", "rescue", "failing"} \cup Ends
    <3> USE <1>1 DEF rowVars, saveVars, evalVars, modelVars, loopVars, Ends
    <3>1. CASE Return \/ Rescue \/ FailRun \/ Crash \/ MarkAbandoned \/ UNCHANGED vars
      BY <3>1 DEF Return, Rescue, Unsaved, FailRun, Crash, MarkAbandoned, vars
    <3>2. CASE Raise
      BY <3>2 DEF Raise, InHandler, Saves, Handler, Places, Evaluating
    <3>3. CASE MarkRunning \/ MakeModel \/ CountSteps \/ Learn \/ Progress \/ Store \/ Insert
      BY <3>3 DEF MarkRunning, MakeModel, CountSteps, Learn, Progress, Store, Insert
    <3>4. CASE CommitRow \/ Saved \/ CreateEvaluation \/ MarkEvaluation \/ InterruptedSaved
      BY <3>4 DEF CommitRow, Saved, CreateEvaluation, MarkEvaluation, InterruptedSaved
    <3>5. CASE Observe \/ Checks \/ CompleteRun \/ \E score \in Scores : CompleteEvaluation(score)
      BY <3>5 DEF Observe, Checks, CompleteRun, CompleteEvaluation
    <3> QED
      BY <3>1, <3>2, <3>3, <3>4, <3>5 DEF Next, Train
  <2> QED
    BY <1>a, <2>1 DEF DoneInv
<1>2. CASE status # "completed"
  <2>1. CompleteRun
    <3> USE <1>2 DEF rowVars, saveVars, evalVars, modelVars, loopVars
    <3>1. ~ (MarkRunning \/ FailRun \/ MarkAbandoned)
      BY DEF MarkRunning, FailRun, MarkAbandoned
    <3>2. ~ (MakeModel \/ CountSteps \/ Learn \/ Progress \/ Store \/ Insert \/ UNCHANGED vars)
      BY DEF MakeModel, CountSteps, Learn, Progress, Store, Insert, vars
    <3>3. ~ (CommitRow \/ Saved \/ CreateEvaluation \/ MarkEvaluation \/ InterruptedSaved \/ Crash)
      BY DEF CommitRow, Saved, CreateEvaluation, MarkEvaluation, InterruptedSaved, Crash
    <3>4. ~ (Observe \/ Checks \/ Return \/ Raise \/ Rescue)
      BY DEF Observe, Checks, Return, Raise, Rescue
    <3>5. ~ \E score \in Scores : CompleteEvaluation(score)
      BY DEF CompleteEvaluation
    <3> QED
      BY <3>1, <3>2, <3>3, <3>4, <3>5 DEF Next, Train
  <2>2. /\ pc = "complete" /\ Normal /\ Consistent
        /\ UNCHANGED <<steps, rows, evals, final, done, saving>> /\ stopped' = stopping
        /\ pc' \in {"return", "rescue"}
    BY <2>1 DEF CompleteRun, Committed, saveVars, evalVars, loopVars, FinalInv, Normal, InRescue,
                Saves, Places
  <2>3. steps = done /\ done \in Nat /\ config.total \in Nat
    BY <2>2, ConfigNumbers DEF CountInv, IInv, BaseOK
  <2>4. stopped' <=> steps' < config.total
    <3>1. IF stopping THEN done < config.total ELSE done = config.total
      BY <2>2 DEF Consistent
    <3>2. stopping \in BOOLEAN
      BY DEF IInv, BaseOK
    <3> QED
      BY <2>2, <2>3, <3>1, <3>2
  <2>5. {c \in rows : c[1] \in {"periodic", "final"}}' = DueCheckpoints(steps)'
    <3>1. {c \in rows : c[1] \in {"periodic", "final"}} = DueCheckpoints(done)
      BY <2>2, DueIsSaved DEF IInv
    <3>2. DueCheckpoints(steps)' = DueCheckpoints(done)
      BY <2>2, <2>3 DEF DueCheckpoints, Resolved
    <3> QED
      BY <2>2, <3>1, <3>2
  <2>6. \A c \in rows \ {Initial} : EvaluationDue(c[2]) => Evaluated(c)
    BY <2>2 DEF ScoredInv, AllScored, InProgress, Evaluating
  <2>7. \A c \in rows' \ {<<"initial", 0>>} : EvaluationDue(c[2])' =>
              \E v \in DOMAIN evals' :
                 /\ Completed(c, "validation")' = {v}
                 /\ IF config.cycle THEN Completed(c, "train")' = {}
                                    ELSE Completed(c, "train")' = {v - 1}
    <3>1. \A c, data : Completed(c, data)' = Completed(c, data)
      BY <2>2 DEF Completed
    <3>2. \A s : EvaluationDue(s)' <=> EvaluationDue(s)
      BY DEF EvaluationDue, Resolved
    <3>3. \A c : Evaluated(c) =>
              \E v \in DOMAIN evals :
                 /\ Completed(c, "validation") = {v}
                 /\ IF config.cycle THEN Completed(c, "train") = {}
                                    ELSE Completed(c, "train") = {v - 1}
      BY DEF Evaluated
    <3>4. ASSUME NEW c \in rows', c # <<"initial", 0>>, EvaluationDue(c[2])'
          PROVE  \E v \in DOMAIN evals' :
                    /\ Completed(c, "validation")' = {v}
                    /\ IF config.cycle THEN Completed(c, "train")' = {}
                                       ELSE Completed(c, "train")' = {v - 1}
      <4>1. Evaluated(c)
        BY <2>2, <2>6, <3>2, <3>4 DEF Initial
      <4> QED
        BY <2>2, <3>1, <3>3, <4>1
    <3> QED
      BY <3>4
  <2>8. CompletedIsWhole'
    BY <2>4, <2>5, <2>7 DEF CompletedIsWhole
  <2> QED
    BY <2>2, <2>8 DEF DoneInv, Consistent
<1> QED
  BY <1>1, <1>2

\* With exceptions alone, a file without a row is the one being saved, and an
\* evaluation is open only while it runs.
FilesBelong == files = rows \cup (IF pc \in {"insert", "commit"} THEN {saving} ELSE {})
OnlyLastOpen ==
    \A i \in DOMAIN evals : evals[i].status \in {"pending", "running"} =>
                               pc \in {"mark_eval", "evaluate"} /\ i = Last
HalfInv == config.faults \subseteq {"raise"} => FilesBelong /\ OnlyLastOpen

\* An Exception takes back the file and closes the evaluation it left open.
LEMMA HalfStep == IInv /\ HalfInv /\ [Next]_vars => HalfInv'
<1> SUFFICES ASSUME IInv, HalfInv, [Next]_vars, config.faults \subseteq {"raise"}
             PROVE  FilesBelong' /\ OnlyLastOpen'
  BY EventsKept DEF HalfInv
<1> FilesBelong /\ OnlyLastOpen
  BY DEF HalfInv
<1>a. /\ EvalsOK
      /\ pc \in {"mark_eval", "evaluate"} => evals # <<>>
      /\ pc \in {"insert", "commit"} => saving \in files /\ saving \notin rows
  BY DEF IInv, EvalsOK, SaveInv
<1>b. {"interrupt", "commit", "again", "crash"} \cap config.faults = {}
  OBVIOUS
<1> USE DEF rowVars, saveVars, evalVars, modelVars, loopVars
<1>c. ASSUME UNCHANGED evals, pc \notin {"mark_eval", "evaluate"} PROVE OnlyLastOpen'
  BY <1>c DEF OnlyLastOpen
<1>d. ASSUME evals # <<>>, pc \in {"mark_eval", "evaluate"}, NEW e,
             evals' = [evals EXCEPT ![Last] = e],
             e.status \in {"completed", "failed"} \/ pc' \in {"mark_eval", "evaluate"}
      PROVE  OnlyLastOpen'
  <2>1. /\ Last \in Nat /\ Last \in 1 .. Last /\ Last' = Last
        /\ DOMAIN evals = 1 .. Last /\ DOMAIN evals' = 1 .. Last
        /\ \A i \in 1 .. Last : i # Last => evals'[i] = evals[i]
        /\ evals'[Last] = e
    BY <1>a, <1>d, ReplacedRow
  <2> QED
    BY <1>d, <2>1 DEF OnlyLastOpen
<1>1. CASE MarkRunning \/ MakeModel \/ Learn \/ Checks \/ CompleteRun \/ Return
  <2>1. UNCHANGED <<files, rows, evals>> /\ {pc, pc'} \cap {"insert", "commit", "mark_eval", "evaluate"} = {}
    BY <1>1, <1>b DEF MarkRunning, MakeModel, Learn, Checks, CompleteRun, Return, Committed
  <2> QED
    BY <1>c, <2>1 DEF FilesBelong
<1>2. CASE CountSteps \/ Progress \/ Observe \/ Saved \/ InterruptedSaved
  <2>1. UNCHANGED <<files, rows, evals>> /\ {pc, pc'} \cap {"insert", "commit", "mark_eval", "evaluate"} = {}
    BY <1>2, <1>b DEF CountSteps, Progress, Observe, Saved, Save, Evaluate, AfterEvent, Committed, InterruptedSaved
  <2> QED
    BY <1>c, <2>1 DEF FilesBelong
<1>3. CASE Rescue \/ FailRun \/ Crash \/ MarkAbandoned \/ UNCHANGED vars
  <2>1. UNCHANGED <<files, rows, evals>>
    BY <1>3 DEF Rescue, FailRun, Crash, MarkAbandoned, vars
  <2>2. CASE {pc, pc'} \cap {"insert", "commit", "mark_eval", "evaluate"} = {}
    BY <1>c, <2>1, <2>2 DEF FilesBelong
  <2>3. CASE pc' = pc /\ saving' = saving
    BY <2>1, <2>3 DEF FilesBelong, OnlyLastOpen, Last
  <2> QED
    BY <1>3, <1>b, <2>2, <2>3 DEF Rescue, Save, FailRun, Crash, MarkAbandoned, vars
<1>4. CASE Store \/ Insert \/ CommitRow
  <2>1. OnlyLastOpen'
    BY <1>4, <1>c DEF Store, Insert, CommitRow
  <2>2. FilesBelong'
    BY <1>4, <1>b DEF Store, Insert, CommitRow, FilesBelong
  <2> QED
    BY <2>1, <2>2
<1>5. CASE CreateEvaluation
  <2> DEFINE e == [of |-> saving, scope |-> scope, status |-> "pending", score |-> 0]
  <2>1. /\ UNCHANGED <<files, rows, saving>> /\ pc = "create" /\ pc' = "mark_eval"
        /\ evals' = Append(evals, e)
    BY <1>5, <1>b DEF CreateEvaluation, Committed
  <2>2. FilesBelong'
    BY <2>1 DEF FilesBelong
  <2>3. e \in EvaluationRows /\ e.status = "pending"
    BY <2>1 DEF EvaluationRows, IInv, FlowInv, Evaluating, Saves
  <2> HIDE DEF e
  <2>4. /\ Last \in Nat /\ Last' = Last + 1
        /\ DOMAIN evals = 1 .. Last /\ DOMAIN evals' = 1 .. Last + 1
        /\ \A i \in 1 .. Last : evals'[i] = evals[i]
    BY <1>a, <2>1, <2>3, AppendedRow
  <2>5. \A i \in 1 .. Last + 1 : i \in 1 .. Last \/ i = Last + 1
    BY <2>4
  <2>6. OnlyLastOpen'
    BY <2>1, <2>4, <2>5 DEF OnlyLastOpen
  <2> QED
    BY <2>2, <2>6
<1>6. CASE MarkEvaluation
  <2> DEFINE e == [evals[Last] EXCEPT !.status = "running"]
  <2>1. /\ UNCHANGED <<files, rows, saving>> /\ pc = "mark_eval" /\ pc' = "evaluate"
        /\ evals' = [evals EXCEPT ![Last] = e]
    BY <1>6 DEF MarkEvaluation
  <2> HIDE DEF e
  <2>2. FilesBelong' /\ OnlyLastOpen'
    BY <1>a, <1>d, <2>1 DEF FilesBelong
  <2> QED
    BY <2>2
<1>e. pc \in {"mark_eval", "evaluate"} => evals[Last] \in EvaluationRows
  BY <1>a, LenProperties, EmptySeq DEF Last, EvalsOK
<1>7. ASSUME NEW score \in Scores, CompleteEvaluation(score) PROVE FilesBelong' /\ OnlyLastOpen'
  <2> DEFINE e == [evals[Last] EXCEPT !.status = "completed", !.score = score]
  <2>1. /\ UNCHANGED <<files, rows, saving>> /\ pc = "evaluate" /\ pc' \in {"create", "observe"}
    BY <1>7, <1>b DEF CompleteEvaluation
  <2>2. evals' = [evals EXCEPT ![Last] = e] /\ e.status = "completed"
    BY <1>7, <1>e DEF CompleteEvaluation, EvaluationRows
  <2> HIDE DEF e
  <2>3. FilesBelong' /\ OnlyLastOpen'
    BY <1>a, <1>d, <2>1, <2>2 DEF FilesBelong
  <2> QED
    BY <2>3
<1>8. CASE Raise
  <2>1. Excepts /\ ~ Interrupts /\ pc \notin {"commit", "saved", "return"}
    BY <1>8, <1>b DEF Raise, Excepts, Interrupts, Refused
  <2>2. UNCHANGED <<rows, saving>> /\ pc' \in {"rescue", "failing"}
    BY <1>8 DEF Raise, FailEvaluation
  <2>3. FilesBelong'
    <3>1. files' = IF pc = "insert" THEN files \ {saving} ELSE files
      BY <1>8, <2>1 DEF Raise
    <3> QED
      BY <1>a, <2>1, <2>2, <3>1 DEF FilesBelong
  <2>4. CASE pc \notin {"mark_eval", "evaluate"}
    BY <1>8, <1>c, <2>3, <2>4 DEF Raise
  <2>5. CASE pc \in {"mark_eval", "evaluate"}
    <3> DEFINE e == [evals[Last] EXCEPT !.status = IF @ \in {"pending", "running"} THEN "failed" ELSE @]
    <3>1. evals' = [evals EXCEPT ![Last] = e]
      BY <1>8, <1>b, <2>1, <2>5 DEF Raise, FailEvaluation
    <3>2. e.status \in {"completed", "failed"}
      BY <1>e, <2>5 DEF EvaluationRows
    <3> HIDE DEF e
    <3> QED
      BY <1>a, <1>d, <2>3, <2>5, <3>1, <3>2
  <2> QED
    BY <2>4, <2>5
<1> QED
  BY <1>1, <1>2, <1>3, <1>4, <1>5, <1>6, <1>7, <1>8 DEF Next, Train

-----------------------------------------------------------------------------
(* Early stopping *)

\* An evaluation on VAL that early stopping has not been shown yet is the last.
Seen == IF pc = "observe" THEN Validated \ {Last} ELSE Validated

\* The evaluations that early stopping was asked about, as a run that goes on
\* and as one that has ended sees it.
Over == pc \in {"checks", "complete", "return", "returned"}
Asked == IF Over THEN Tested ELSE Seen

\* No error was met up to now, or ever.
Settled == Normal \/ pc = "returned"

After(b, seen) == {i \in seen : b < i}

\* What BalancedScoreEarlyStopping has kept of the evaluations it has seen.
Accumulated(seen) ==
    IF seen = {} THEN early.best = NoCheckpoint /\ early.stale = 0
    ELSE \E b \in seen :
            /\ FirstBest(b, seen)
            /\ early.best = evals[b].of /\ early.score = evals[b].score
            /\ early.stale = Cardinality(After(b, seen))

\* Training goes on only after evaluations that were not stale, and stopping
\* is followed by the FINAL checkpoint and its evaluation, the last one.
StopFlow ==
    /\ stopping => EvaluationDue(done)
    /\ pc \in Evaluating \cup {"observe"} =>
          EvaluationDue(done) /\ (stopping \/ done = config.total => final)
    /\ pc = "observe" => Last \in Validated /\ evals[Last].of = saving
    /\ Over => Validated # {}

StaleInv ==
    config.mode = "scheduled" /\ Settled =>
        /\ StopFlow
        /\ Accumulated(Seen)
        /\ stopping <=> \E v \in Asked : StaleAfter(v)
        /\ \A v, w \in Asked : StaleAfter(v) => w <= v

\* The evaluations on VAL are finitely many rows of evaluations.
LEMMA ValidatedRows ==
    ASSUME EvalsOK
    PROVE  /\ Last \in Nat /\ DOMAIN evals = 1 .. Last
           /\ Validated \subseteq 1 .. Last /\ IsFiniteSet(Validated)
           /\ \A i \in Validated : i \in Nat /\ i <= Last /\ evals[i].score \in Int
           /\ \A i \in 1 .. Last : evals[i] \in EvaluationRows /\ evals[i].score \in Int
<1>1. Last \in Nat /\ DOMAIN evals = 1 .. Last /\ \A i \in 1 .. Last : evals[i] \in EvaluationRows
  BY LenProperties DEF Last, EvalsOK
<1>2. Validated \subseteq 1 .. Last
  BY <1>1 DEF Validated
<1>3. IsFiniteSet(Validated)
  <2>1. IsFiniteSet(1 .. Last)
    BY <1>1, FS_Interval
  <2> QED
    BY <1>2, <2>1, FS_Subset
<1>4. \A i \in 1 .. Last : evals[i].score \in Int
  BY <1>1 DEF EvaluationRows
<1>5. \A i \in 1 .. Last : i \in Nat /\ i <= Last
  BY <1>1
<1> QED
  BY <1>1, <1>2, <1>3, <1>4, <1>5

\* What is said of completed evaluations stays, while they are the same.
LEMMA SameScores ==
    ASSUME Validated' = Validated, \A i \in Validated : evals'[i] = evals[i], config' = config
    PROVE  /\ \A v : StaleAfter(v)' <=> StaleAfter(v)
           /\ Tested' = Tested
<1>1. \A b, v : Since(b, v)' = Since(b, v)
  BY DEF Since
<1>2. \A b, v : Since(b, v) \subseteq Validated
  BY DEF Since
<1>3. \A v : StaleAfter(v)' <=> StaleAfter(v)
  BY <1>1, <1>2 DEF StaleAfter
<1> QED
  BY <1>3 DEF Tested

\* So does what early stopping keeps of them.
LEMMA SameAccumulated ==
    ASSUME Seen' = Seen, \A i \in Seen : evals'[i] = evals[i], early' = early
    PROVE  Accumulated(Seen)' <=> Accumulated(Seen)
<1>1. \A b \in Seen : FirstBest(b, Seen)' <=> FirstBest(b, Seen)
  BY DEF FirstBest
<1>2. \A b : After(b, Seen)' = After(b, Seen)
  BY DEF After
<1> QED
  BY <1>1, <1>2 DEF Accumulated

\* An evaluation that comes later does not change what the earlier ones say.
LEMMA LaterScore ==
    ASSUME EvalsOK, NEW l \in Nat, Validated' = Validated \cup {l}, \A i \in Validated : i < l,
           \A i \in Validated : evals'[i] = evals[i], config' = config,
           config.patience \in Nat \ {0}
    PROVE  \A v \in Validated : StaleAfter(v)' <=> StaleAfter(v)
<1>0. \A i \in Validated : i \in Nat
  BY ValidatedRows
<1>1. ASSUME NEW v \in Validated PROVE StaleAfter(v)' <=> StaleAfter(v)
  <2>1. v < l /\ v \in Nat
    BY <1>0
  <2>2. \A b : Since(b, v)' = Since(b, v)
    BY <1>0, <2>1 DEF Since
  <2>3. Since(l, v) = {}
    <3>1. \A i \in Validated : l < i => ~ (i <= v)
      BY <1>0, <2>1
    <3> QED
      BY <3>1 DEF Since
  <2>4. ~ (Cardinality(Since(l, v)) >= config.patience)
    BY <2>3, FS_EmptySet
  <2>5. \A b : Since(b, v) \subseteq Validated
    BY DEF Since
  <2> QED
    BY <2>2, <2>4, <2>5 DEF StaleAfter
<1> QED
  BY <1>1

\* The last evaluation is the one no decision to stop can follow.
LEMMA TestedRows ==
    ASSUME EvalsOK, Last \in Validated
    PROVE  Tested = Validated \ {Last}
<1>1. Last \in Nat /\ \A i \in Validated : i \in Nat /\ i <= Last
  BY ValidatedRows
<1>2. \A v \in Validated : v # Last => v < Last
  BY <1>1
<1>3. \A v \in Validated : (\E u \in Validated : v < u) => v # Last
  BY <1>1
<1> QED
  BY <1>2, <1>3 DEF Tested

\* Early stopping observes a score that beats those it has seen: they are
\* forgotten, and nothing is stale.
LEMMA ObservedBetter ==
    ASSUME EvalsOK, Last \in Validated, config.patience \in Nat \ {0},
           \A i \in Validated \ {Last} : evals[i].score < evals[Last].score
    PROVE  /\ FirstBest(Last, Validated)
           /\ Cardinality(After(Last, Validated)) = 0
           /\ ~ StaleAfter(Last)
<1>1. Last \in Nat /\ \A i \in Validated : i \in Nat /\ i <= Last /\ evals[i].score \in Int
  BY ValidatedRows
<1>2. FirstBest(Last, Validated)
  <2>1. ASSUME NEW i \in Validated
        PROVE  evals[i].score <= evals[Last].score /\ (i < Last => evals[i].score < evals[Last].score)
    <3>1. CASE i = Last
      BY <1>1, <3>1
    <3>2. CASE i # Last
      <4>1. evals[i].score < evals[Last].score
        BY <3>2
      <4> QED
        BY <1>1, <4>1
    <3> QED
      BY <3>1, <3>2
  <2> QED
    BY <2>1 DEF FirstBest
<1>3. After(Last, Validated) = {} /\ Since(Last, Last) = {}
  <2>1. \A i \in Validated : ~ (Last < i)
    BY <1>1
  <2> QED
    BY <2>1 DEF After, Since
<1>4. Cardinality({}) = 0
  BY FS_EmptySet
<1>5. ASSUME NEW b \in Validated, Cardinality(Since(b, Last)) >= config.patience,
             \A i \in Since(b, Last) : evals[i].score <= evals[b].score
      PROVE  FALSE
  <2>1. b # Last
    BY <1>3, <1>4, <1>5
  <2>2. Last \in Since(b, Last)
    <3>1. b < Last /\ Last <= Last
      BY <1>1, <2>1
    <3> QED
      BY <3>1 DEF Since
  <2> QED
    BY <1>1, <1>5, <2>1, <2>2
<1> QED
  BY <1>2, <1>3, <1>4, <1>5 DEF StaleAfter

\* It observes another one: one more evaluation is stale.
LEMMA ObservedWorse ==
    ASSUME EvalsOK, Last \in Validated, config.patience \in Nat \ {0},
           NEW b \in Validated \ {Last}, FirstBest(b, Validated \ {Last}),
           evals[Last].score <= evals[b].score
    PROVE  /\ FirstBest(b, Validated)
           /\ Cardinality(After(b, Validated)) = Cardinality(After(b, Validated \ {Last})) + 1
           /\ StaleAfter(Last) <=> Cardinality(After(b, Validated)) >= config.patience
<1>1. /\ Last \in Nat /\ IsFiniteSet(Validated)
      /\ \A i \in Validated : i \in Nat /\ i <= Last /\ evals[i].score \in Int
  BY ValidatedRows
<1>2. FirstBest(b, Validated)
  BY <1>1 DEF FirstBest
<1>3. /\ IsFiniteSet(After(b, Validated \ {Last})) /\ IsFiniteSet(After(b, Validated))
      /\ Last \notin After(b, Validated \ {Last})
      /\ After(b, Validated) = After(b, Validated \ {Last}) \cup {Last}
  <2>1. After(b, Validated) \subseteq Validated /\ After(b, Validated \ {Last}) \subseteq Validated
    BY DEF After
  <2>2. IsFiniteSet(After(b, Validated \ {Last})) /\ IsFiniteSet(After(b, Validated))
    BY <1>1, <2>1, FS_Subset
  <2> QED
    BY <1>1, <2>2 DEF After
<1>4. Cardinality(After(b, Validated)) = Cardinality(After(b, Validated \ {Last})) + 1
  BY <1>3, FS_AddElement
<1>5. Since(b, Last) = After(b, Validated)
  BY <1>1 DEF Since, After
<1>6. ASSUME Cardinality(After(b, Validated)) >= config.patience PROVE StaleAfter(Last)
  <2>1. \A i \in Since(b, Last) : evals[i].score <= evals[b].score
    BY <1>2 DEF Since, FirstBest
  <2> QED
    BY <1>5, <1>6, <2>1 DEF StaleAfter
<1>7. ASSUME StaleAfter(Last) PROVE Cardinality(After(b, Validated)) >= config.patience
  <2>1. PICK a \in Validated : /\ Cardinality(Since(a, Last)) >= config.patience
                               /\ \A i \in Since(a, Last) : evals[i].score <= evals[a].score
    BY <1>7 DEF StaleAfter
  <2>2. ~ (a < b)
    <3>1. SUFFICES ASSUME a < b PROVE FALSE
      OBVIOUS
    <3>2. b \in Since(a, Last)
      BY <1>1, <3>1 DEF Since
    <3>3. evals[a].score < evals[b].score
      BY <1>2, <3>1 DEF FirstBest
    <3> QED
      BY <1>1, <2>1, <3>2, <3>3
  <2>3. Since(a, Last) \subseteq After(b, Validated)
    <3>1. \A i \in Validated : a < i => b < i
      BY <1>1, <2>2
    <3> QED
      BY <3>1 DEF Since, After
  <2>4. /\ Cardinality(Since(a, Last)) <= Cardinality(After(b, Validated))
        /\ Cardinality(Since(a, Last)) \in Nat /\ Cardinality(After(b, Validated)) \in Nat
    BY <1>3, <2>3, FS_Subset, FS_CardinalityType
  <2> QED
    BY <2>1, <2>4
<1> QED
  BY <1>2, <1>4, <1>6, <1>7

\* What early stopping keeps, and whether it stops, after it has seen a score.
LEMMA ObservedScore ==
    ASSUME EvalsOK, Last \in Validated, config.patience \in Nat \ {0},
           Accumulated(Validated \ {Last}), evals[Last].of = saving,
           early' = Observed(evals[Last].score)
    PROVE  /\ \E b \in Validated :
                 /\ FirstBest(b, Validated)
                 /\ early'.best = evals[b].of /\ early'.score = evals[b].score
                 /\ early'.stale = Cardinality(After(b, Validated))
           /\ StaleAfter(Last) <=> early'.stale >= config.patience
<1>1. /\ Last \in Nat
      /\ \A i \in Validated : evals[i] \in EvaluationRows /\ evals[i].score \in Int
  BY ValidatedRows
<1>2. early \in [best : Checkpoints \cup {NoCheckpoint}, score : Int, stale : Nat]
  BY DEF EvalsOK
<1>3. ASSUME early.best = NoCheckpoint \/ evals[Last].score > early.score,
             \A i \in Validated \ {Last} : evals[i].score < evals[Last].score
      PROVE  /\ early'.best = evals[Last].of /\ early'.score = evals[Last].score
             /\ early'.stale = Cardinality(After(Last, Validated))
             /\ FirstBest(Last, Validated)
             /\ ~ StaleAfter(Last) /\ ~ (early'.stale >= config.patience)
  <2>1. early' = [best |-> saving, score |-> evals[Last].score, stale |-> 0]
    BY <1>3 DEF Observed
  <2> QED
    BY <1>3, <2>1, ObservedBetter
<1>4. CASE Validated \ {Last} = {}
  <2>1. early.best = NoCheckpoint
    BY <1>4 DEF Accumulated
  <2> QED
    BY <1>3, <1>4, <2>1
<1>5. CASE Validated \ {Last} # {}
  <2>1. PICK b \in Validated \ {Last} :
               /\ FirstBest(b, Validated \ {Last})
               /\ early.best = evals[b].of /\ early.score = evals[b].score
               /\ early.stale = Cardinality(After(b, Validated \ {Last}))
    BY <1>5 DEF Accumulated
  <2>2. early.best # NoCheckpoint
    BY <1>1, <2>1 DEF EvaluationRows, Checkpoints, NoCheckpoint
  <2>3. CASE evals[Last].score > early.score
    <3>1. ASSUME NEW i \in Validated \ {Last} PROVE evals[i].score < evals[Last].score
      <4>1. evals[i].score <= evals[b].score
        BY <2>1 DEF FirstBest
      <4>2. evals[b].score < evals[Last].score
        BY <1>1, <2>1, <2>3
      <4> QED
        BY <1>1, <4>1, <4>2
    <3> QED
      BY <1>3, <2>3, <3>1
  <2>4. CASE ~ (evals[Last].score > early.score)
    <3>1. early' = [early EXCEPT !.stale = @ + 1]
      BY <2>2, <2>4 DEF Observed
    <3>2. early'.best = early.best /\ early'.score = early.score /\ early'.stale = early.stale + 1
      BY <1>2, <3>1
    <3>3. evals[Last].score <= evals[b].score
      <4>1. evals[Last].score \in Int /\ evals[b].score \in Int
        BY <1>1
      <4>2. ~ (evals[Last].score > evals[b].score)
        BY <2>1, <2>4
      <4> QED
        BY <4>1, <4>2
    <3> QED
      BY <2>1, <3>2, <3>3, ObservedWorse
  <2> QED
    BY <2>3, <2>4
<1> QED
  BY <1>4, <1>5

\* What a step that is neither an evaluation nor its observation keeps.
LEMMA StaleKept ==
    ASSUME StaleInv, config.mode = "scheduled", Settled, config' = config,
           Validated' = Validated, \A i \in Validated : evals'[i] = evals[i],
           UNCHANGED <<early, stopping>>, pc # "observe", pc' # "observe", Over' <=> Over
    PROVE  /\ Accumulated(Seen)'
           /\ stopping' <=> \E v \in Asked' : StaleAfter(v)'
           /\ \A v, w \in Asked' : StaleAfter(v)' => w <= v
<1>1. Seen = Validated /\ Seen' = Validated
  BY DEF Seen
<1>2. /\ \A v : StaleAfter(v)' <=> StaleAfter(v)
      /\ Tested' = Tested
  BY SameScores
<1>3. Asked' = Asked
  BY <1>1, <1>2 DEF Asked
<1>4. Accumulated(Seen)'
  BY <1>1, SameAccumulated DEF StaleInv
<1> QED
  BY <1>2, <1>3, <1>4 DEF StaleInv

\* Early stopping is shown every evaluation on VAL once, in their order.
LEMMA StaleStep == IInv /\ SegmentInv /\ ScoredInv /\ StaleInv /\ [Next]_vars => StaleInv'
<1> SUFFICES ASSUME IInv, SegmentInv, ScoredInv, StaleInv, [Next]_vars,
                    config.mode = "scheduled", Settled'
             PROVE  /\ StopFlow'
                    /\ Accumulated(Seen)'
                    /\ stopping' <=> \E v \in Asked' : StaleAfter(v)'
                    /\ \A v, w \in Asked' : StaleAfter(v)' => w <= v
  BY EventsKept DEF StaleInv
<1> config' = config
  BY EventsKept
<1>a. \A s : EvaluationDue(s)' <=> EvaluationDue(s)
  BY DEF EvaluationDue, Resolved
<1>b. EvaluationDue(config.total)
  BY DEF EvaluationDue
<1>c. /\ BaseOK /\ EvalsOK /\ config.patience \in Nat \ {0} /\ config.total \in Nat \ {0}
  BY ConfigNumbers, TrainingAssumption DEF IInv, BaseOK
<1>d. ASSUME UNCHANGED <<evals, early, stopping>>, pc # "observe", pc' # "observe", Over' <=> Over,
             Settled, StopFlow'
      PROVE  /\ StopFlow'
             /\ Accumulated(Seen)'
             /\ stopping' <=> \E v \in Asked' : StaleAfter(v)'
             /\ \A v, w \in Asked' : StaleAfter(v)' => w <= v
  <2>1. Validated' = Validated
    BY <1>d DEF Validated
  <2> QED
    BY <1>d, <2>1, StaleKept
<1>e. Settled => StopFlow
  BY DEF StaleInv
<1>1. CASE Return \/ (pc' = "returned" /\ UNCHANGED <<pc, evals, early, stopping, done>>)
  <2>1. /\ UNCHANGED <<evals, early, stopping, done>> /\ pc \in {"return", "returned"}
        /\ pc' = "returned"
    BY <1>1 DEF Return, evalVars, loopVars
  <2>2. Settled /\ Over /\ Over' /\ pc # "observe" /\ pc' # "observe" /\ pc' \notin Evaluating
    BY <2>1 DEF Settled, Normal, InRescue, Saves, Places, Over, Evaluating
  <2>3. StopFlow'
    BY <1>a, <1>e, <2>1, <2>2 DEF StopFlow, Validated
  <2> QED
    BY <1>d, <2>1, <2>2, <2>3
<1>2. CASE Normal'
  <2> Normal /\ NormalStep /\ Settled /\ StopFlow
    BY <1>2, <1>e, NormalSteps DEF Settled
  <2>a. /\ Accumulated(Seen)
        /\ stopping <=> \E v \in Asked : StaleAfter(v)
        /\ \A v, w \in Asked : StaleAfter(v) => w <= v
    BY DEF StaleInv
  <2>b. /\ pc = "learn" => ~ stopping
        /\ pc \in Saves => /\ saving[1] = "initial" => done = 0 /\ ~ stopping
                           /\ saving[1] = "periodic" => done < config.total /\ ~ stopping
    BY DEF SegmentInv
  <2>c. pc \in Saves => saving[1] \in Reasons \ {"interrupted"}
    BY DEF IInv, FlowInv, Normal, InRescue, Checkpoints
  <2> USE DEF rowVars, saveVars, evalVars, modelVars, loopVars
  <2>1. CASE \/ MarkRunning \/ MakeModel \/ CountSteps \/ Learn \/ Progress
             \/ Store \/ Insert \/ CommitRow \/ Checks \/ CompleteRun
    <3>1. /\ UNCHANGED <<evals, early, stopping>>
          /\ stopping => done' = done
          /\ {pc, pc'} \cap ({"observe"} \cup Evaluating) = {}
          /\ pc \in {"checks", "complete"} <=> pc' \in {"complete", "return"}
          /\ pc \notin {"return", "returned"} /\ pc' \notin {"checks", "returned"}
      <4>1. CASE MarkRunning \/ MakeModel \/ CountSteps \/ Checks \/ CompleteRun
        BY <1>2, <4>1 DEF MarkRunning, MakeModel, CountSteps, Save, Checks, CompleteRun, Committed,
                          Normal, Places, Saves, Evaluating
      <4>2. CASE Learn
        BY <4>2, <2>b DEF Learn, Evaluating
      <4>3. CASE Progress
        BY <1>2, <4>3 DEF Progress, Committed, Normal, Places, Saves, Evaluating
      <4>4. CASE Store \/ Insert \/ CommitRow
        BY <1>2, <4>4 DEF Store, Insert, CommitRow, Normal, Places, Saves, Evaluating
      <4> QED
        BY <2>1, <4>1, <4>2, <4>3, <4>4
    <3>2. Over' <=> Over
      BY <3>1 DEF Over
    <3>3. StopFlow'
      BY <1>a, <3>1, <3>2 DEF StopFlow, Validated
    <3> QED
      BY <1>d, <3>1, <3>2, <3>3
  <2>2. CASE Saved
    <3>1. /\ UNCHANGED <<evals, early, stopping, done>> /\ pc = "saved"
          /\ final' = (final \/ saving[1] = "final")
          /\ \/ saving[1] # "initial" /\ EvaluationDue(done) /\ pc' = "create"
             \/ ~ (saving[1] # "initial" /\ EvaluationDue(done)) /\ pc' = AfterEvent
      BY <2>2 DEF Saved, Evaluate
    <3>2. stopping \/ done = config.total => saving[1] = "final" /\ EvaluationDue(done)
      BY <1>b, <1>c, <2>b, <2>c, <3>1 DEF Saves, Reasons, StopFlow
    <3>3. pc' \in {"create", "learn"}
      BY <3>1, <3>2 DEF AfterEvent
    <3>4. pc' = "create" => EvaluationDue(done)
      BY <3>1, <3>3 DEF AfterEvent
    <3>5. StopFlow'
      BY <1>a, <3>1, <3>2, <3>3, <3>4 DEF StopFlow, Over, Evaluating
    <3> QED
      BY <1>d, <3>1, <3>3, <3>5 DEF Over
  <2>3. CASE CreateEvaluation
    <3> DEFINE e == [of |-> saving, scope |-> scope, status |-> "pending", score |-> 0]
    <3>1. /\ UNCHANGED <<early, stopping, done, final>> /\ pc = "create" /\ pc' = "mark_eval"
          /\ evals' = Append(evals, e)
      BY <1>2, <2>3 DEF CreateEvaluation, Committed, Normal, Places, Saves, Evaluating
    <3>2. e \in EvaluationRows /\ e.status = "pending"
      BY <3>1 DEF EvaluationRows, IInv, FlowInv, Evaluating, Saves
    <3> HIDE DEF e
    <3>3. /\ Last \in Nat
          /\ DOMAIN evals = 1 .. Last /\ DOMAIN evals' = 1 .. Last + 1
          /\ \A i \in 1 .. Last : evals'[i] = evals[i]
          /\ evals'[Last + 1] = e
      BY <1>c, <3>1, <3>2, AppendedRow
    <3>4. \A i : i \in 1 .. Last + 1 <=> i \in 1 .. Last \/ i = Last + 1
      BY <3>3
    <3>5. Validated' = Validated /\ \A i \in Validated : evals'[i] = evals[i]
      BY <3>2, <3>3, <3>4 DEF Validated
    <3>6. StopFlow'
      BY <1>a, <3>1 DEF StopFlow, Over, Evaluating
    <3> QED
      BY <3>1, <3>5, <3>6, StaleKept DEF Over
  <2>4. CASE MarkEvaluation
    <3> DEFINE e == [evals[Last] EXCEPT !.status = "running"]
    <3>1. /\ UNCHANGED <<early, stopping, done, final>> /\ pc = "mark_eval" /\ pc' = "evaluate"
          /\ evals' = [evals EXCEPT ![Last] = e] /\ evals # <<>>
      BY <1>c, <2>4 DEF MarkEvaluation, EvalsOK
    <3>2. Last \notin Validated
      BY <3>1 DEF ScoredInv, Underway, Validated
    <3> HIDE DEF e
    <3>3. /\ DOMAIN evals = 1 .. Last /\ DOMAIN evals' = 1 .. Last /\ Last \in 1 .. Last
          /\ \A i \in 1 .. Last : i # Last => evals'[i] = evals[i]
          /\ evals'[Last] = e
      BY <1>c, <3>1, ReplacedRow
    <3>4. e.status # "completed"
      <4>1. evals[Last] \in EvaluationRows
        BY <1>c, <3>3 DEF EvalsOK
      <4> QED
        BY <4>1 DEF EvaluationRows, e
    <3>5. Validated' = Validated /\ \A i \in Validated : evals'[i] = evals[i]
      BY <3>2, <3>3, <3>4 DEF Validated
    <3>6. StopFlow'
      BY <1>a, <3>1 DEF StopFlow, Over, Evaluating
    <3> QED
      BY <3>1, <3>5, <3>6, StaleKept DEF Over
  <2>5. ASSUME NEW score \in Scores, CompleteEvaluation(score)
        PROVE  /\ StopFlow'
               /\ Accumulated(Seen)'
               /\ stopping' <=> \E v \in Asked' : StaleAfter(v)'
               /\ \A v, w \in Asked' : StaleAfter(v)' => w <= v
    <3> DEFINE e == [evals[Last] EXCEPT !.status = "completed", !.score = score]
    <3>1. /\ UNCHANGED <<early, stopping, done, final, saving>> /\ pc = "evaluate" /\ evals # <<>>
          /\ \/ scope = "train" /\ pc' = "create"
             \/ scope = "validation" /\ pc' = "observe"
      BY <1>2, <1>c, <2>5 DEF CompleteEvaluation, EvalsOK, Normal, Places, Saves, Evaluating
    <3>2. Last \in 1 .. Last /\ Last \in Nat /\ evals[Last] \in EvaluationRows
      BY <1>c, <3>1, LenProperties, EmptySeq DEF Last, EvalsOK
    <3>3. evals' = [evals EXCEPT ![Last] = e]
      BY <2>5, <3>2 DEF CompleteEvaluation, EvaluationRows
    <3>4. e.of = saving /\ e.scope = scope /\ e.status = "completed" /\ Last \notin Validated
      BY <3>1, <3>2 DEF EvaluationRows, ScoredInv, Underway, Validated
    <3> HIDE DEF e
    <3>5. /\ DOMAIN evals = 1 .. Last /\ DOMAIN evals' = 1 .. Last /\ Last' = Last
          /\ \A i \in 1 .. Last : i # Last => evals'[i] = evals[i]
          /\ evals'[Last] = e
      BY <1>c, <3>1, <3>3, ReplacedRow
    <3>6. \A i \in Validated : evals'[i] = evals[i]
      BY <3>4, <3>5 DEF Validated
    <3>7. CASE scope = "train"
      <4>1. pc' = "create"
        BY <3>1, <3>7
      <4>2. Validated' = Validated
        BY <3>2, <3>4, <3>5, <3>7 DEF Validated
      <4>3. StopFlow'
        BY <1>a, <3>1, <4>1 DEF StopFlow, Over, Evaluating
      <4> QED
        BY <3>1, <3>6, <4>1, <4>2, <4>3, StaleKept DEF Over
    <3>8. CASE scope = "validation"
      <4>1. pc' = "observe"
        BY <3>1, <3>8
      <4>2. Validated' = Validated \cup {Last}
        BY <3>2, <3>4, <3>5, <3>8 DEF Validated
      <4>3. \A i \in Validated : i < Last
        <5>1. \A i \in Validated : i \in Nat /\ i <= Last /\ i # Last
          BY <1>c, <3>4, ValidatedRows
        <5> QED
          BY <3>2, <5>1
      <4>4. \A v \in Validated : StaleAfter(v)' <=> StaleAfter(v)
        BY <1>c, <3>2, <3>6, <4>2, <4>3, LaterScore
      <4>5. /\ Seen = Validated /\ Seen' = Validated
            /\ Asked = Validated /\ Asked' = Validated
        BY <3>1, <3>4, <3>5, <4>1, <4>2 DEF Seen, Asked, Over
      <4>6. Accumulated(Seen)'
        BY <2>a, <3>1, <3>6, <4>5, SameAccumulated
      <4>7. StopFlow'
        BY <1>a, <3>1, <3>4, <3>5, <4>1, <4>2 DEF StopFlow, Over, Evaluating
      <4> QED
        BY <2>a, <3>1, <4>4, <4>5, <4>6, <4>7
    <3> QED
      BY <3>1, <3>7, <3>8
  <2>6. CASE Observe
    <3>1. /\ pc = "observe" /\ UNCHANGED <<evals, done, final>>
          /\ early' = Observed(evals[Last].score)
          /\ \/ /\ ~ final /\ early'.stale >= config.patience
                /\ stopping' = TRUE /\ pc' = "store"
             \/ /\ final \/ ~ (early'.stale >= config.patience)
                /\ stopping' = stopping /\ pc' = AfterEvent
      BY <2>6 DEF Observe, Save
    <3>2. /\ Last \in Validated /\ evals[Last].of = saving
          /\ EvaluationDue(done) /\ (stopping \/ done = config.total => final)
      BY <3>1 DEF StopFlow
    <3>3. final => done = config.total \/ stopping
      BY DEF IInv, SaveInv
    <3>4. Accumulated(Validated \ {Last}) /\ Asked = Validated \ {Last}
      BY <2>a, <3>1 DEF Seen, Asked, Over
    <3>5. /\ \E b \in Validated :
                 /\ FirstBest(b, Validated)
                 /\ early'.best = evals[b].of /\ early'.score = evals[b].score
                 /\ early'.stale = Cardinality(After(b, Validated))
          /\ StaleAfter(Last) <=> early'.stale >= config.patience
      BY <1>c, <3>1, <3>2, <3>4, ObservedScore
    <3>6. pc' \in {"store", "checks", "learn"} /\ (pc' = "checks" <=> final)
      BY <3>1, <3>2, <3>3 DEF AfterEvent
    <3>7. Validated' = Validated /\ Seen' = Validated
      BY <3>1, <3>6 DEF Validated, Seen
    <3>8. Accumulated(Seen)'
      <4>1. Validated # {}
        BY <3>2
      <4>2. \A b \in Validated : FirstBest(b, Seen)' <=> FirstBest(b, Validated)
        BY <3>1, <3>7 DEF FirstBest
      <4>3. \A b : After(b, Seen)' = After(b, Validated)
        BY <3>7 DEF After
      <4> QED
        BY <3>1, <3>5, <3>7, <4>1, <4>2, <4>3 DEF Accumulated
    <3>9. /\ \A v : StaleAfter(v)' <=> StaleAfter(v)
          /\ Tested' = Validated \ {Last}
      BY <1>c, <3>1, <3>2, <3>7, SameScores, TestedRows
    <3>10. StopFlow'
      BY <1>a, <3>1, <3>2, <3>6, <3>7 DEF StopFlow, Over, Evaluating
    <3>11. CASE final
      <4>1. stopping' = stopping /\ Asked' = Asked
        BY <3>1, <3>4, <3>6, <3>9, <3>11 DEF Asked, Over
      <4> QED
        BY <2>a, <3>8, <3>9, <3>10, <4>1
    <3>12. CASE ~ final
      <4>1. Asked' = Validated
        BY <3>6, <3>7, <3>12 DEF Asked, Over
      <4>2. ~ stopping /\ \A v \in Validated \ {Last} : ~ StaleAfter(v)
        BY <2>a, <3>2, <3>4, <3>12
      <4>3. stopping' <=> StaleAfter(Last)
        BY <3>1, <3>5, <3>12, <4>2
      <4>4. \A w \in Validated : w <= Last
        BY <1>c, ValidatedRows
      <4>5. stopping' <=> \E v \in Validated : StaleAfter(v)
        BY <3>2, <4>2, <4>3
      <4>6. \A v, w \in Validated : StaleAfter(v) => w <= v
        BY <4>2, <4>4
      <4> QED
        BY <3>8, <3>9, <3>10, <4>1, <4>5, <4>6
    <3> QED
      BY <3>11, <3>12
  <2>7. CASE UNCHANGED <<config, steps, saveVars, evalVars, modelVars, loopVars, pc>>
    <3>1. UNCHANGED <<evals, early, stopping, done, final, saving, pc>>
      BY <2>7
    <3>2. Validated' = Validated /\ Last' = Last /\ (Over' <=> Over)
      BY <3>1 DEF Validated, Last, Over
    <3>3. StopFlow'
      BY <1>a, <3>1, <3>2 DEF StopFlow
    <3>4. /\ \A v : StaleAfter(v)' <=> StaleAfter(v)
          /\ Tested' = Tested
      BY <3>1, <3>2, SameScores
    <3>5. Seen' = Seen /\ Asked' = Asked
      BY <3>1, <3>2, <3>4 DEF Seen, Asked
    <3>6. Accumulated(Seen)'
      BY <2>a, <3>1, <3>5, SameAccumulated
    <3> QED
      BY <2>a, <3>1, <3>3, <3>4, <3>5, <3>6
  <2> QED
    BY <2>1, <2>2, <2>3, <2>4, <2>5, <2>6, <2>7 DEF NormalStep
<1>3. Normal' \/ Return \/ (pc' = "returned" /\ UNCHANGED <<pc, evals, early, stopping, done>>)
  <2> SUFFICES ASSUME pc' = "returned", ~ Return
               PROVE  UNCHANGED <<pc, evals, early, stopping, done>>
    BY DEF Settled
  <2> USE DEF rowVars, saveVars, evalVars, modelVars, loopVars
  <2>1. CASE MarkAbandoned \/ UNCHANGED vars
    BY <2>1 DEF MarkAbandoned, vars
  <2>2. ~ (MarkRunning \/ MakeModel \/ CountSteps \/ Learn \/ Progress \/ Store \/ Insert \/ Crash)
    BY DEF MarkRunning, MakeModel, CountSteps, Save, Learn, Progress, Store, Insert, Committed, Crash,
           IInv, FlowInv
  <2>3. ~ (CommitRow \/ Saved \/ CreateEvaluation \/ MarkEvaluation \/ Observe \/ Checks \/ CompleteRun)
    BY DEF CommitRow, Saved, Evaluate, AfterEvent, CreateEvaluation, MarkEvaluation, Observe, Save,
           Checks, CompleteRun, Committed
  <2>4. ~ (Raise \/ Rescue \/ InterruptedSaved \/ FailRun)
    BY DEF Raise, FailEvaluation, Rescue, Save, InterruptedSaved, FailRun
  <2>5. ~ \E score \in Scores : CompleteEvaluation(score)
    BY DEF CompleteEvaluation
  <2> QED
    BY <2>1, <2>2, <2>3, <2>4, <2>5 DEF Next, Train
<1> QED
  BY <1>1, <1>2, <1>3

-----------------------------------------------------------------------------
(* The theorems *)

\* The inductive invariant.
OutcomeInv ==
    /\ IInv /\ CountInv /\ SegmentInv /\ PeriodicInv /\ FinalInv /\ ScoredInv
    /\ DoneInv /\ HalfInv /\ StaleInv

\* It holds of a pending run.
LEMMA InitOutcomeInv == Init => OutcomeInv
<1> SUFFICES ASSUME Init PROVE OutcomeInv
  OBVIOUS
<1>1. IInv
  BY InitIInv
<1> /\ pc = "mark" /\ status = "pending" /\ steps = 0 /\ done = 0 /\ ~ final /\ ~ stopping
    /\ files = {} /\ rows = {} /\ evals = <<>> /\ DOMAIN evals = {}
  BY EmptySeq DEF Init
<1> USE DEF Saves, Evaluating
<1>2. CountInv /\ DoneInv /\ SegmentInv
  BY DEF CountInv, DoneInv, SegmentInv
<1>3. PeriodicInv /\ FinalInv
  <2>1. Due \subseteq 1 .. config.total
    BY <1>1, EventSteps DEF IInv, Due
  <2> QED
    BY <2>1 DEF PeriodicInv, FinalInv
<1>4. ScoredInv
  BY DEF ScoredInv, RowsOfCheckpoints, AllScored, Underway
<1>5. HalfInv
  BY DEF HalfInv, FilesBelong, OnlyLastOpen
<1>6. StaleInv
  <2>1. Validated = {} /\ Tested = {}
    BY DEF Validated, Tested
  <2>2. Seen = {} /\ Asked = {}
    BY <2>1 DEF Seen, Asked, Over
  <2>3. Accumulated(Seen)
    BY <2>2 DEF Accumulated, Init, NothingSeen
  <2> QED
    BY <2>2, <2>3 DEF StaleInv, StopFlow, Over
<1> QED
  BY <1>1, <1>2, <1>3, <1>4, <1>5, <1>6 DEF OutcomeInv

\* Every step keeps it.
LEMMA OutcomeInvariant == Spec => []OutcomeInv
<1>1. OutcomeInv /\ [Next]_vars => OutcomeInv'
  <2> SUFFICES ASSUME OutcomeInv, [Next]_vars PROVE OutcomeInv'
    OBVIOUS
  <2> IInv /\ CountInv /\ SegmentInv /\ PeriodicInv /\ FinalInv /\ ScoredInv /\ DoneInv /\ HalfInv /\ StaleInv
    BY DEF OutcomeInv
  <2>1. IInv'
    BY BaseStep, FlowStep, SaveStep, HandlerStep, EvalsStep DEF IInv
  <2> QED
    BY <2>1, CountStep, SegmentStep, PeriodicStep, FinalStep, ScoredStep, DoneStep, HalfStep, StaleStep
       DEF OutcomeInv
<1> QED
  BY <1>1, InitOutcomeInv, PTL DEF Spec

\* A completed run has every checkpoint and evaluation of its schedule, and
\* exceptions alone leave nothing half done: whatever the intervals, the
\* faults and the scores.
THEOREM OutcomesAreWhole == Spec => []OutcomeWhole
<1>1. OutcomeInv => OutcomeWhole
  <2> SUFFICES ASSUME OutcomeInv PROVE OutcomeWhole
    OBVIOUS
  <2>1. CompletedIsWhole
    BY DEF OutcomeInv, DoneInv, CompletedIsWhole
  <2>2. NothingHalfDone
    <3> SUFFICES ASSUME pc \in {"returned", "raised"}, config.faults \subseteq {"raise"}
                 PROVE  files = rows /\ \A i \in DOMAIN evals : evals[i].status \in {"completed", "failed"}
      BY DEF NothingHalfDone
    <3>1. FilesBelong /\ OnlyLastOpen
      BY DEF OutcomeInv, HalfInv
    <3>2. \A i \in DOMAIN evals : evals[i] \in EvaluationRows
      BY ValidatedRows DEF OutcomeInv, IInv
    <3>3. \A i \in DOMAIN evals : evals[i].status \in {"pending", "running", "completed", "failed"}
      BY <3>2 DEF EvaluationRows
    <3> QED
      BY <3>1, <3>3 DEF FilesBelong, OnlyLastOpen
  <2> QED
    BY <2>1, <2>2 DEF OutcomeWhole
<1> QED
  BY <1>1, OutcomeInvariant, PTL

\* A run that returned stopped at the first scheduled evaluation after which
\* the scores had been stale for the configured patience, and only then; its
\* best checkpoint is the first of the best score.
THEOREM StoppingIsExact == Spec => []StopsWhenStale
<1>1. OutcomeInv => StopsWhenStale
  <2> SUFFICES ASSUME OutcomeInv, pc = "returned", config.mode = "scheduled"
               PROVE  /\ stopping <=> \E v \in Tested : StaleAfter(v)
                      /\ \A v, w \in Tested : StaleAfter(v) => w <= v
                      /\ \E b \in Validated : FirstBest(b, Validated) /\ early.best = evals[b].of
    BY DEF StopsWhenStale
  <2>1. Over /\ Seen = Validated /\ Asked = Tested /\ Settled
    BY DEF Over, Seen, Asked, Settled
  <2> QED
    BY <2>1 DEF OutcomeInv, StaleInv, StopFlow, Accumulated
<1> QED
  BY <1>1, OutcomeInvariant, PTL

=============================================================================
