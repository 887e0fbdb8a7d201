------------------------- MODULE QueueSchedulerProofs -----------------------
(***************************************************************************)
(* Proofs about QueueScheduler for any names, sources, workers, limits and  *)
(* temperatures: type correctness, one trainer of a run and no more than    *)
(* --workers of them, sources before their dependents, and a reported       *)
(* success that is true and stays true, and how the queue fails and ends.   *)
(*                                                                         *)
(* The arguments.  Trainers: a worker past its claim holds it (HeldInv), so *)
(* its name tells it apart from the others; a claim counts every occupied   *)
(* slot against the limit of the worker that takes it, so for each k the    *)
(* workers with a limit up to k are at most k (CapacityHeld), whatever      *)
(* limits the schedulers were given.  Sources: a worker that goes on to     *)
(* create its row has found the source completed (SourceReady), and no step *)
(* takes a completed run back.  Success: a planned run is never lost        *)
(* between the pending list, the attempts and the completed runs (PlanInv), *)
(* and what the scheduler drops as completed is completed (SnapInv).        *)
(*                                                                         *)
(* The end of a queue.  After a failure no worker is started.  The row of a *)
(* live creator is its own, because to change it takes the claim that the   *)
(* creator holds.  An orderly scheduler owns every worker (OwnedInv), has   *)
(* each attempt on disk before it turns to another (RecordInv) and starts a *)
(* name only when no worker left an unfinished row of it (FreshInv); so it  *)
(* leaves neither workers nor rows that recovery could not repair.  When    *)
(* moreover dead workers leave no sessions, the claims are those of the     *)
(* attempts (AliveHeld, ActiveCap), and the repair of a failed attempt finds *)
(* its claim free: a failure never stops the work under way.                *)
(***************************************************************************)
EXTENDS QueueScheduler, TLAPS, SequenceTheorems, FiniteSetTheorems, WellFoundedInduction

-----------------------------------------------------------------------------
(* Lists of jobs *)

\* Every nonempty set of natural numbers has a least element.
LEMMA LeastNumber ==
    ASSUME NEW T \in SUBSET Nat, T # {}
    PROVE  \E x \in T : \A y \in T : x <= y
<1> DEFINE R == OpToRel(<, Nat)
<1>1. \A x, y \in Nat : y < x => <<y, x>> \in R
  BY DEF OpToRel
<1>2. IsWellFoundedOn(R, Nat)
  BY NatLessThanWellFounded
<1> HIDE DEF R
<1>3. PICK x \in T : \A y \in T : <<y, x>> \notin R
  BY <1>2, WFMin
<1>4. \A y \in T : x \in Nat /\ y \in Nat /\ ~ (y < x)
  BY <1>1, <1>3
<1>5. \A y \in T : x <= y
  BY <1>4
<1> QED
  BY <1>5

\* What Keep has kept of the first i jobs.
KeptOf(kept, jobs, K, i) ==
    IF i = 0 THEN <<>>
    ELSE IF jobs[i] \in K THEN Append(kept[i - 1], jobs[i]) ELSE kept[i - 1]

\* kept is the function Keep defines, up to m.
Keeps(kept, jobs, K, m) == kept = [i \in 0 .. m |-> KeptOf(kept, jobs, K, i)]

\* There is such a function, so Keep's recursive definition is a proper one.
LEMMA KeepsExists ==
    ASSUME NEW S, NEW jobs \in Seq(S), NEW K, NEW m \in 0 .. Len(jobs)
    PROVE  \E kept : Keeps(kept, jobs, K, m)
<1> DEFINE Bad == {k \in Nat : k <= Len(jobs) /\ ~ \E kept : Keeps(kept, jobs, K, k)}
<1> SUFFICES ASSUME Bad # {} PROVE FALSE
  BY LenProperties
<1>1. PICK k \in Bad : \A y \in Bad : k <= y
  <2>1. Bad \in SUBSET Nat
    OBVIOUS
  <2> HIDE DEF Bad
  <2> QED
    BY <2>1, LeastNumber
<1>2. CASE k = 0
  <2>1. Keeps([i \in 0 .. 0 |-> <<>>], jobs, K, 0)
    BY DEF Keeps, KeptOf
  <2> QED
    BY <1>1, <1>2, <2>1
<1>3. CASE k # 0
  <2>1. /\ k \in Nat /\ k <= Len(jobs) /\ Len(jobs) \in Nat
        /\ k - 1 \in Nat /\ k - 1 <= Len(jobs) /\ k - 1 \notin Bad
    BY <1>1, <1>3, LenProperties
  <2>2. PICK f : Keeps(f, jobs, K, k - 1)
    BY <2>1
  <2> DEFINE g == [i \in 0 .. k |-> KeptOf(f, jobs, K, i)]
  <2>3. \A i \in 0 .. k - 1 : f[i] = KeptOf(f, jobs, K, i)
    BY <2>2, Zenon DEF Keeps
  <2>4. ASSUME NEW i \in 0 .. k, i # 0 PROVE g[i - 1] = f[i - 1]
    <3>1. i - 1 \in 0 .. k - 1 /\ i - 1 \in 0 .. k
      BY <2>1, <2>4
    <3>2. f[i - 1] = KeptOf(f, jobs, K, i - 1)
      BY <2>3, <3>1
    <3> QED
      BY <3>1, <3>2
  <2>5. \A i \in 0 .. k : KeptOf(f, jobs, K, i) = KeptOf(g, jobs, K, i)
    <3> HIDE DEF g
    <3> QED
      BY <2>4 DEF KeptOf
  <2>6. g = [i \in 0 .. k |-> KeptOf(g, jobs, K, i)]
    BY <2>5
  <2> HIDE DEF g
  <2>7. Keeps(g, jobs, K, k)
    BY <2>6 DEF Keeps
  <2> QED
    BY <1>1, <2>7
<1> QED
  BY <1>2, <1>3

\* Keep's result is the last value of that function.
LEMMA KeepIsLast ==
    ASSUME NEW S, NEW jobs \in Seq(S), NEW K
    PROVE  \E kept : Keeps(kept, jobs, K, Len(jobs)) /\ Keep(jobs, K) = kept[Len(jobs)]
<1> DEFINE kept[i \in 0 .. Len(jobs)] ==
            IF i = 0 THEN <<>>
            ELSE IF jobs[i] \in K THEN Append(kept[i - 1], jobs[i]) ELSE kept[i - 1]
<1>1. \E f : Keeps(f, jobs, K, Len(jobs))
  <2>1. Len(jobs) \in 0 .. Len(jobs)
    BY LenProperties
  <2> QED
    BY <2>1, KeepsExists, Zenon
<1>2. Keeps(kept, jobs, K, Len(jobs))
  BY <1>1, Zenon DEF Keeps, KeptOf
<1>3. Keep(jobs, K) = kept[Len(jobs)]
  BY Zenon DEF Keep
<1> QED
  BY <1>2, <1>3, Zenon

\* Appending a job adds it to the jobs of the list.
LEMMA AppendRange ==
    ASSUME NEW S, NEW q \in Seq(S), NEW x \in S
    PROVE  Append(q, x) \in Seq(S) /\ Range(Append(q, x)) = Range(q) \cup {x}
<1>1. /\ Append(q, x) \in Seq(S) /\ Len(Append(q, x)) = Len(q) + 1 /\ Len(q) \in Nat
      /\ \A i \in 1 .. Len(q) : Append(q, x)[i] = q[i]
      /\ Append(q, x)[Len(q) + 1] = x
  BY AppendProperties, LenProperties
<1>2. Range(q) = {q[i] : i \in 1 .. Len(q)}
  BY RangeEquality
<1>3. Range(Append(q, x)) = {Append(q, x)[i] : i \in 1 .. Len(q) + 1}
  BY <1>1, RangeEquality
<1>4. \A i : i \in 1 .. Len(q) + 1 <=> i \in 1 .. Len(q) \/ i = Len(q) + 1
  BY <1>1
<1> QED
  BY <1>1, <1>2, <1>3, <1>4

\* Keep returns a list of exactly the jobs that are in K.
LEMMA KeepProperties ==
    ASSUME NEW S, NEW jobs \in Seq(S), NEW K
    PROVE  /\ Keep(jobs, K) \in Seq(S)
           /\ Range(Keep(jobs, K)) = Range(jobs) \cap K
<1>1. PICK f : Keeps(f, jobs, K, Len(jobs)) /\ Keep(jobs, K) = f[Len(jobs)]
  BY KeepIsLast
<1>2. Len(jobs) \in Nat /\ \A j \in 1 .. Len(jobs) : jobs[j] \in S
  BY LenProperties, ElementOfSeq
<1>3. \A i \in 0 .. Len(jobs) : f[i] = KeptOf(f, jobs, K, i)
  BY <1>1, Zenon DEF Keeps
<1> DEFINE Good(i) == f[i] \in Seq(S) /\ Range(f[i]) = {jobs[j] : j \in 1 .. i} \cap K
           Bad == {i \in Nat : i <= Len(jobs) /\ ~ Good(i)}
<1>4. Bad = {}
  <2> SUFFICES ASSUME Bad # {} PROVE FALSE
    OBVIOUS
  <2>1. PICK i \in Bad : \A y \in Bad : i <= y
    <3>1. Bad \in SUBSET Nat
      OBVIOUS
    <3> HIDE DEF Bad
    <3> QED
      BY <3>1, LeastNumber
  <2>2. CASE i = 0
    <3>1. f[0] = <<>>
      BY <1>2, <1>3 DEF KeptOf
    <3>2. f[0] \in Seq(S) /\ Range(f[0]) = {} /\ {jobs[j] : j \in 1 .. 0} = {}
      BY <3>1 DEF Range
    <3> QED
      BY <2>1, <2>2, <3>2
  <2>3. CASE i # 0
    <3>1. /\ i \in Nat /\ i <= Len(jobs) /\ i - 1 \in Nat /\ i - 1 <= Len(jobs)
          /\ i \in 0 .. Len(jobs) /\ i \in 1 .. Len(jobs) /\ ~ (i <= i - 1)
      BY <2>1, <2>3, <1>2
    <3>2. Good(i - 1)
      <4> HIDE DEF Good
      <4> QED
        BY <2>1, <3>1
    <3>3. f[i] = IF jobs[i] \in K THEN Append(f[i - 1], jobs[i]) ELSE f[i - 1]
      BY <1>3, <2>3, <3>1 DEF KeptOf
    <3>4. {jobs[j] : j \in 1 .. i} = {jobs[j] : j \in 1 .. i - 1} \cup {jobs[i]}
      <4>1. \A j : j \in 1 .. i <=> j \in 1 .. i - 1 \/ j = i
        BY <3>1
      <4> QED
        BY <4>1
    <3>5. CASE jobs[i] \in K
      <4>1. /\ Append(f[i - 1], jobs[i]) \in Seq(S)
            /\ Range(Append(f[i - 1], jobs[i])) = Range(f[i - 1]) \cup {jobs[i]}
        BY <1>2, <3>1, <3>2, AppendRange
      <4> QED
        BY <2>1, <3>5, <3>2, <3>3, <3>4, <4>1
    <3>6. CASE jobs[i] \notin K
      BY <2>1, <3>6, <3>2, <3>3, <3>4
    <3> QED
      BY <3>5, <3>6
  <2> QED
    BY <2>2, <2>3
<1>5. Good(Len(jobs))
  <2> HIDE DEF Good
  <2> QED
    BY <1>2, <1>4
<1> QED
  BY <1>1, <1>5, RangeEquality

-----------------------------------------------------------------------------
(* Types *)

\* TypeOK in four parts: the database, the processes, the scheduler's plan
\* and loop, its attempts.
DbTypes ==
    /\ row \in [Names -> Statuses]
    /\ by \in [Names -> Procs \cup {Nobody, User}]
    /\ older \in [Names -> BOOLEAN]
    /\ user \subseteq Names

ProcTypes ==
    /\ holder \in [Names -> Procs \cup {Nobody}]
    /\ stage \in [Procs -> Stages]
    /\ job \in [Procs -> Names \cup {NoName}]
    /\ limit \in [Procs -> WorkerLimits \cup {0}]
    /\ code \in [Procs -> Codes]
    /\ sig \in [Procs -> BOOLEAN]

LoopTypes ==
    /\ sched \in Places
    /\ todo \subseteq Names
    /\ workers \in WorkerLimits \cup {0}
    /\ skipped \subseteq Names
    /\ plan \subseteq Names
    /\ pending \in Seq(Names)
    /\ snap \in [Names -> Statuses]
    /\ launched \in BOOLEAN
    /\ paused \in BOOLEAN
    /\ failed \in BOOLEAN
    /\ result \in Results

\* An attempt is started, registered or repaired for a name.
AttemptTypes ==
    /\ active \in [Names -> Procs \cup {Nobody}]
    /\ receipts \subseteq Names
    /\ journal \in [Names -> Procs \cup {Nobody}]
    /\ child \in (Names \cup {NoName}) \X (Procs \cup {Nobody})
    /\ sched \in {"spawn", "attach", "register", "repair"} => child[1] \in Names

Types == DbTypes /\ ProcTypes /\ LoopTypes /\ AttemptTypes

\* The queue selects known names.
LEMMA SelectedNames == Selected \subseteq Names /\ Range(Order) = Selected
<1>1. Range(Order) = {Order[i] : i \in 1 .. Len(Order)}
  BY QueueAssumption, RangeEquality
<1> QED
  BY <1>1, QueueAssumption, LenProperties, ElementOfSeq DEF Selected

\* The types hold initially.
LEMMA InitTypes == Init => Types
<1> SUFFICES ASSUME Init PROVE Types
  OBVIOUS
<1> USE QueueAssumption DEF Init
<1>1. DbTypes
  BY DEF DbTypes, NoRow, NoAttempt, Statuses
<1>2. ProcTypes
  BY DEF ProcTypes, NoAttempt, Stages, Codes
<1>3. LoopTypes
  BY EmptySeq DEF LoopTypes, NoRow, Statuses, Places, Results
<1>4. AttemptTypes
  BY DEF AttemptTypes, NoAttempt
<1> QED
  BY <1>1, <1>2, <1>3, <1>4 DEF Types

\* A worker's exit keeps the types.
LEMMA ExitTypes ==
    ASSUME ProcTypes, NEW p \in Procs, NEW c \in Codes, Exit(p, c)
    PROVE  ProcTypes'
BY QueueAssumption DEF ProcTypes, Exit, Stages

\* So does a step to another stage, with or without a new exit code.
LEMMA BecomesTypes ==
    ASSUME ProcTypes, NEW p \in Procs, NEW s \in Stages, Becomes(p, s),
           code' = code \/ \E c \in Codes : code' = [code EXCEPT ![p] = c]
    PROVE  ProcTypes'
BY DEF ProcTypes, Becomes

\* So does the failing of its run.
LEMMA FailRunTypes ==
    ASSUME DbTypes, ProcTypes, NEW p \in Procs, NEW c \in Codes, FailRun(p, c)
    PROVE  DbTypes' /\ ProcTypes'
<1>1. DbTypes'
  BY DEF DbTypes, FailRun, Statuses
<1>2. ProcTypes'
  BY DEF ProcTypes, FailRun, Stages
<1> QED
  BY <1>1, <1>2

\* So does reaping an attempt.
LEMMA ReapTypes ==
    ASSUME ProcTypes, NEW n \in Names, Reap(n)
    PROVE  ProcTypes'
BY QueueAssumption DEF ProcTypes, Reap, Stages, Codes

\* The end of a scheduler keeps the types.
LEMMA DownTypes ==
    ASSUME LoopTypes, AttemptTypes, NEW how \in Results, Down(how)
    PROVE  LoopTypes' /\ AttemptTypes'
<1>1. LoopTypes'
  BY EmptySeq DEF LoopTypes, Down, Places, NoRow, Statuses
<1>2. AttemptTypes'
  BY DEF AttemptTypes, Down, NoAttempt
<1> QED
  BY <1>1, <1>2

\* So does the unwinding of its try block.
LEMMA UnwindTypes ==
    ASSUME LoopTypes, AttemptTypes, NEW how \in Results, Unwind(how)
    PROVE  LoopTypes' /\ AttemptTypes'
<1>1. CASE Down(how)
  BY <1>1, DownTypes
<1>2. CASE ~ Down(how)
  <2>1. LoopTypes'
    BY <1>2 DEF LoopTypes, Unwind, Places, planVars
  <2>2. AttemptTypes'
    BY <1>2 DEF AttemptTypes, Unwind, attemptVars
  <2> QED
    BY <2>1, <2>2
<1> QED
  BY <1>1, <1>2

\* Every action keeps the types of the database.
LEMMA DbTypesStep == Types /\ [Next]_vars => DbTypes'
<1> SUFFICES ASSUME Types, [Next]_vars PROVE DbTypes'
  OBVIOUS
<1> USE QueueAssumption DEF Types, DbTypes, Statuses, Unfinished, dbVars, procVars, planVars,
         attemptVars, loopVars
<1>1. ASSUME NEW p \in Procs, WorkerStep(p) PROVE DbTypes'
  <2> UNCHANGED <<sched, planVars, attemptVars, loopVars>>
    BY <1>1 DEF WorkerStep
  <2>1. CASE WorkerCreatesRun(p)
    <3>1. row' \in [Names -> Statuses]
      BY <2>1 DEF WorkerCreatesRun
    <3>2. by' \in [Names -> Procs \cup {Nobody, User}]
      BY <2>1 DEF WorkerCreatesRun
    <3>3. older' \in [Names -> BOOLEAN] /\ user' \subseteq Names
      BY <2>1 DEF WorkerCreatesRun
    <3> QED
      BY <3>1, <3>2, <3>3
  <2>2. CASE WorkerMarksRunning(p)
    BY <2>2 DEF WorkerMarksRunning
  <2>3. CASE WorkerCompletesRun(p)
    BY <2>3 DEF WorkerCompletesRun
  <2>4. CASE WorkerTrainingFails(p)
    BY <2>4 DEF WorkerTrainingFails, FailRun
  <2>5. CASE WorkerEnds(p)
    BY <2>5 DEF WorkerEnds, MarkAbandoned
  <2>6. CASE WorkerInterrupted(p)
    BY <2>6 DEF WorkerInterrupted, FailRun
  <2>7. CASE WorkerClaims(p) \/ WorkerStartupFails(p) \/ WorkerChecks(p) \/ WorkerFinishes(p)
         \/ WatcherFires(p)
    BY <2>7 DEF WorkerClaims, WorkerStartupFails, WorkerChecks, WorkerFinishes, WatcherFires
  <2> QED
    BY <1>1, <2>1, <2>2, <2>3, <2>4, <2>5, <2>6, <2>7 DEF WorkerStep
<1>2. ASSUME SchedulerStep PROVE DbTypes'
  <2>1. CASE Repair
    BY <2>1 DEF Repair, Reconciled, ReconcileRaises, MarkAbandoned, Unwind, Down
  <2>2. CASE Choose
    BY <2>2 DEF Choose
  <2>3. CASE Start \/ Classify \/ Top \/ Attach \/ Register \/ EndTurn \/ StopChildren
         \/ ChildrenReaped \/ Finished
    BY <2>3 DEF Start, Classify, Top, Down, Attach, Register, EndTurn, StopChildren, ChildrenReaped,
           Finished
  <2>4. ASSUME NEW n \in Names, Preflight(n) PROVE DbTypes'
    BY <2>4 DEF Preflight, Down
  <2>5. ASSUME NEW n \in Names, FinalReconcile(n) PROVE DbTypes'
    BY <2>5 DEF FinalReconcile, Reconciled, ReconcileRaises, MarkAbandoned, Reap
  <2>6. ASSUME NEW n \in Names, Poll(n) PROVE DbTypes'
    BY <2>6 DEF Poll, Reap
  <2>7. ASSUME NEW temp \in Temps, Sample(temp) PROVE DbTypes'
    BY <2>7 DEF Sample, Unwind, Down
  <2>8. ASSUME NEW p \in Procs, Spawn(p) PROVE DbTypes'
    BY <2>8 DEF Spawn
  <2> QED
    BY <1>2, <2>1, <2>2, <2>3, <2>4, <2>5, <2>6, <2>7, <2>8 DEF SchedulerStep
<1>3. ASSUME Environment PROVE DbTypes'
  <2>1. CASE Interrupt \/ InterruptAgain \/ Crash \/ KillChildren
    BY <2>1 DEF Interrupt, Unwind, Down, InterruptAgain, Crash, KillChildren, Die
  <2>2. ASSUME NEW n \in Names, Recover(n) PROVE DbTypes'
    BY <2>2 DEF Recover, MarkAbandoned
  <2>3. ASSUME NEW n \in Names, UserStep(n) PROVE DbTypes'
    BY <2>3 DEF UserStep
  <2>4. ASSUME NEW n \in Names, SessionEnds(n) \/ ConnectionLost(n) PROVE DbTypes'
    BY <2>4 DEF SessionEnds, ConnectionLost
  <2>5. ASSUME NEW p \in Procs, WorkerKilled(p) \/ OrphanReaped(p) PROVE DbTypes'
    BY <2>5 DEF WorkerKilled, Die, OrphanReaped
  <2> QED
    BY <1>3, <2>1, <2>2, <2>3, <2>4, <2>5 DEF Environment
<1>4. CASE UNCHANGED vars
  BY <1>4 DEF vars
<1> QED
  BY <1>1, <1>2, <1>3, <1>4 DEF Next

\* Every action keeps the types of the processes.
LEMMA ProcTypesStep == Types /\ [Next]_vars => ProcTypes'
<1> SUFFICES ASSUME Types, [Next]_vars PROVE ProcTypes'
  OBVIOUS
<1> USE QueueAssumption DEF Types, dbVars, procVars, planVars, attemptVars, loopVars
<1>1. ASSUME NEW p \in Procs, WorkerStep(p) PROVE ProcTypes'
  <2> UNCHANGED <<sched, planVars, attemptVars, loopVars>>
    BY <1>1 DEF WorkerStep
  <2>1. CASE WorkerClaims(p)
    <3>1. CASE Exit(p, 75)
      BY <3>1, ExitTypes DEF Codes
    <3>2. CASE ~ Exit(p, 75)
      BY <2>1, <3>2 DEF WorkerClaims, ProcTypes, Stages
    <3> QED
      BY <3>1, <3>2
  <2>2. CASE WorkerStartupFails(p)
    BY <2>2, ExitTypes DEF WorkerStartupFails, Codes
  <2>3. CASE WorkerChecks(p)
    BY <2>3, ExitTypes, BecomesTypes DEF WorkerChecks, Codes, Stages
  <2>4. CASE WorkerCreatesRun(p)
    BY <2>4, BecomesTypes DEF WorkerCreatesRun, Codes, Stages
  <2>5. CASE WorkerMarksRunning(p)
    BY <2>5, BecomesTypes DEF WorkerMarksRunning, Stages
  <2>6. CASE WorkerCompletesRun(p)
    BY <2>6, BecomesTypes DEF WorkerCompletesRun, Stages
  <2>7. CASE WorkerFinishes(p)
    BY <2>7, BecomesTypes DEF WorkerFinishes, Stages
  <2>8. CASE WorkerTrainingFails(p)
    BY <2>8, FailRunTypes DEF WorkerTrainingFails, Codes
  <2>9. CASE WorkerEnds(p)
    <3>1. code[p] \in Codes
      BY DEF ProcTypes
    <3> QED
      BY <2>9, <3>1, ExitTypes DEF WorkerEnds, Codes
  <2>10. CASE WorkerInterrupted(p)
    BY <2>10, ExitTypes, FailRunTypes DEF WorkerInterrupted, Codes
  <2>11. CASE WatcherFires(p)
    BY <2>11 DEF WatcherFires, ProcTypes, Stages, Codes
  <2> QED
    BY <1>1, <2>1, <2>2, <2>3, <2>4, <2>5, <2>6, <2>7, <2>8, <2>9, <2>10, <2>11 DEF WorkerStep
<1>2. ASSUME SchedulerStep PROVE ProcTypes'
  <2>1. CASE StopChildren
    BY <2>1 DEF StopChildren, ProcTypes, Stages, Codes
  <2>2. CASE Start \/ Classify \/ Top \/ Repair \/ Choose \/ Attach \/ Register \/ EndTurn
         \/ ChildrenReaped \/ Finished
    BY <2>2 DEF Start, Classify, Top, Down, Repair, Unwind, Choose, Attach, Register, EndTurn,
           ChildrenReaped, Finished, ProcTypes
  <2>3. ASSUME NEW n \in Names, Poll(n) PROVE ProcTypes'
    <3>1. CASE UNCHANGED procVars
      BY <3>1 DEF ProcTypes
    <3>2. CASE Reap(n)
      BY <3>2, ReapTypes
    <3> QED
      BY <2>3, <3>1, <3>2 DEF Poll
  <2>4. ASSUME NEW n \in Names, FinalReconcile(n) PROVE ProcTypes'
    BY <2>4, ReapTypes DEF FinalReconcile
  <2>5. ASSUME NEW n \in Names, Preflight(n) PROVE ProcTypes'
    BY <2>5 DEF Preflight, Down, ProcTypes
  <2>6. ASSUME NEW temp \in Temps, Sample(temp) PROVE ProcTypes'
    BY <2>6 DEF Sample, Unwind, Down, ProcTypes
  <2>7. ASSUME NEW p \in Procs, Spawn(p) PROVE ProcTypes'
    <3>1. limit' \in [Procs -> WorkerLimits \cup {0}]
      BY <2>7 DEF Spawn, LoopTypes, ProcTypes
    <3> QED
      BY <2>7, <3>1 DEF Spawn, AttemptTypes, ProcTypes, Stages
  <2> QED
    BY <1>2, <2>1, <2>2, <2>3, <2>4, <2>5, <2>6, <2>7 DEF SchedulerStep
<1>3. ASSUME Environment PROVE ProcTypes'
  <2>1. CASE KillChildren
    BY <2>1 DEF KillChildren, Die, ProcTypes, Stages, Codes
  <2>2. CASE Interrupt \/ InterruptAgain \/ Crash
    BY <2>2 DEF Interrupt, Unwind, Down, InterruptAgain, Crash, ProcTypes
  <2>3. ASSUME NEW n \in Names, SessionEnds(n) PROVE ProcTypes'
    BY <2>3 DEF SessionEnds, ProcTypes, Stages, Codes
  <2>4. ASSUME NEW n \in Names, ConnectionLost(n) PROVE ProcTypes'
    BY <2>4 DEF ConnectionLost, ProcTypes, Stages, Codes
  <2>5. ASSUME NEW n \in Names, Recover(n) \/ UserStep(n) PROVE ProcTypes'
    BY <2>5 DEF Recover, UserStep, ProcTypes
  <2>6. ASSUME NEW p \in Procs, WorkerKilled(p) PROVE ProcTypes'
    BY <2>6 DEF WorkerKilled, Die, ProcTypes, Stages, Codes
  <2>7. ASSUME NEW p \in Procs, OrphanReaped(p) PROVE ProcTypes'
    BY <2>7 DEF OrphanReaped, ProcTypes, Stages, Codes
  <2> QED
    BY <1>3, <2>1, <2>2, <2>3, <2>4, <2>5, <2>6, <2>7 DEF Environment
<1>4. CASE UNCHANGED vars
  BY <1>4 DEF vars, ProcTypes
<1> QED
  BY <1>1, <1>2, <1>3, <1>4 DEF Next

\* Every action keeps the types of the scheduler and its attempts.
LEMMA LoopTypesStep == Types /\ [Next]_vars => (LoopTypes /\ AttemptTypes)'
<1> SUFFICES ASSUME Types, [Next]_vars PROVE (LoopTypes /\ AttemptTypes)'
  OBVIOUS
<1> USE QueueAssumption DEF Types, dbVars, procVars, planVars, attemptVars, loopVars
<1>1. ASSUME NEW p \in Procs, WorkerStep(p) PROVE (LoopTypes /\ AttemptTypes)'
  <2> UNCHANGED <<sched, planVars, attemptVars, loopVars>>
    BY <1>1 DEF WorkerStep
  <2>1. CASE WorkerClaims(p) \/ WorkerStartupFails(p) \/ WorkerChecks(p) \/ WorkerCreatesRun(p)
         \/ WorkerMarksRunning(p) \/ WorkerCompletesRun(p) \/ WorkerFinishes(p)
         \/ WorkerTrainingFails(p) \/ WorkerEnds(p) \/ WorkerInterrupted(p) \/ WatcherFires(p)
    BY <2>1 DEF WorkerClaims, Exit, WorkerStartupFails, WorkerChecks, Becomes, WorkerCreatesRun,
           WorkerMarksRunning, WorkerCompletesRun, WorkerFinishes, WorkerTrainingFails, FailRun,
           WorkerEnds, WorkerInterrupted, WatcherFires, LoopTypes, AttemptTypes
  <2> QED
    BY <1>1, <2>1 DEF WorkerStep
<1>2. ASSUME SchedulerStep PROVE (LoopTypes /\ AttemptTypes)'
  <2>1. CASE Start
    BY <2>1, SelectedNames DEF Start, LoopTypes, AttemptTypes, Places, Results
  <2>2. CASE Classify
    <3>1. plan' \subseteq Names /\ Keep(Order, plan') \in Seq(Names)
      BY <2>2, SelectedNames, KeepProperties DEF Classify
    <3> QED
      BY <2>2, <3>1 DEF Classify, LoopTypes, AttemptTypes, Places
  <2>3. CASE Top
    <3>1. CASE Down(IF failed THEN "failed" ELSE "ok")
      BY <3>1, DownTypes DEF Results
    <3>2. CASE ~ Down(IF failed THEN "failed" ELSE "ok")
      BY <2>3, <3>2 DEF Top, LoopTypes, AttemptTypes, DbTypes, Places, ActiveNames
    <3> QED
      BY <3>1, <3>2
  <2>4. CASE Repair
    <3>1. CASE Unwind("error")
      BY <3>1, UnwindTypes DEF Results
    <3>2. CASE ~ Unwind("error")
      <4>1. LoopTypes'
        BY <2>4, <3>2 DEF Repair, LoopTypes, Places
      <4>2. AttemptTypes'
        BY <2>4, <3>2 DEF Repair, AttemptTypes
      <4> QED
        BY <4>1, <4>2
    <3> QED
      BY <3>1, <3>2
  <2>5. CASE Choose
    <3>1. PICK i \in DOMAIN pending :
              /\ child' = <<pending[i], Nobody>>
              /\ pending' = Keep(pending, Names \ {pending[i]})
      BY <2>5 DEF Choose
    <3>2. pending[i] \in Names
      BY <3>1, LenProperties, ElementOfSeq DEF LoopTypes
    <3>3. pending' \in Seq(Names)
      BY <3>1, KeepProperties DEF LoopTypes
    <3> QED
      BY <2>5, <3>1, <3>2, <3>3 DEF Choose, LoopTypes, AttemptTypes, Places
  <2>6. CASE Attach
    BY <2>6 DEF Attach, LoopTypes, AttemptTypes, Places
  <2>7. CASE Register
    BY <2>7 DEF Register, LoopTypes, AttemptTypes, Places
  <2>8. CASE EndTurn
    <3>1. CASE Down("error")
      BY <3>1, DownTypes DEF Results
    <3>2. CASE ~ Down("error")
      BY <2>8, <3>2 DEF EndTurn, LoopTypes, AttemptTypes, Places
    <3> QED
      BY <3>1, <3>2
  <2>9. CASE StopChildren
    BY <2>9 DEF StopChildren, LoopTypes, AttemptTypes, Places
  <2>10. CASE ChildrenReaped
    BY <2>10 DEF ChildrenReaped, LoopTypes, AttemptTypes, Places, ActiveNames
  <2>11. CASE Finished
    <3>1. result \in Results /\ Down(result)
      BY <2>11 DEF Finished, LoopTypes
    <3> QED
      BY <3>1, DownTypes
  <2>12. ASSUME NEW n \in Names, Preflight(n) PROVE (LoopTypes /\ AttemptTypes)'
    <3>1. CASE Down("error") \/ Down("stopped")
      BY <3>1, DownTypes DEF Results
    <3>2. CASE ~ (Down("error") \/ Down("stopped"))
      BY <2>12, <3>2 DEF Preflight, LoopTypes, AttemptTypes
    <3> QED
      BY <3>1, <3>2
  <2>13. ASSUME NEW n \in Names, Poll(n) PROVE (LoopTypes /\ AttemptTypes)'
    <3>1. row[n] \in Statuses /\ active[n] \in Procs \cup {Nobody}
      BY DEF DbTypes, AttemptTypes
    <3>2. Append(pending, n) \in Seq(Names)
      BY AppendProperties DEF LoopTypes
    <3>3. LoopTypes'
      BY <2>13, <3>1, <3>2 DEF Poll, LoopTypes, Places, Reap
    <3>4. AttemptTypes'
      BY <2>13, <3>1 DEF Poll, AttemptTypes, Reap
    <3> QED
      BY <3>3, <3>4
  <2>14. ASSUME NEW n \in Names, FinalReconcile(n) PROVE (LoopTypes /\ AttemptTypes)'
    BY <2>14 DEF FinalReconcile, Reap, LoopTypes, AttemptTypes
  <2>15. ASSUME NEW temp \in Temps, Sample(temp) PROVE (LoopTypes /\ AttemptTypes)'
    <3>1. CASE Unwind("error") \/ Down("failed")
      BY <3>1, UnwindTypes, DownTypes DEF Results
    <3>2. Keep(pending, {n \in Names : snap[n] # "completed"}) \in Seq(Names)
      BY KeepProperties DEF LoopTypes
    <3>3. PausedAfter(temp) \in BOOLEAN
      BY DEF PausedAfter
    <3>4. CASE ~ (Unwind("error") \/ Down("failed"))
      BY <2>15, <3>2, <3>3, <3>4 DEF Sample, LoopTypes, AttemptTypes, Places
    <3> QED
      BY <3>1, <3>4
  <2>16. ASSUME NEW p \in Procs, Spawn(p) PROVE (LoopTypes /\ AttemptTypes)'
    BY <2>16 DEF Spawn, LoopTypes, AttemptTypes, Places
  <2> QED
    BY <1>2, <2>1, <2>2, <2>3, <2>4, <2>5, <2>6, <2>7, <2>8, <2>9, <2>10, <2>11, <2>12,
           <2>13, <2>14, <2>15, <2>16 DEF SchedulerStep
<1>3. ASSUME Environment PROVE (LoopTypes /\ AttemptTypes)'
  <2>1. CASE Interrupt
    BY <2>1, UnwindTypes DEF Interrupt, Results
  <2>2. CASE InterruptAgain
    BY <2>2, DownTypes DEF InterruptAgain, Results
  <2>3. CASE Crash
    BY <2>3, DownTypes DEF Crash, Results
  <2>4. CASE KillChildren
    BY <2>4 DEF KillChildren, Die, LoopTypes, AttemptTypes
  <2>5. ASSUME NEW n \in Names, Recover(n) \/ UserStep(n) \/ SessionEnds(n)
         \/ ConnectionLost(n) PROVE (LoopTypes /\ AttemptTypes)'
    BY <2>5 DEF Recover, UserStep, SessionEnds, ConnectionLost, LoopTypes, AttemptTypes
  <2>6. ASSUME NEW p \in Procs, WorkerKilled(p)
         \/ OrphanReaped(p) PROVE (LoopTypes /\ AttemptTypes)'
    BY <2>6 DEF WorkerKilled, Die, OrphanReaped, LoopTypes, AttemptTypes
  <2> QED
    BY <1>3, <2>1, <2>2, <2>3, <2>4, <2>5, <2>6 DEF Environment
<1>4. CASE UNCHANGED vars
  BY <1>4 DEF vars, LoopTypes, AttemptTypes
<1> QED
  BY <1>1, <1>2, <1>3, <1>4 DEF Next

\* The parts together are TypeOK.
LEMMA TypesImplyTypeOK == Types => TypeOK
BY DEF Types, DbTypes, ProcTypes, LoopTypes, AttemptTypes, TypeOK

\* Type correctness, with every fault: the statuses, claims, processes and
\* lists of the queue never leave their types; an attempt is always one of a name.
THEOREM TypeCorrect == Spec => []TypeOK
<1>1. Types /\ [Next]_vars => Types'
  BY DbTypesStep, ProcTypesStep, LoopTypesStep DEF Types
<1> QED
  BY InitTypes, <1>1, TypesImplyTypeOK, PTL DEF Spec

-----------------------------------------------------------------------------
(* Workers have names *)

\* A worker process was started for a known name.
JobNamed == \A p \in Procs : stage[p] # "free" => job[p] \in Names

BaseInv == Types /\ JobNamed

\* Starting, exiting and reaping keep it.
LEMMA JobNamedStep == BaseInv /\ [Next]_vars => JobNamed'
<1> SUFFICES ASSUME BaseInv, [Next]_vars PROVE JobNamed'
  OBVIOUS
<1> USE QueueAssumption DEF BaseInv, Types, ProcTypes, JobNamed, dbVars, procVars, planVars,
         attemptVars, loopVars
<1>1. ASSUME NEW p \in Procs, WorkerStep(p) PROVE JobNamed'
  <2> UNCHANGED <<sched, planVars, attemptVars, loopVars>>
    BY <1>1 DEF WorkerStep
  <2>1. CASE WorkerClaims(p)
    BY <2>1 DEF WorkerClaims, Exit
  <2>2. CASE WorkerStartupFails(p)
    BY <2>2 DEF WorkerStartupFails, Exit
  <2>3. CASE WorkerChecks(p)
    BY <2>3 DEF WorkerChecks, Exit, Becomes
  <2>4. CASE WorkerCreatesRun(p)
    BY <2>4 DEF WorkerCreatesRun, Becomes
  <2>5. CASE WorkerMarksRunning(p)
    BY <2>5 DEF WorkerMarksRunning, Becomes
  <2>6. CASE WorkerCompletesRun(p)
    BY <2>6 DEF WorkerCompletesRun, Becomes
  <2>7. CASE WorkerFinishes(p)
    BY <2>7 DEF WorkerFinishes, Becomes
  <2>8. CASE WorkerTrainingFails(p)
    BY <2>8 DEF WorkerTrainingFails, FailRun
  <2>9. CASE WorkerEnds(p)
    BY <2>9 DEF WorkerEnds, Exit
  <2>10. CASE WorkerInterrupted(p)
    BY <2>10 DEF WorkerInterrupted, Exit, FailRun
  <2>11. CASE WatcherFires(p)
    BY <2>11 DEF WatcherFires
  <2> QED
    BY <1>1, <2>1, <2>2, <2>3, <2>4, <2>5, <2>6, <2>7, <2>8, <2>9, <2>10, <2>11 DEF WorkerStep
<1>2. ASSUME SchedulerStep PROVE JobNamed'
  <2>1. CASE Start \/ Classify \/ Top \/ Repair \/ Choose \/ Attach \/ Register \/ EndTurn
         \/ StopChildren \/ ChildrenReaped \/ Finished
    BY <2>1 DEF Start, Classify, Top, Down, Repair, Unwind, Choose, Attach, Register, EndTurn,
           StopChildren, ChildrenReaped, Finished
  <2>2. ASSUME NEW n \in Names, Poll(n) PROVE JobNamed'
    BY <2>2 DEF Poll, Reap
  <2>3. ASSUME NEW n \in Names, FinalReconcile(n) PROVE JobNamed'
    BY <2>3 DEF FinalReconcile, Reap
  <2>4. ASSUME NEW n \in Names, Preflight(n) PROVE JobNamed'
    BY <2>4 DEF Preflight, Down
  <2>5. ASSUME NEW temp \in Temps, Sample(temp) PROVE JobNamed'
    BY <2>5 DEF Sample, Unwind, Down
  <2>6. ASSUME NEW p \in Procs, Spawn(p) PROVE JobNamed'
    BY <2>6 DEF Spawn, AttemptTypes
  <2> QED
    BY <1>2, <2>1, <2>2, <2>3, <2>4, <2>5, <2>6 DEF SchedulerStep
<1>3. ASSUME Environment PROVE JobNamed'
  <2>1. CASE KillChildren
    BY <2>1 DEF KillChildren, Die, Alive
  <2>2. CASE Interrupt \/ InterruptAgain \/ Crash
    BY <2>2 DEF Interrupt, Unwind, Down, InterruptAgain, Crash
  <2>3. ASSUME NEW n \in Names, Recover(n) \/ UserStep(n) \/ SessionEnds(n)
         \/ ConnectionLost(n) PROVE JobNamed'
    BY <2>3 DEF Recover, UserStep, SessionEnds, ConnectionLost
  <2>4. ASSUME NEW p \in Procs, WorkerKilled(p) PROVE JobNamed'
    BY <2>4 DEF WorkerKilled, Die, Alive
  <2>5. ASSUME NEW p \in Procs, OrphanReaped(p) PROVE JobNamed'
    BY <2>5 DEF OrphanReaped
  <2> QED
    BY <1>3, <2>1, <2>2, <2>3, <2>4, <2>5 DEF Environment
<1>4. CASE UNCHANGED vars
  BY <1>4 DEF vars
<1> QED
  BY <1>1, <1>2, <1>3, <1>4 DEF Next

\* BaseInv is inductive.
LEMMA BaseStep == BaseInv /\ [Next]_vars => BaseInv'
<1>1. BaseInv /\ [Next]_vars => Types'
  BY DbTypesStep, ProcTypesStep, LoopTypesStep DEF BaseInv, Types
<1> QED
  BY <1>1, JobNamedStep DEF BaseInv

\* BaseInv holds initially: no process has been started.
LEMMA InitBase == Init => BaseInv
BY InitTypes DEF BaseInv, JobNamed, Init

-----------------------------------------------------------------------------
(* One trainer of a run, and no more of them than --workers *)

\* A worker past its claim holds the claim on its run.  (A lost connection
\* would end the claim and leave the worker.)
HeldInv == \A p \in Procs : PastClaim(p) => holder[job[p]] = p

Held == {n \in Names : holder[n] # Nobody}

TrainersInv == BaseInv /\ HeldInv /\ CapacityHeld

\* Finite sets: no more in a smaller one, at most one more after one was added.
LEMMA FiniteSetsGrow ==
    ASSUME NEW U, IsFiniteSet(U), NEW S \in SUBSET U, NEW T \in SUBSET U
    PROVE  /\ IsFiniteSet(S) /\ Cardinality(S) \in Nat
           /\ T \subseteq S => Cardinality(T) <= Cardinality(S)
           /\ \A n : T \subseteq S \cup {n} => Cardinality(T) <= Cardinality(S) + 1
<1>1. IsFiniteSet(S) /\ IsFiniteSet(T)
  BY FS_Subset
<1>2. Cardinality(S) \in Nat /\ Cardinality(T) \in Nat
  BY <1>1, FS_CardinalityType
<1>3. T \subseteq S => Cardinality(T) <= Cardinality(S)
  BY <1>1, FS_Subset
<1>4. ASSUME NEW n, T \subseteq S \cup {n} PROVE Cardinality(T) <= Cardinality(S) + 1
  <2>1. /\ IsFiniteSet(S \cup {n})
        /\ Cardinality(S \cup {n}) = IF n \in S THEN Cardinality(S) ELSE Cardinality(S) + 1
    BY <1>1, FS_AddElement
  <2>2. Cardinality(T) <= Cardinality(S \cup {n})
    BY <1>4, <2>1, FS_Subset
  <2>3. Cardinality(S \cup {n}) \in Nat
    BY <2>1, FS_CardinalityType
  <2> QED
    BY <1>2, <2>1, <2>2, <2>3
<1> QED
  BY <1>1, <1>2, <1>3, <1>4

\* A claim ends only with its worker.
LEMMA HeldStep ==
    ASSUME "lost" \notin Faults
    PROVE  TrainersInv /\ [Next]_vars => HeldInv'
<1> SUFFICES ASSUME TrainersInv, [Next]_vars PROVE HeldInv'
  OBVIOUS
<1> USE QueueAssumption DEF TrainersInv, BaseInv, JobNamed, Types, ProcTypes, HeldInv, PastClaim,
         Training, Alive, dbVars, procVars, planVars, attemptVars, loopVars
<1>1. ASSUME NEW p \in Procs, WorkerStep(p) PROVE HeldInv'
  <2> UNCHANGED <<sched, planVars, attemptVars, loopVars>>
    BY <1>1 DEF WorkerStep
  <2>1. CASE WorkerClaims(p)
    <3>1. CASE CanClaim(job[p], limit[p])
      BY <2>1, <3>1 DEF WorkerClaims, CanClaim, Exit
    <3>2. CASE ~ CanClaim(job[p], limit[p])
      BY <2>1, <3>2 DEF WorkerClaims, Exit
    <3> QED
      BY <3>1, <3>2
  <2>2. CASE WorkerStartupFails(p)
    BY <2>2 DEF WorkerStartupFails, Exit
  <2>3. CASE WorkerChecks(p)
    BY <2>3 DEF WorkerChecks, Exit, Becomes
  <2>4. CASE WorkerCreatesRun(p)
    BY <2>4 DEF WorkerCreatesRun, Becomes
  <2>5. CASE WorkerMarksRunning(p)
    BY <2>5 DEF WorkerMarksRunning, Becomes
  <2>6. CASE WorkerCompletesRun(p)
    BY <2>6 DEF WorkerCompletesRun, Becomes
  <2>7. CASE WorkerFinishes(p)
    BY <2>7 DEF WorkerFinishes, Becomes
  <2>8. CASE WorkerTrainingFails(p)
    BY <2>8 DEF WorkerTrainingFails, FailRun
  <2>9. CASE WorkerEnds(p)
    BY <2>9 DEF WorkerEnds, Exit
  <2>10. CASE WorkerInterrupted(p)
    BY <2>10 DEF WorkerInterrupted, Exit, FailRun
  <2>11. CASE WatcherFires(p)
    BY <2>11 DEF WatcherFires
  <2> QED
    BY <1>1, <2>1, <2>2, <2>3, <2>4, <2>5, <2>6, <2>7, <2>8, <2>9, <2>10, <2>11 DEF WorkerStep
<1>2. ASSUME SchedulerStep PROVE HeldInv'
  <2>1. CASE Start \/ Classify \/ Top \/ Repair \/ Choose \/ Attach \/ Register \/ EndTurn
         \/ StopChildren \/ ChildrenReaped \/ Finished
    BY <2>1 DEF Start, Classify, Top, Down, Repair, Unwind, Choose, Attach, Register, EndTurn,
           StopChildren, ChildrenReaped, Finished
  <2>2. ASSUME NEW n \in Names, Poll(n) PROVE HeldInv'
    BY <2>2 DEF Poll, Reap
  <2>3. ASSUME NEW n \in Names, FinalReconcile(n) PROVE HeldInv'
    BY <2>3 DEF FinalReconcile, Reap
  <2>4. ASSUME NEW n \in Names, Preflight(n) PROVE HeldInv'
    BY <2>4 DEF Preflight, Down
  <2>5. ASSUME NEW temp \in Temps, Sample(temp) PROVE HeldInv'
    BY <2>5 DEF Sample, Unwind, Down
  <2>6. ASSUME NEW p \in Procs, Spawn(p) PROVE HeldInv'
    BY <2>6 DEF Spawn
  <2> QED
    BY <1>2, <2>1, <2>2, <2>3, <2>4, <2>5, <2>6 DEF SchedulerStep
<1>3. ASSUME Environment PROVE HeldInv'
  <2>1. CASE KillChildren
    BY <2>1 DEF KillChildren, Die
  <2>2. CASE Interrupt \/ InterruptAgain \/ Crash
    BY <2>2 DEF Interrupt, Unwind, Down, InterruptAgain, Crash
  <2>3. ASSUME NEW n \in Names, SessionEnds(n) PROVE HeldInv'
    BY <2>3 DEF SessionEnds
  <2>4. ASSUME NEW n \in Names, ConnectionLost(n) PROVE HeldInv'
    BY <2>4 DEF ConnectionLost
  <2>5. ASSUME NEW n \in Names, Recover(n) \/ UserStep(n) PROVE HeldInv'
    BY <2>5 DEF Recover, UserStep
  <2>6. ASSUME NEW p \in Procs, WorkerKilled(p) PROVE HeldInv'
    BY <2>6 DEF WorkerKilled, Die
  <2>7. ASSUME NEW p \in Procs, OrphanReaped(p) PROVE HeldInv'
    BY <2>7 DEF OrphanReaped
  <2> QED
    BY <1>3, <2>1, <2>2, <2>3, <2>4, <2>5, <2>6, <2>7 DEF Environment
<1>4. CASE UNCHANGED vars
  BY <1>4 DEF vars
<1> QED
  BY <1>1, <1>2, <1>3, <1>4 DEF Next

\* What a step may do to the workers past their claim: none is new, or one that
\* found room under the limit it was started with.
Kept(p) == PastClaim(p)' => PastClaim(p) /\ limit'[p] = limit[p]
ClaimedChange ==
    \/ \A p \in Procs : Kept(p)
    \/ \E q \in Procs :
          /\ limit'[q] = limit[q] /\ Occupied < limit[q]
          /\ \A p \in Procs \ {q} : Kept(p)

\* Only a worker that may claim goes past it.
LEMMA ClaimedStep == BaseInv /\ [Next]_vars => ClaimedChange
<1> SUFFICES ASSUME BaseInv, [Next]_vars PROVE ClaimedChange
  OBVIOUS
<1> USE QueueAssumption DEF ClaimedChange, Kept, PastClaim, Training, BaseInv, Types, ProcTypes, dbVars, procVars, planVars,
         attemptVars, loopVars
<1>1. ASSUME NEW p \in Procs, WorkerStep(p) PROVE ClaimedChange
  <2> UNCHANGED <<sched, planVars, attemptVars, loopVars>>
    BY <1>1 DEF WorkerStep
  <2>1. CASE WorkerClaims(p)
    BY <2>1 DEF WorkerClaims, CanClaim, Exit, JobNamed
  <2>2. CASE WorkerStartupFails(p)
    BY <2>2 DEF WorkerStartupFails, Exit
  <2>3. CASE WorkerChecks(p)
    BY <2>3 DEF WorkerChecks, Exit, Becomes
  <2>4. CASE WorkerCreatesRun(p)
    BY <2>4 DEF WorkerCreatesRun, Becomes
  <2>5. CASE WorkerMarksRunning(p)
    BY <2>5 DEF WorkerMarksRunning, Becomes
  <2>6. CASE WorkerCompletesRun(p)
    BY <2>6 DEF WorkerCompletesRun, Becomes
  <2>7. CASE WorkerFinishes(p)
    BY <2>7 DEF WorkerFinishes, Becomes
  <2>8. CASE WorkerTrainingFails(p)
    BY <2>8 DEF WorkerTrainingFails, FailRun
  <2>9. CASE WorkerEnds(p)
    BY <2>9 DEF WorkerEnds, Exit
  <2>10. CASE WorkerInterrupted(p)
    BY <2>10 DEF WorkerInterrupted, Exit, FailRun
  <2>11. CASE WatcherFires(p)
    BY <2>11 DEF WatcherFires
  <2> QED
    BY <1>1, <2>1, <2>2, <2>3, <2>4, <2>5, <2>6, <2>7, <2>8, <2>9, <2>10, <2>11 DEF WorkerStep
<1>2. ASSUME SchedulerStep PROVE ClaimedChange
  <2>1. CASE Start \/ Classify \/ Top \/ Repair \/ Choose \/ Attach \/ Register \/ EndTurn
         \/ StopChildren \/ ChildrenReaped \/ Finished
    BY <2>1 DEF Start, Classify, Top, Down, Repair, Unwind, Choose, Attach, Register, EndTurn,
           StopChildren, ChildrenReaped, Finished
  <2>2. ASSUME NEW n \in Names, Poll(n) PROVE ClaimedChange
    BY <2>2 DEF Poll, Reap
  <2>3. ASSUME NEW n \in Names, FinalReconcile(n) PROVE ClaimedChange
    BY <2>3 DEF FinalReconcile, Reap
  <2>4. ASSUME NEW n \in Names, Preflight(n) PROVE ClaimedChange
    BY <2>4 DEF Preflight, Down
  <2>5. ASSUME NEW temp \in Temps, Sample(temp) PROVE ClaimedChange
    BY <2>5 DEF Sample, Unwind, Down
  <2>6. ASSUME NEW p \in Procs, Spawn(p) PROVE ClaimedChange
    BY <2>6 DEF Spawn
  <2> QED
    BY <1>2, <2>1, <2>2, <2>3, <2>4, <2>5, <2>6 DEF SchedulerStep
<1>3. ASSUME Environment PROVE ClaimedChange
  <2>1. CASE KillChildren
    BY <2>1 DEF KillChildren, Die
  <2>2. CASE Interrupt \/ InterruptAgain \/ Crash
    BY <2>2 DEF Interrupt, Unwind, Down, InterruptAgain, Crash
  <2>3. ASSUME NEW n \in Names, SessionEnds(n) PROVE ClaimedChange
    BY <2>3 DEF SessionEnds
  <2>4. ASSUME NEW n \in Names, ConnectionLost(n) PROVE ClaimedChange
    BY <2>4 DEF ConnectionLost
  <2>5. ASSUME NEW n \in Names, Recover(n) \/ UserStep(n) PROVE ClaimedChange
    BY <2>5 DEF Recover, UserStep
  <2>6. ASSUME NEW p \in Procs, WorkerKilled(p) PROVE ClaimedChange
    BY <2>6 DEF WorkerKilled, Die
  <2>7. ASSUME NEW p \in Procs, OrphanReaped(p) PROVE ClaimedChange
    BY <2>7 DEF OrphanReaped
  <2> QED
    BY <1>3, <2>1, <2>2, <2>3, <2>4, <2>5, <2>6, <2>7 DEF Environment
<1>4. CASE UNCHANGED vars
  BY <1>4 DEF vars
<1> QED
  BY <1>1, <1>2, <1>3, <1>4 DEF Next

Past == {p \in Procs : PastClaim(p)}
Within(k) == {p \in Procs : PastClaim(p) /\ limit[p] <= k}

\* The workers past their claim are no more than the claims: each has one of its own.
LEMMA PastHasClaims ==
    ASSUME TrainersInv
    PROVE  /\ IsFiniteSet(Past) /\ Cardinality(Past) \in Nat
           /\ Occupied \in Nat /\ Cardinality(Past) <= Occupied
<1> DEFINE f == [p \in Past |-> job[p]]
<1>1. f \in [Past -> Held]
  BY QueueAssumption
  DEF TrainersInv, BaseInv, JobNamed, HeldInv, PastClaim, Training, Held, Past
<1>2. \A p, q \in Past : f[p] = f[q] => p = q
  BY DEF TrainersInv, HeldInv, Past
<1>3. f \in Injection(Past, Held)
  BY <1>1, <1>2 DEF Injection, IsInjective
<1>4. Held \in SUBSET Names /\ Occupied = Cardinality(Held)
  BY DEF Held, Occupied
<1>5. IsFiniteSet(Held) /\ Cardinality(Held) \in Nat
  BY <1>4, QueueAssumption, FS_Subset, FS_CardinalityType
<1>6. IsFiniteSet(Past) /\ Cardinality(Past) <= Cardinality(Held)
  BY <1>3, <1>5, FS_Injection
<1>7. Cardinality(Past) \in Nat
  BY <1>6, FS_CardinalityType
<1> QED
  BY <1>4, <1>5, <1>6, <1>7

\* So those of every limit stay within it: the one that passes its claim finds
\* fewer workers past theirs than its own limit.
LEMMA CapStep == TrainersInv /\ [Next]_vars => CapacityHeld'
<1> SUFFICES ASSUME TrainersInv, [Next]_vars, NEW k \in WorkerLimits
             PROVE  Cardinality(Within(k)') <= k
  BY DEF CapacityHeld, Within
<1>1. k \in Nat
  BY QueueAssumption
<1>2. IsFiniteSet(Procs) /\ Within(k) \in SUBSET Procs /\ Within(k)' \in SUBSET Procs /\ Past \in SUBSET Procs
  BY QueueAssumption DEF Within, Past
<1>3. Cardinality(Within(k)) <= k /\ Cardinality(Within(k)) \in Nat
  BY <1>2, FiniteSetsGrow DEF TrainersInv, CapacityHeld, Within
<1>4. Cardinality(Within(k)') \in Nat
  BY <1>2, FiniteSetsGrow
<1>5. CASE Within(k)' \subseteq Within(k)
  <2>1. Cardinality(Within(k)') <= Cardinality(Within(k))
    BY <1>2, <1>5, FiniteSetsGrow
  <2> QED
    BY <1>1, <1>3, <1>4, <2>1
<1>6. ASSUME NEW q \in Procs, limit[q] <= k, Occupied < limit[q], Within(k)' \subseteq Past \cup {q}
      PROVE  Cardinality(Within(k)') <= k
  <2>1. Cardinality(Within(k)') <= Cardinality(Past) + 1
    BY <1>2, <1>6, FiniteSetsGrow
  <2>2. limit[q] \in Nat
    <3>1. limit[q] \in WorkerLimits \cup {0}
      BY DEF TrainersInv, BaseInv, Types, ProcTypes
    <3>2. WorkerLimits \subseteq {1, 2, 4}
      BY QueueAssumption
    <3>3. limit[q] \in {0, 1, 2, 4}
      BY <3>1, <3>2
    <3> QED
      BY <3>3
  <2> QED
    BY <1>1, <1>4, <1>6, <2>1, <2>2, PastHasClaims
<1>7. ClaimedChange
  BY ClaimedStep DEF TrainersInv
<1>8. CASE \A p \in Procs : Kept(p)
  BY <1>5, <1>8 DEF Within, Kept
<1>9. ASSUME NEW q \in Procs, limit'[q] = limit[q], Occupied < limit[q],
             \A p \in Procs \ {q} : Kept(p)
      PROVE  Cardinality(Within(k)') <= k
  <2>1. CASE limit[q] <= k
    <3>1. Within(k)' \subseteq Past \cup {q}
      BY <1>9 DEF Within, Past, Kept
    <3> QED
      BY <1>6, <1>9, <2>1, <3>1
  <2>2. CASE ~ (limit[q] <= k)
    BY <1>5, <1>9, <2>2 DEF Within, Kept
  <2> QED
    BY <2>1, <2>2
<1> QED
  BY <1>7, <1>8, <1>9 DEF ClaimedChange

\* A worker past its claim is the only one of its run.
LEMMA TrainersAreBounded == TrainersInv => TrainersBounded
BY DEF TrainersInv, HeldInv, OneTrainer, PastClaim, TrainersBounded

\* No claim is held initially.
LEMMA InitTrainers == Init => TrainersInv
<1> SUFFICES ASSUME Init PROVE TrainersInv
  OBVIOUS
<1>1. HeldInv
  BY DEF Init, HeldInv, PastClaim, Training
<1>2. CapacityHeld
  <2> SUFFICES ASSUME NEW k \in WorkerLimits PROVE Cardinality(Within(k)) <= k
    BY DEF CapacityHeld, Within
  <2>1. Within(k) = {}
    BY DEF Init, Within, PastClaim, Training
  <2> QED
    BY <2>1, QueueAssumption, FS_EmptySet
<1> QED
  BY <1>1, <1>2, InitBase DEF TrainersInv

\* Unless a claim's connection can be lost under its worker, no run ever has
\* two trainers, and never more than k workers started with --workers k or less
\* are past their claim, whatever --workers each scheduler was given: with
\* any kills and crashes, any number of names, processes and restarts.
THEOREM BoundedTrainers ==
    ASSUME "lost" \notin Faults
    PROVE  Spec => []TrainersBounded
<1>1. TrainersInv /\ [Next]_vars => TrainersInv'
  <2>1. TrainersInv /\ [Next]_vars => BaseInv'
    BY BaseStep DEF TrainersInv
  <2> QED
    BY <2>1, HeldStep, CapStep DEF TrainersInv
<1> QED
  BY InitTrainers, <1>1, TrainersAreBounded, PTL DEF Spec

-----------------------------------------------------------------------------
(* Completed runs and their dependents *)

\* A step takes no completed run back.
StayCompleted == \A n \in Names : row[n] = "completed" => row'[n] = "completed"

\* No action takes a completed run back.
LEMMA CompletedStep == Types /\ [Next]_vars => StayCompleted
<1> SUFFICES ASSUME Types, [Next]_vars PROVE StayCompleted
  OBVIOUS
<1> USE DEF StayCompleted, Types, DbTypes, Unfinished, dbVars, procVars, planVars, attemptVars,
         loopVars
<1>1. ASSUME NEW p \in Procs, WorkerStep(p) PROVE StayCompleted
  <2> UNCHANGED <<sched, planVars, attemptVars, loopVars>>
    BY <1>1 DEF WorkerStep
  <2>1. CASE WorkerCreatesRun(p)
    BY <2>1 DEF WorkerCreatesRun
  <2>2. CASE WorkerMarksRunning(p)
    BY <2>2 DEF WorkerMarksRunning
  <2>3. CASE WorkerCompletesRun(p)
    BY <2>3 DEF WorkerCompletesRun
  <2>4. CASE WorkerTrainingFails(p)
    BY <2>4 DEF WorkerTrainingFails, FailRun
  <2>5. CASE WorkerEnds(p)
    BY <2>5 DEF WorkerEnds, MarkAbandoned
  <2>6. CASE WorkerInterrupted(p)
    BY <2>6 DEF WorkerInterrupted, FailRun
  <2>7. CASE WorkerClaims(p) \/ WorkerStartupFails(p) \/ WorkerChecks(p) \/ WorkerFinishes(p)
         \/ WatcherFires(p)
    BY <2>7 DEF WorkerClaims, WorkerStartupFails, WorkerChecks, WorkerFinishes, WatcherFires
  <2> QED
    BY <1>1, <2>1, <2>2, <2>3, <2>4, <2>5, <2>6, <2>7 DEF WorkerStep
<1>2. ASSUME SchedulerStep PROVE StayCompleted
  <2>1. CASE Repair
    BY <2>1 DEF Repair, Reconciled, ReconcileRaises, MarkAbandoned, Unwind, Down
  <2>2. CASE Start \/ Classify \/ Top \/ Choose \/ Attach \/ Register \/ EndTurn \/ StopChildren
         \/ ChildrenReaped \/ Finished
    BY <2>2 DEF Start, Classify, Top, Down, Choose, Attach, Register, EndTurn, StopChildren,
           ChildrenReaped, Finished
  <2>3. ASSUME NEW n \in Names, Preflight(n) PROVE StayCompleted
    BY <2>3 DEF Preflight, Down
  <2>4. ASSUME NEW n \in Names, FinalReconcile(n) PROVE StayCompleted
    BY <2>4 DEF FinalReconcile, Reconciled, ReconcileRaises, MarkAbandoned
  <2>5. ASSUME NEW n \in Names, Poll(n) PROVE StayCompleted
    BY <2>5 DEF Poll
  <2>6. ASSUME NEW temp \in Temps, Sample(temp) PROVE StayCompleted
    BY <2>6 DEF Sample, Unwind, Down
  <2>7. ASSUME NEW p \in Procs, Spawn(p) PROVE StayCompleted
    BY <2>7 DEF Spawn
  <2> QED
    BY <1>2, <2>1, <2>2, <2>3, <2>4, <2>5, <2>6, <2>7 DEF SchedulerStep
<1>3. ASSUME Environment PROVE StayCompleted
  <2>1. CASE Interrupt \/ InterruptAgain \/ Crash \/ KillChildren
    BY <2>1 DEF Interrupt, Unwind, Down, InterruptAgain, Crash, KillChildren, Die
  <2>2. ASSUME NEW n \in Names, Recover(n) PROVE StayCompleted
    BY <2>2 DEF Recover, MarkAbandoned
  <2>3. ASSUME NEW n \in Names, UserStep(n) PROVE StayCompleted
    BY <2>3 DEF UserStep
  <2>4. ASSUME NEW n \in Names, SessionEnds(n) \/ ConnectionLost(n) PROVE StayCompleted
    BY <2>4 DEF SessionEnds, ConnectionLost
  <2>5. ASSUME NEW p \in Procs, WorkerKilled(p) \/ OrphanReaped(p) PROVE StayCompleted
    BY <2>5 DEF WorkerKilled, Die, OrphanReaped
  <2> QED
    BY <1>3, <2>1, <2>2, <2>3, <2>4, <2>5 DEF Environment
<1>4. CASE UNCHANGED vars
  BY <1>4 DEF vars
<1> QED
  BY <1>1, <1>2, <1>3, <1>4 DEF Next

\* A worker that may create its run's row has found its source completed.
SourceReady == \A p \in Procs : stage[p] = "train" => Runnable(job[p], row)

DependencyInv == BaseInv /\ SourceReady /\ DependencyOrder

\* What the worker found stays true.
LEMMA SourceReadyStep == DependencyInv /\ [Next]_vars => SourceReady'
<1> SUFFICES ASSUME DependencyInv, [Next]_vars PROVE SourceReady'
  OBVIOUS
<1> USE QueueAssumption DEF DependencyInv, BaseInv, JobNamed, Types, ProcTypes, SourceReady,
         Runnable, dbVars, procVars, planVars, attemptVars, loopVars
<1> \A m \in Names : row[m] = "completed" => row'[m] = "completed"
  BY CompletedStep DEF StayCompleted, DependencyInv, BaseInv
<1>1. ASSUME NEW p \in Procs, WorkerStep(p) PROVE SourceReady'
  <2> UNCHANGED <<sched, planVars, attemptVars, loopVars>>
    BY <1>1 DEF WorkerStep
  <2>1. CASE WorkerClaims(p)
    BY <2>1 DEF WorkerClaims, Exit
  <2>2. CASE WorkerStartupFails(p)
    BY <2>2 DEF WorkerStartupFails, Exit
  <2>3. CASE WorkerChecks(p)
    BY <2>3 DEF WorkerChecks, Exit, Becomes
  <2>4. CASE WorkerCreatesRun(p)
    BY <2>4 DEF WorkerCreatesRun, Becomes
  <2>5. CASE WorkerMarksRunning(p)
    BY <2>5 DEF WorkerMarksRunning, Becomes
  <2>6. CASE WorkerCompletesRun(p)
    BY <2>6 DEF WorkerCompletesRun, Becomes
  <2>7. CASE WorkerFinishes(p)
    BY <2>7 DEF WorkerFinishes, Becomes
  <2>8. CASE WorkerTrainingFails(p)
    BY <2>8 DEF WorkerTrainingFails, FailRun
  <2>9. CASE WorkerEnds(p)
    BY <2>9 DEF WorkerEnds, Exit
  <2>10. CASE WorkerInterrupted(p)
    BY <2>10 DEF WorkerInterrupted, Exit, FailRun
  <2>11. CASE WatcherFires(p)
    BY <2>11 DEF WatcherFires
  <2> QED
    BY <1>1, <2>1, <2>2, <2>3, <2>4, <2>5, <2>6, <2>7, <2>8, <2>9, <2>10, <2>11 DEF WorkerStep
<1>2. ASSUME SchedulerStep PROVE SourceReady'
  <2>1. CASE Start \/ Classify \/ Top \/ Repair \/ Choose \/ Attach \/ Register \/ EndTurn
         \/ StopChildren \/ ChildrenReaped \/ Finished
    BY <2>1 DEF Start, Classify, Top, Down, Repair, Unwind, Choose, Attach, Register, EndTurn,
           StopChildren, ChildrenReaped, Finished
  <2>2. ASSUME NEW n \in Names, Poll(n) PROVE SourceReady'
    BY <2>2 DEF Poll, Reap
  <2>3. ASSUME NEW n \in Names, FinalReconcile(n) PROVE SourceReady'
    BY <2>3 DEF FinalReconcile, Reap
  <2>4. ASSUME NEW n \in Names, Preflight(n) PROVE SourceReady'
    BY <2>4 DEF Preflight, Down
  <2>5. ASSUME NEW temp \in Temps, Sample(temp) PROVE SourceReady'
    BY <2>5 DEF Sample, Unwind, Down
  <2>6. ASSUME NEW p \in Procs, Spawn(p) PROVE SourceReady'
    BY <2>6 DEF Spawn
  <2> QED
    BY <1>2, <2>1, <2>2, <2>3, <2>4, <2>5, <2>6 DEF SchedulerStep
<1>3. ASSUME Environment PROVE SourceReady'
  <2>1. CASE KillChildren
    BY <2>1 DEF KillChildren, Die
  <2>2. CASE Interrupt \/ InterruptAgain \/ Crash
    BY <2>2 DEF Interrupt, Unwind, Down, InterruptAgain, Crash
  <2>3. ASSUME NEW n \in Names, Recover(n) \/ UserStep(n) \/ SessionEnds(n)
         \/ ConnectionLost(n) PROVE SourceReady'
    BY <2>3 DEF Recover, UserStep, SessionEnds, ConnectionLost
  <2>4. ASSUME NEW p \in Procs, WorkerKilled(p) PROVE SourceReady'
    BY <2>4 DEF WorkerKilled, Die
  <2>5. ASSUME NEW p \in Procs, OrphanReaped(p) PROVE SourceReady'
    BY <2>5 DEF OrphanReaped
  <2> QED
    BY <1>3, <2>1, <2>2, <2>3, <2>4, <2>5 DEF Environment
<1>4. CASE UNCHANGED vars
  BY <1>4 DEF vars
<1> QED
  BY <1>1, <1>2, <1>3, <1>4 DEF Next

\* A new row of a worker has its source completed; no completed source is lost.
LEMMA DependencyOrderStep == DependencyInv /\ [Next]_vars => DependencyOrder'
<1> SUFFICES ASSUME DependencyInv, [Next]_vars PROVE DependencyOrder'
  OBVIOUS
<1> USE QueueAssumption DEF DependencyInv, BaseInv, JobNamed, Types, ProcTypes, DbTypes,
         SourceReady, Runnable, DependencyOrder, dbVars, procVars, planVars, attemptVars, loopVars
<1> \A m \in Names : row[m] = "completed" => row'[m] = "completed"
  BY CompletedStep DEF StayCompleted, DependencyInv, BaseInv
<1>1. ASSUME NEW p \in Procs, WorkerStep(p) PROVE DependencyOrder'
  <2> UNCHANGED <<sched, planVars, attemptVars, loopVars>>
    BY <1>1 DEF WorkerStep
  <2>1. CASE WorkerCreatesRun(p)
    BY <2>1 DEF WorkerCreatesRun
  <2>2. CASE WorkerClaims(p) \/ WorkerStartupFails(p) \/ WorkerChecks(p) \/ WorkerMarksRunning(p)
         \/ WorkerCompletesRun(p) \/ WorkerFinishes(p) \/ WorkerTrainingFails(p) \/ WorkerEnds(p)
         \/ WorkerInterrupted(p) \/ WatcherFires(p)
    BY <2>2 DEF WorkerClaims, WorkerStartupFails, WorkerChecks, WorkerMarksRunning,
           WorkerCompletesRun, WorkerFinishes, WorkerTrainingFails, FailRun, WorkerEnds,
           WorkerInterrupted, WatcherFires
  <2> QED
    BY <1>1, <2>1, <2>2 DEF WorkerStep
<1>2. ASSUME SchedulerStep PROVE DependencyOrder'
  <2>1. CASE Start \/ Classify \/ Top \/ Repair \/ Choose \/ Attach \/ Register \/ EndTurn
         \/ StopChildren \/ ChildrenReaped \/ Finished
    BY <2>1 DEF Start, Classify, Top, Repair, Choose, Attach, Register, EndTurn, StopChildren,
           ChildrenReaped, Finished
  <2>2. ASSUME NEW n \in Names, Preflight(n) PROVE DependencyOrder'
    BY <2>2 DEF Preflight
  <2>3. ASSUME NEW n \in Names, Poll(n) \/ FinalReconcile(n) PROVE DependencyOrder'
    BY <2>3 DEF Poll, FinalReconcile
  <2>4. ASSUME NEW temp \in Temps, Sample(temp) PROVE DependencyOrder'
    BY <2>4 DEF Sample
  <2>5. ASSUME NEW p \in Procs, Spawn(p) PROVE DependencyOrder'
    BY <2>5 DEF Spawn
  <2> QED
    BY <1>2, <2>1, <2>2, <2>3, <2>4, <2>5 DEF SchedulerStep
<1>3. ASSUME Environment PROVE DependencyOrder'
  <2>1. CASE Interrupt \/ InterruptAgain \/ Crash \/ KillChildren
    BY <2>1 DEF Interrupt, InterruptAgain, Crash, KillChildren
  <2>2. ASSUME NEW n \in Names, UserStep(n) PROVE DependencyOrder'
    BY <2>2 DEF UserStep
  <2>3. ASSUME NEW n \in Names, Recover(n) \/ SessionEnds(n)
         \/ ConnectionLost(n) PROVE DependencyOrder'
    BY <2>3 DEF Recover, SessionEnds, ConnectionLost
  <2>4. ASSUME NEW p \in Procs, WorkerKilled(p) \/ OrphanReaped(p) PROVE DependencyOrder'
    BY <2>4 DEF WorkerKilled, OrphanReaped
  <2> QED
    BY <1>3, <2>1, <2>2, <2>3, <2>4 DEF Environment
<1>4. CASE UNCHANGED vars
  BY <1>4 DEF vars
<1> QED
  BY <1>1, <1>2, <1>3, <1>4 DEF Next

\* A run that a worker created has its source completed for as long as its row
\* exists, whatever goes wrong in the environment.
THEOREM DependencyOrderHolds == Spec => []DependencyOrder
<1>1. Init => DependencyInv
  BY InitBase, QueueAssumption DEF Init, DependencyInv, SourceReady, DependencyOrder, NoAttempt
<1>2. DependencyInv /\ [Next]_vars => DependencyInv'
  BY BaseStep, SourceReadyStep, DependencyOrderStep DEF DependencyInv
<1>3. DependencyInv => DependencyOrder
  BY DEF DependencyInv
<1> QED
  BY <1>1, <1>2, <1>3, PTL DEF Spec

-----------------------------------------------------------------------------
(* A success is a success *)

InLoop == {"top", "poll", "launch", "spawn", "attach", "register", "repair"}

\* The attempt being attached has a process, the one being registered is active.
AttachInv ==
    /\ sched \in {"attach", "register"} => child[2] \in Procs
    /\ sched = "register" => active[child[1]] = child[2]

\* What the scheduler read as completed is completed.
SnapInv == \A n \in Names : snap[n] = "completed" => row[n] = "completed"

\* Until a worker has failed, each planned run is completed, pending, active or
\* just being started or repaired.
PlanInv ==
    sched \in InLoop /\ ~ failed =>
        \A n \in plan :
            \/ row[n] = "completed"
            \/ n \in Range(pending)
            \/ active[n] # Nobody
            \/ sched \in {"spawn", "attach", "register", "repair"} /\ child[1] = n

\* A queue that is still at work has not reported success.
ResultInv == sched # "down" => result # "ok"

SuccessInv == BaseInv /\ AttachInv /\ SnapInv /\ PlanInv /\ ResultInv /\ SuccessMeansDone

\* Starting a worker goes through attach and register.
LEMMA AttachStep == BaseInv /\ AttachInv /\ [Next]_vars => AttachInv'
<1> SUFFICES ASSUME BaseInv /\ AttachInv, [Next]_vars PROVE AttachInv'
  OBVIOUS
<1> USE QueueAssumption DEF BaseInv, Types, AttemptTypes, AttachInv, dbVars, procVars, planVars,
         attemptVars, loopVars
<1>1. ASSUME NEW p \in Procs, WorkerStep(p) PROVE AttachInv'
  BY <1>1 DEF WorkerStep
<1>2. ASSUME SchedulerStep PROVE AttachInv'
  <2>1. CASE Top
    BY <2>1 DEF Top, Down
  <2>2. CASE Repair
    BY <2>2 DEF Repair, Unwind, Down
  <2>3. CASE Attach
    BY <2>3 DEF Attach
  <2>4. CASE EndTurn
    BY <2>4 DEF EndTurn, Down
  <2>5. CASE Start \/ Classify \/ Choose \/ Register \/ StopChildren \/ ChildrenReaped \/ Finished
    BY <2>5 DEF Start, Classify, Choose, Register, StopChildren, ChildrenReaped, Finished, Down
  <2>6. ASSUME NEW n \in Names, Preflight(n) PROVE AttachInv'
    BY <2>6 DEF Preflight, Down
  <2>7. ASSUME NEW n \in Names, Poll(n) PROVE AttachInv'
    BY <2>7 DEF Poll, Reap
  <2>8. ASSUME NEW n \in Names, FinalReconcile(n) PROVE AttachInv'
    BY <2>8 DEF FinalReconcile, Reap
  <2>9. ASSUME NEW temp \in Temps, Sample(temp) PROVE AttachInv'
    BY <2>9 DEF Sample, Unwind, Down
  <2>10. ASSUME NEW p \in Procs, Spawn(p) PROVE AttachInv'
    BY <2>10 DEF Spawn
  <2> QED
    BY <1>2, <2>1, <2>2, <2>3, <2>4, <2>5, <2>6, <2>7, <2>8, <2>9, <2>10 DEF SchedulerStep
<1>3. ASSUME Environment PROVE AttachInv'
  <2>1. CASE Interrupt
    BY <2>1 DEF Interrupt, Unwind, Down
  <2>2. CASE InterruptAgain \/ Crash \/ KillChildren
    BY <2>2 DEF InterruptAgain, Down, Crash, KillChildren, Die
  <2>3. ASSUME NEW n \in Names, Recover(n) \/ UserStep(n) \/ SessionEnds(n)
         \/ ConnectionLost(n) PROVE AttachInv'
    BY <2>3 DEF Recover, UserStep, SessionEnds, ConnectionLost
  <2>4. ASSUME NEW p \in Procs, WorkerKilled(p) \/ OrphanReaped(p) PROVE AttachInv'
    BY <2>4 DEF WorkerKilled, Die, OrphanReaped
  <2> QED
    BY <1>3, <2>1, <2>2, <2>3, <2>4 DEF Environment
<1>4. CASE UNCHANGED vars
  BY <1>4 DEF vars
<1> QED
  BY <1>1, <1>2, <1>3, <1>4 DEF Next

\* The snapshot is taken from the rows, and a completed run stays completed.
LEMMA SnapStep == SuccessInv /\ [Next]_vars => SnapInv'
<1> SUFFICES ASSUME SuccessInv, [Next]_vars PROVE SnapInv'
  OBVIOUS
<1> USE QueueAssumption DEF SuccessInv, BaseInv, Types, DbTypes, LoopTypes, SnapInv, NoRow, dbVars,
         procVars, planVars, attemptVars, loopVars
<1> \A m \in Names : row[m] = "completed" => row'[m] = "completed"
  BY CompletedStep DEF StayCompleted, SuccessInv, BaseInv
<1>1. ASSUME NEW p \in Procs, WorkerStep(p) PROVE SnapInv'
  BY <1>1 DEF WorkerStep
<1>2. ASSUME SchedulerStep PROVE SnapInv'
  <2>1. CASE Top
    BY <2>1 DEF Top, Down
  <2>2. CASE Repair
    BY <2>2 DEF Repair, Unwind, Down
  <2>3. CASE EndTurn
    BY <2>3 DEF EndTurn, Down
  <2>4. CASE Finished
    BY <2>4 DEF Finished, Down
  <2>5. CASE Start \/ Classify \/ Choose \/ Attach \/ Register \/ StopChildren \/ ChildrenReaped
    BY <2>5 DEF Start, Classify, Choose, Attach, Register, StopChildren, ChildrenReaped
  <2>6. ASSUME NEW n \in Names, Preflight(n) PROVE SnapInv'
    BY <2>6 DEF Preflight, Down
  <2>7. ASSUME NEW n \in Names, Poll(n) PROVE SnapInv'
    BY <2>7 DEF Poll
  <2>8. ASSUME NEW n \in Names, FinalReconcile(n) PROVE SnapInv'
    BY <2>8 DEF FinalReconcile
  <2>9. ASSUME NEW temp \in Temps, Sample(temp) PROVE SnapInv'
    BY <2>9 DEF Sample, Unwind, Down
  <2>10. ASSUME NEW p \in Procs, Spawn(p) PROVE SnapInv'
    BY <2>10 DEF Spawn
  <2> QED
    BY <1>2, <2>1, <2>2, <2>3, <2>4, <2>5, <2>6, <2>7, <2>8, <2>9, <2>10 DEF SchedulerStep
<1>3. ASSUME Environment PROVE SnapInv'
  <2>1. CASE Interrupt
    BY <2>1 DEF Interrupt, Unwind, Down
  <2>2. CASE InterruptAgain
    BY <2>2 DEF InterruptAgain, Down
  <2>3. CASE Crash
    BY <2>3 DEF Crash, Down
  <2>4. CASE KillChildren
    BY <2>4 DEF KillChildren, Die
  <2>5. ASSUME NEW n \in Names, Recover(n) \/ UserStep(n) \/ SessionEnds(n)
         \/ ConnectionLost(n) PROVE SnapInv'
    BY <2>5 DEF Recover, UserStep, SessionEnds, ConnectionLost
  <2>6. ASSUME NEW p \in Procs, WorkerKilled(p) \/ OrphanReaped(p) PROVE SnapInv'
    BY <2>6 DEF WorkerKilled, Die, OrphanReaped
  <2> QED
    BY <1>3, <2>1, <2>2, <2>3, <2>4, <2>5, <2>6 DEF Environment
<1>4. CASE UNCHANGED vars
  BY <1>4 DEF vars
<1> QED
  BY <1>1, <1>2, <1>3, <1>4 DEF Next

\* A planned run leaves the list only to be started, and the attempts only completed,
\* deferred or failed.
LEMMA PlanStep == SuccessInv /\ [Next]_vars => PlanInv'
<1> SUFFICES ASSUME SuccessInv, [Next]_vars PROVE PlanInv'
  OBVIOUS
<1> USE QueueAssumption DEF SuccessInv, BaseInv, Types, DbTypes, LoopTypes, AttemptTypes, PlanInv,
         InLoop, dbVars, procVars, planVars, attemptVars, loopVars
<1> \A m \in Names : row[m] = "completed" => row'[m] = "completed"
  BY CompletedStep DEF StayCompleted, SuccessInv, BaseInv
<1>1. ASSUME NEW p \in Procs, WorkerStep(p) PROVE PlanInv'
  BY <1>1 DEF WorkerStep
<1>2. ASSUME SchedulerStep PROVE PlanInv'
  <2>1. CASE Classify
    <3>1. plan' \subseteq Selected /\ pending' = Keep(Order, plan')
      BY <2>1 DEF Classify
    <3>2. Range(pending') = Selected \cap plan'
      BY <3>1, QueueAssumption, SelectedNames, KeepProperties
    <3> QED
      BY <3>1, <3>2
  <2>2. CASE Top
    BY <2>2 DEF Top, Down
  <2>3. CASE Repair
    BY <2>3 DEF Repair, Unwind, Down
  <2>4. CASE Choose
    <3>1. PICK i \in DOMAIN pending :
              /\ child' = <<pending[i], Nobody>>
              /\ pending' = Keep(pending, Names \ {pending[i]})
      BY <2>4 DEF Choose
    <3>2. Range(pending') = Range(pending) \cap (Names \ {pending[i]})
      BY <3>1, KeepProperties
    <3> QED
      BY <2>4, <3>1, <3>2 DEF Choose
  <2>5. CASE Attach
    BY <2>5 DEF Attach, AttachInv
  <2>6. CASE Register
    BY <2>6 DEF Register, AttachInv
  <2>7. CASE EndTurn
    BY <2>7 DEF EndTurn, Down
  <2>8. CASE Finished
    BY <2>8 DEF Finished, Down
  <2>9. CASE Start \/ StopChildren \/ ChildrenReaped
    BY <2>9 DEF Start, StopChildren, ChildrenReaped
  <2>10. ASSUME NEW n \in Names, Preflight(n) PROVE PlanInv'
    BY <2>10 DEF Preflight, Down
  <2>11. ASSUME NEW n \in Names, Poll(n) PROVE PlanInv'
    <3>1. Range(Append(pending, n)) = Range(pending) \cup {n}
      BY AppendRange
    <3>2. CASE stage[active[n]] # "exited"
      BY <2>11, <3>2 DEF Poll
    <3>3. CASE sched' = "repair"
      <4>1. /\ child'[1] = n /\ active' = [active EXCEPT ![n] = Nobody]
            /\ UNCHANGED <<row, plan, failed, pending>> /\ sched = "poll"
        BY <2>11, <3>3 DEF Poll, Reap
      <4> QED
        BY <3>3, <4>1
    <3>4. CASE stage[active[n]] = "exited" /\ sched' # "repair"
      <4>1. /\ pending' = IF code[active[n]] \in {75, 76} THEN Append(pending, n) ELSE pending
            /\ code[active[n]] \in {75, 76} \/ row[n] = "completed"
            /\ active' = [active EXCEPT ![n] = Nobody]
            /\ UNCHANGED <<row, plan, failed, sched>> /\ sched = "poll"
        BY <2>11, <3>4 DEF Poll, Reap
      <4> QED
        BY <3>1, <4>1
    <3> QED
      BY <3>2, <3>3, <3>4
  <2>12. ASSUME NEW n \in Names, FinalReconcile(n) PROVE PlanInv'
    BY <2>12 DEF FinalReconcile, Reap
  <2>13. ASSUME NEW temp \in Temps, Sample(temp) PROVE PlanInv'
    <3>1. CASE Unwind("error") \/ Down("failed")
      BY <3>1 DEF Unwind, Down
    <3>2. CASE ~ (Unwind("error") \/ Down("failed"))
      <4>1. Range(Keep(pending, {n \in Names : snap[n] # "completed"}))
                = Range(pending) \cap {n \in Names : snap[n] # "completed"}
        BY KeepProperties
      <4> QED
        BY <2>13, <3>2, <4>1 DEF Sample, SnapInv
    <3> QED
      BY <3>1, <3>2
  <2>14. ASSUME NEW p \in Procs, Spawn(p) PROVE PlanInv'
    BY <2>14 DEF Spawn
  <2> QED
    BY <1>2, <2>1, <2>2, <2>3, <2>4, <2>5, <2>6, <2>7, <2>8, <2>9, <2>10, <2>11, <2>12,
           <2>13, <2>14 DEF SchedulerStep
<1>3. ASSUME Environment PROVE PlanInv'
  <2>1. CASE Interrupt
    BY <2>1 DEF Interrupt, Unwind, Down
  <2>2. CASE InterruptAgain
    BY <2>2 DEF InterruptAgain, Down
  <2>3. CASE Crash
    BY <2>3 DEF Crash, Down
  <2>4. CASE KillChildren
    BY <2>4 DEF KillChildren, Die
  <2>5. ASSUME NEW n \in Names, Recover(n) \/ UserStep(n) \/ SessionEnds(n)
         \/ ConnectionLost(n) PROVE PlanInv'
    BY <2>5 DEF Recover, UserStep, SessionEnds, ConnectionLost
  <2>6. ASSUME NEW p \in Procs, WorkerKilled(p) \/ OrphanReaped(p) PROVE PlanInv'
    BY <2>6 DEF WorkerKilled, Die, OrphanReaped
  <2> QED
    BY <1>3, <2>1, <2>2, <2>3, <2>4, <2>5, <2>6 DEF Environment
<1>4. CASE UNCHANGED vars
  BY <1>4 DEF vars
<1> QED
  BY <1>1, <1>2, <1>3, <1>4 DEF Next

\* Success is reported only at the end of the loop, with nothing planned left.
LEMMA ResultStep == SuccessInv /\ [Next]_vars => ResultInv' /\ SuccessMeansDone'
<1> SUFFICES ASSUME SuccessInv, [Next]_vars PROVE ResultInv' /\ SuccessMeansDone'
  OBVIOUS
<1> USE QueueAssumption DEF SuccessInv, BaseInv, Types, DbTypes, LoopTypes, ResultInv,
         SuccessMeansDone, dbVars, procVars, planVars, attemptVars, loopVars
<1> \A m \in Names : row[m] = "completed" => row'[m] = "completed"
  BY CompletedStep DEF StayCompleted, SuccessInv, BaseInv
<1>1. ASSUME NEW p \in Procs, WorkerStep(p) PROVE ResultInv' /\ SuccessMeansDone'
  BY <1>1 DEF WorkerStep
<1>2. ASSUME SchedulerStep PROVE ResultInv' /\ SuccessMeansDone'
  <2>1. CASE Start
    BY <2>1 DEF Start
  <2>2. CASE Classify
    BY <2>2 DEF Classify
  <2>3. CASE Top
    <3>1. CASE pending = <<>> /\ ActiveNames = {} /\ ~ failed /\ sched = "top"
      <4>1. Range(pending) = {}
        BY <3>1 DEF Range
      <4>2. \A n \in plan : row[n] = "completed"
        BY <3>1, <4>1 DEF PlanInv, InLoop, ActiveNames
      <4> QED
        BY <2>3, <3>1, <4>2 DEF Top, Down
    <3>2. CASE ~ (pending = <<>> /\ ActiveNames = {} /\ ~ failed /\ sched = "top")
      BY <2>3, <3>2 DEF Top, Down
    <3> QED
      BY <3>1, <3>2
  <2>4. CASE Repair
    BY <2>4 DEF Repair, Unwind, Down
  <2>5. CASE EndTurn
    BY <2>5 DEF EndTurn, Down
  <2>6. CASE Finished
    BY <2>6 DEF Finished, Down
  <2>7. CASE Choose \/ Attach \/ Register \/ StopChildren \/ ChildrenReaped
    BY <2>7 DEF Choose, Attach, Register, StopChildren, ChildrenReaped
  <2>8. ASSUME NEW n \in Names, Preflight(n) PROVE ResultInv' /\ SuccessMeansDone'
    BY <2>8 DEF Preflight, Down
  <2>9. ASSUME NEW n \in Names, Poll(n) \/ FinalReconcile(n) PROVE ResultInv' /\ SuccessMeansDone'
    BY <2>9 DEF Poll, FinalReconcile
  <2>10. ASSUME NEW temp \in Temps, Sample(temp) PROVE ResultInv' /\ SuccessMeansDone'
    BY <2>10 DEF Sample, Unwind, Down
  <2>11. ASSUME NEW p \in Procs, Spawn(p) PROVE ResultInv' /\ SuccessMeansDone'
    BY <2>11 DEF Spawn
  <2> QED
    BY <1>2, <2>1, <2>2, <2>3, <2>4, <2>5, <2>6, <2>7, <2>8, <2>9, <2>10,
           <2>11 DEF SchedulerStep
<1>3. ASSUME Environment PROVE ResultInv' /\ SuccessMeansDone'
  <2>1. CASE Interrupt
    BY <2>1 DEF Interrupt, Unwind, Down
  <2>2. CASE InterruptAgain
    BY <2>2 DEF InterruptAgain, Down
  <2>3. CASE Crash
    BY <2>3 DEF Crash, Down
  <2>4. CASE KillChildren
    BY <2>4 DEF KillChildren, Die
  <2>5. ASSUME NEW n \in Names, Recover(n) \/ UserStep(n) \/ SessionEnds(n)
         \/ ConnectionLost(n) PROVE ResultInv' /\ SuccessMeansDone'
    BY <2>5 DEF Recover, UserStep, SessionEnds, ConnectionLost
  <2>6. ASSUME NEW p \in Procs, WorkerKilled(p)
         \/ OrphanReaped(p) PROVE ResultInv' /\ SuccessMeansDone'
    BY <2>6 DEF WorkerKilled, Die, OrphanReaped
  <2> QED
    BY <1>3, <2>1, <2>2, <2>3, <2>4, <2>5, <2>6 DEF Environment
<1>4. CASE UNCHANGED vars
  BY <1>4 DEF vars
<1> QED
  BY <1>1, <1>2, <1>3, <1>4 DEF Next

\* A queue that reports success has completed every run it planned, and no
\* later repair, retry, recovery or deletion takes a completed run back, whatever
\* goes wrong in the environment.
THEOREM SuccessIsTrue == Spec => SuccessHolds
<1>1. Init => SuccessInv
  <2> SUFFICES ASSUME Init PROVE SuccessInv
    OBVIOUS
  <2>1. BaseInv
    BY InitBase
  <2>2. AttachInv /\ PlanInv /\ ResultInv /\ SuccessMeansDone
    BY DEF Init, AttachInv, PlanInv, InLoop, ResultInv, SuccessMeansDone
  <2>3. SnapInv
    BY DEF Init, SnapInv, NoRow
  <2> QED
    BY <2>1, <2>2, <2>3 DEF SuccessInv
<1>2. SuccessInv /\ [Next]_vars => SuccessInv'
  <2>1. SuccessInv /\ [Next]_vars => BaseInv'
    BY BaseStep DEF SuccessInv
  <2> QED
    BY <2>1, AttachStep, SnapStep, PlanStep, ResultStep DEF SuccessInv
<1>3. SuccessInv => SuccessMeansDone
  BY DEF SuccessInv
<1>4. SuccessInv /\ [Next]_vars => [\A n \in Names : row[n] = "completed" => row'[n] = "completed"]_vars
  BY CompletedStep DEF StayCompleted, SuccessInv, BaseInv
<1> QED
  BY <1>1, <1>2, <1>3, <1>4, PTL DEF Spec, SuccessHolds, CompletedStays

-----------------------------------------------------------------------------
(* Nothing is started after a failure *)

\* The scheduler starts a worker only from a turn without a failure.
QuietInv == sched \in {"launch", "spawn", "attach", "register"} => ~ failed

\* Sample ends or drains a turn after a failure.
LEMMA QuietStep == QuietInv /\ [Next]_vars => QuietInv'
<1> SUFFICES ASSUME QuietInv, [Next]_vars PROVE QuietInv'
  OBVIOUS
<1> USE DEF QuietInv, dbVars, procVars, planVars, attemptVars, loopVars
<1>1. ASSUME NEW p \in Procs, WorkerStep(p) PROVE QuietInv'
  BY <1>1 DEF WorkerStep
<1>2. ASSUME SchedulerStep PROVE QuietInv'
  <2>1. CASE Top
    BY <2>1 DEF Top, Down
  <2>2. CASE Repair
    BY <2>2 DEF Repair, Unwind, Down
  <2>3. CASE EndTurn
    BY <2>3 DEF EndTurn, Down
  <2>4. CASE Finished
    BY <2>4 DEF Finished, Down
  <2>5. CASE Start \/ Classify \/ Choose \/ Attach \/ Register \/ StopChildren \/ ChildrenReaped
    BY <2>5 DEF Start, Classify, Choose, Attach, Register, StopChildren, ChildrenReaped
  <2>6. ASSUME NEW n \in Names, Preflight(n) PROVE QuietInv'
    BY <2>6 DEF Preflight, Down
  <2>7. ASSUME NEW n \in Names, Poll(n) PROVE QuietInv'
    BY <2>7 DEF Poll
  <2>8. ASSUME NEW n \in Names, FinalReconcile(n) PROVE QuietInv'
    BY <2>8 DEF FinalReconcile
  <2>9. ASSUME NEW temp \in Temps, Sample(temp) PROVE QuietInv'
    BY <2>9 DEF Sample, Unwind, Down
  <2>10. ASSUME NEW p \in Procs, Spawn(p) PROVE QuietInv'
    BY <2>10 DEF Spawn
  <2> QED
    BY <1>2, <2>1, <2>2, <2>3, <2>4, <2>5, <2>6, <2>7, <2>8, <2>9, <2>10 DEF SchedulerStep
<1>3. ASSUME Environment PROVE QuietInv'
  <2>1. CASE Interrupt
    BY <2>1 DEF Interrupt, Unwind, Down
  <2>2. CASE InterruptAgain
    BY <2>2 DEF InterruptAgain, Down
  <2>3. CASE Crash
    BY <2>3 DEF Crash, Down
  <2>4. CASE KillChildren
    BY <2>4 DEF KillChildren, Die
  <2>5. ASSUME NEW n \in Names, Recover(n) \/ UserStep(n) \/ SessionEnds(n)
         \/ ConnectionLost(n) PROVE QuietInv'
    BY <2>5 DEF Recover, UserStep, SessionEnds, ConnectionLost
  <2>6. ASSUME NEW p \in Procs, WorkerKilled(p) \/ OrphanReaped(p) PROVE QuietInv'
    BY <2>6 DEF WorkerKilled, Die, OrphanReaped
  <2> QED
    BY <1>3, <2>1, <2>2, <2>3, <2>4, <2>5, <2>6 DEF Environment
<1>4. CASE UNCHANGED vars
  BY <1>4 DEF vars
<1> QED
  BY <1>1, <1>2, <1>3, <1>4 DEF Next

\* No step starts a worker after a failure.
NoStart == failed => \A q \in Procs : stage[q] = "free" => stage'[q] = "free"

\* A free process becomes a worker only by Spawn.
LEMMA NoStartStep == QuietInv /\ Types /\ [Next]_vars => NoStart
<1> SUFFICES ASSUME QuietInv /\ Types, [Next]_vars PROVE NoStart
  OBVIOUS
<1> USE DEF NoStart, QuietInv, Types, ProcTypes, Alive, dbVars, procVars, planVars, attemptVars,
         loopVars
<1>1. ASSUME NEW p \in Procs, WorkerStep(p) PROVE NoStart
  <2> UNCHANGED <<sched, planVars, attemptVars, loopVars>>
    BY <1>1 DEF WorkerStep
  <2>1. CASE WorkerClaims(p)
    BY <2>1 DEF WorkerClaims, Exit
  <2>2. CASE WorkerStartupFails(p)
    BY <2>2 DEF WorkerStartupFails, Exit
  <2>3. CASE WorkerChecks(p)
    BY <2>3 DEF WorkerChecks, Exit, Becomes
  <2>4. CASE WorkerCreatesRun(p)
    BY <2>4 DEF WorkerCreatesRun, Becomes
  <2>5. CASE WorkerMarksRunning(p)
    BY <2>5 DEF WorkerMarksRunning, Becomes
  <2>6. CASE WorkerCompletesRun(p)
    BY <2>6 DEF WorkerCompletesRun, Becomes
  <2>7. CASE WorkerFinishes(p)
    BY <2>7 DEF WorkerFinishes, Becomes
  <2>8. CASE WorkerTrainingFails(p)
    BY <2>8 DEF WorkerTrainingFails, FailRun
  <2>9. CASE WorkerEnds(p)
    BY <2>9 DEF WorkerEnds, Exit
  <2>10. CASE WorkerInterrupted(p)
    BY <2>10 DEF WorkerInterrupted, Exit, FailRun
  <2>11. CASE WatcherFires(p)
    BY <2>11 DEF WatcherFires
  <2> QED
    BY <1>1, <2>1, <2>2, <2>3, <2>4, <2>5, <2>6, <2>7, <2>8, <2>9, <2>10, <2>11 DEF WorkerStep
<1>2. ASSUME SchedulerStep PROVE NoStart
  <2>1. CASE Top
    BY <2>1 DEF Top
  <2>2. CASE Repair
    BY <2>2 DEF Repair
  <2>3. CASE EndTurn
    BY <2>3 DEF EndTurn
  <2>4. CASE Finished
    BY <2>4 DEF Finished
  <2>5. CASE Start \/ Classify \/ Choose \/ Attach \/ Register \/ StopChildren \/ ChildrenReaped
    BY <2>5 DEF Start, Classify, Choose, Attach, Register, StopChildren, ChildrenReaped
  <2>6. ASSUME NEW n \in Names, Preflight(n) PROVE NoStart
    BY <2>6 DEF Preflight
  <2>7. ASSUME NEW n \in Names, Poll(n) PROVE NoStart
    BY <2>7 DEF Poll, Reap
  <2>8. ASSUME NEW n \in Names, FinalReconcile(n) PROVE NoStart
    BY <2>8 DEF FinalReconcile, Reap
  <2>9. ASSUME NEW temp \in Temps, Sample(temp) PROVE NoStart
    BY <2>9 DEF Sample
  <2>10. ASSUME NEW p \in Procs, Spawn(p) PROVE NoStart
    BY <2>10 DEF Spawn
  <2> QED
    BY <1>2, <2>1, <2>2, <2>3, <2>4, <2>5, <2>6, <2>7, <2>8, <2>9, <2>10 DEF SchedulerStep
<1>3. ASSUME Environment PROVE NoStart
  <2>1. CASE Interrupt
    BY <2>1 DEF Interrupt
  <2>2. CASE InterruptAgain
    BY <2>2 DEF InterruptAgain
  <2>3. CASE Crash
    BY <2>3 DEF Crash
  <2>4. CASE KillChildren
    BY <2>4 DEF KillChildren, Die
  <2>5. ASSUME NEW n \in Names, Recover(n) \/ UserStep(n) \/ SessionEnds(n)
         \/ ConnectionLost(n) PROVE NoStart
    BY <2>5 DEF Recover, UserStep, SessionEnds, ConnectionLost
  <2>6. ASSUME NEW p \in Procs, WorkerKilled(p) PROVE NoStart
    BY <2>6 DEF WorkerKilled, Die
  <2>7. ASSUME NEW p \in Procs, OrphanReaped(p) PROVE NoStart
    BY <2>7 DEF OrphanReaped
  <2> QED
    BY <1>3, <2>1, <2>2, <2>3, <2>4, <2>5, <2>6, <2>7 DEF Environment
<1>4. CASE UNCHANGED vars
  BY <1>4 DEF vars
<1> QED
  BY <1>1, <1>2, <1>3, <1>4 DEF Next

\* Once a worker has failed the queue starts no other, whatever goes wrong.
THEOREM NothingStartsAfterFailure == Spec => NothingAfterFailure
<1>1. Init => QuietInv /\ Types
  BY InitTypes DEF Init, QuietInv
<1>2. QuietInv /\ Types /\ [Next]_vars => (QuietInv /\ Types)'
  BY QuietStep, DbTypesStep, ProcTypesStep, LoopTypesStep DEF Types
<1>3. QuietInv /\ Types /\ [Next]_vars
          => [failed => \A p \in Procs : stage[p] = "free" => stage'[p] = "free"]_vars
  BY NoStartStep DEF NoStart
<1> QED
  BY <1>1, <1>2, <1>3, PTL DEF Spec, NothingAfterFailure

-----------------------------------------------------------------------------
(* The row of a live creator *)

\* Only queue workers create rows.
NoUser == user = {} /\ \A n \in Names : by[n] # User

\* A worker that has not created its row yet is not taken for the creator of
\* an unfinished one: its identity is new to that row.
CreatorInv ==
    \A p \in Procs :
        stage[p] \in {"start", "check", "train"} /\ by[job[p]] = p => row[job[p]] \notin Unfinished

LiveInv == TrainersInv /\ NoUser /\ CreatorInv

\* Without such a user, no row is hers.
LEMMA NoUserStep ==
    ASSUME "user" \notin Faults
    PROVE  LiveInv /\ [Next]_vars => NoUser'
<1> SUFFICES ASSUME LiveInv, [Next]_vars PROVE NoUser'
  OBVIOUS
<1> USE QueueAssumption DEF LiveInv, NoUser, dbVars, procVars, planVars, attemptVars, loopVars
<1>1. ASSUME NEW p \in Procs, WorkerStep(p) PROVE NoUser'
  <2> UNCHANGED <<sched, planVars, attemptVars, loopVars>>
    BY <1>1 DEF WorkerStep
  <2>1. CASE WorkerCreatesRun(p)
    BY <2>1 DEF WorkerCreatesRun, TrainersInv, BaseInv, Types, DbTypes
  <2>2. CASE WorkerClaims(p) \/ WorkerStartupFails(p) \/ WorkerChecks(p) \/ WorkerMarksRunning(p)
         \/ WorkerCompletesRun(p) \/ WorkerFinishes(p) \/ WorkerTrainingFails(p) \/ WorkerEnds(p)
         \/ WorkerInterrupted(p) \/ WatcherFires(p)
    BY <2>2 DEF WorkerClaims, WorkerStartupFails, WorkerChecks, WorkerMarksRunning,
           WorkerCompletesRun, WorkerFinishes, WorkerTrainingFails, FailRun, WorkerEnds,
           WorkerInterrupted, WatcherFires
  <2> QED
    BY <1>1, <2>1, <2>2 DEF WorkerStep
<1>2. ASSUME SchedulerStep PROVE NoUser'
  <2>1. CASE Start \/ Classify \/ Top \/ Repair \/ Choose \/ Attach \/ Register \/ EndTurn
         \/ StopChildren \/ ChildrenReaped \/ Finished
    BY <2>1 DEF Start, Classify, Top, Repair, Choose, Attach, Register, EndTurn, StopChildren,
           ChildrenReaped, Finished
  <2>2. ASSUME NEW n \in Names, Preflight(n) PROVE NoUser'
    BY <2>2 DEF Preflight, TrainersInv, BaseInv, Types, DbTypes
  <2>3. ASSUME NEW n \in Names, Poll(n) \/ FinalReconcile(n) PROVE NoUser'
    BY <2>3 DEF Poll, FinalReconcile
  <2>4. ASSUME NEW temp \in Temps, Sample(temp) PROVE NoUser'
    BY <2>4 DEF Sample
  <2>5. ASSUME NEW p \in Procs, Spawn(p) PROVE NoUser'
    BY <2>5 DEF Spawn
  <2> QED
    BY <1>2, <2>1, <2>2, <2>3, <2>4, <2>5 DEF SchedulerStep
<1>3. ASSUME Environment PROVE NoUser'
  <2>1. CASE Interrupt \/ InterruptAgain \/ Crash \/ KillChildren
    BY <2>1 DEF Interrupt, InterruptAgain, Crash, KillChildren
  <2>2. ASSUME NEW n \in Names, UserStep(n) PROVE NoUser'
    BY <2>2 DEF UserStep
  <2>3. ASSUME NEW n \in Names, Recover(n) \/ SessionEnds(n) \/ ConnectionLost(n) PROVE NoUser'
    BY <2>3 DEF Recover, SessionEnds, ConnectionLost
  <2>4. ASSUME NEW p \in Procs, WorkerKilled(p) \/ OrphanReaped(p) PROVE NoUser'
    BY <2>4 DEF WorkerKilled, OrphanReaped
  <2> QED
    BY <1>3, <2>1, <2>2, <2>3, <2>4 DEF Environment
<1>4. CASE UNCHANGED vars
  BY <1>4 DEF vars
<1> QED
  BY <1>1, <1>2, <1>3, <1>4 DEF Next

\* A worker starts on a name with no unfinished row of its own identity, and only its
\* own creation makes one.
LEMMA CreatorStep ==
    ASSUME "user" \notin Faults
    PROVE  LiveInv /\ [Next]_vars => CreatorInv'
<1> SUFFICES ASSUME LiveInv, [Next]_vars PROVE CreatorInv'
  OBVIOUS
<1> USE QueueAssumption DEF LiveInv, TrainersInv, BaseInv, Types, ProcTypes, DbTypes, JobNamed,
         CreatorInv, Unfinished, Alive, dbVars, procVars, planVars, attemptVars, loopVars
<1>1. ASSUME NEW p \in Procs, WorkerStep(p) PROVE CreatorInv'
  <2> UNCHANGED <<sched, planVars, attemptVars, loopVars>>
    BY <1>1 DEF WorkerStep
  <2>1. CASE WorkerClaims(p)
    BY <2>1 DEF WorkerClaims, Exit
  <2>2. CASE WorkerStartupFails(p)
    BY <2>2 DEF WorkerStartupFails, Exit
  <2>3. CASE WorkerChecks(p)
    BY <2>3 DEF WorkerChecks, Exit, Becomes
  <2>4. CASE WorkerCreatesRun(p)
    BY <2>4 DEF WorkerCreatesRun, Becomes
  <2>5. CASE WorkerMarksRunning(p)
    BY <2>5 DEF WorkerMarksRunning, Becomes
  <2>6. CASE WorkerCompletesRun(p)
    BY <2>6 DEF WorkerCompletesRun, Becomes
  <2>7. CASE WorkerFinishes(p)
    BY <2>7 DEF WorkerFinishes, Becomes
  <2>8. CASE WorkerTrainingFails(p)
    BY <2>8 DEF WorkerTrainingFails, FailRun
  <2>9. CASE WorkerEnds(p)
    BY <2>9 DEF WorkerEnds, Exit, MarkAbandoned
  <2>10. CASE WorkerInterrupted(p)
    BY <2>10 DEF WorkerInterrupted, Exit, FailRun
  <2>11. CASE WatcherFires(p)
    BY <2>11 DEF WatcherFires
  <2> QED
    BY <1>1, <2>1, <2>2, <2>3, <2>4, <2>5, <2>6, <2>7, <2>8, <2>9, <2>10, <2>11 DEF WorkerStep
<1>2. ASSUME SchedulerStep PROVE CreatorInv'
  <2>1. CASE Repair
    BY <2>1 DEF Repair, Reconciled, ReconcileRaises, MarkAbandoned, Unwind, Down
  <2>2. CASE Start \/ Classify \/ Top \/ Choose \/ Attach \/ Register \/ EndTurn \/ StopChildren
         \/ ChildrenReaped \/ Finished
    BY <2>2 DEF Start, Classify, Top, Down, Choose, Attach, Register, EndTurn, StopChildren,
           ChildrenReaped, Finished
  <2>3. ASSUME NEW n \in Names, Preflight(n) PROVE CreatorInv'
    BY <2>3 DEF Preflight, Down
  <2>4. ASSUME NEW n \in Names, Poll(n) PROVE CreatorInv'
    BY <2>4 DEF Poll, Reap
  <2>5. ASSUME NEW n \in Names, FinalReconcile(n) PROVE CreatorInv'
    BY <2>5 DEF FinalReconcile, Reconciled, ReconcileRaises, MarkAbandoned, Reap
  <2>6. ASSUME NEW temp \in Temps, Sample(temp) PROVE CreatorInv'
    BY <2>6 DEF Sample, Unwind, Down
  <2>7. ASSUME NEW p \in Procs, Spawn(p) PROVE CreatorInv'
    BY <2>7 DEF Spawn, Unused, AttemptTypes, Unfinished
  <2> QED
    BY <1>2, <2>1, <2>2, <2>3, <2>4, <2>5, <2>6, <2>7 DEF SchedulerStep
<1>3. ASSUME Environment PROVE CreatorInv'
  <2>1. CASE KillChildren
    BY <2>1 DEF KillChildren, Die
  <2>2. CASE Interrupt \/ InterruptAgain \/ Crash
    BY <2>2 DEF Interrupt, Unwind, Down, InterruptAgain, Crash
  <2>3. ASSUME NEW n \in Names, Recover(n) PROVE CreatorInv'
    BY <2>3 DEF Recover, MarkAbandoned
  <2>4. ASSUME NEW n \in Names, UserStep(n) PROVE CreatorInv'
    BY <2>4 DEF UserStep
  <2>5. ASSUME NEW n \in Names, SessionEnds(n) \/ ConnectionLost(n) PROVE CreatorInv'
    BY <2>5 DEF SessionEnds, ConnectionLost
  <2>6. ASSUME NEW p \in Procs, WorkerKilled(p) PROVE CreatorInv'
    BY <2>6 DEF WorkerKilled, Die
  <2>7. ASSUME NEW p \in Procs, OrphanReaped(p) PROVE CreatorInv'
    BY <2>7 DEF OrphanReaped
  <2> QED
    BY <1>3, <2>1, <2>2, <2>3, <2>4, <2>5, <2>6, <2>7 DEF Environment
<1>4. CASE UNCHANGED vars
  BY <1>4 DEF vars
<1> QED
  BY <1>1, <1>2, <1>3, <1>4 DEF Next

\* The live creator of an unfinished row holds the claim on its name.
LEMMA CreatorHolds ==
    ASSUME LiveInv, NEW n \in Names, CreatorAlive(n), row[n] \in Unfinished
    PROVE  by[n] \in Procs /\ stage[by[n]] \in Stages /\ holder[n] = by[n] /\ job[by[n]] = n
<1>1. by[n] \in Procs /\ Alive(by[n]) /\ job[by[n]] = n
  BY DEF CreatorAlive, LiveInv, NoUser
<1>2. stage[by[n]] \in Stages
  BY <1>1 DEF LiveInv, TrainersInv, BaseInv, Types, ProcTypes
<1>3. PastClaim(by[n])
  BY <1>1, <1>2 DEF LiveInv, CreatorInv, PastClaim, Training, Alive, Stages
<1> QED
  BY <1>1, <1>2, <1>3 DEF LiveInv, TrainersInv, HeldInv

\* A step that changes the unfinished row of a live creator is a step of its own.
OwnStep ==
    \A m \in Names :
        CreatorAlive(m) /\ row[m] \in Unfinished /\ row'[m] # row[m] =>
            by[m] \in Procs /\ stage'[by[m]] # stage[by[m]]

\* Whoever else would change the row needs the claim.
LEMMA OwnRowStep ==
    ASSUME "user" \notin Faults
    PROVE  LiveInv /\ [Next]_vars => OwnStep
<1> SUFFICES ASSUME LiveInv, [Next]_vars PROVE OwnStep
  OBVIOUS
<1> USE QueueAssumption, CreatorHolds DEF OwnStep, LiveInv, TrainersInv, BaseInv, Types, ProcTypes,
         DbTypes, JobNamed, Unfinished, dbVars, procVars, planVars, attemptVars, loopVars
<1>1. ASSUME NEW p \in Procs, WorkerStep(p) PROVE OwnStep
  <2> UNCHANGED <<sched, planVars, attemptVars, loopVars>>
    BY <1>1 DEF WorkerStep
  <2>1. CASE WorkerCreatesRun(p)
    BY <2>1 DEF WorkerCreatesRun, Becomes, CanClaim, Repairable
  <2>2. CASE WorkerMarksRunning(p)
    BY <2>2 DEF WorkerMarksRunning, Becomes, CanClaim, Repairable
  <2>3. CASE WorkerCompletesRun(p)
    BY <2>3 DEF WorkerCompletesRun, Becomes, CanClaim, Repairable
  <2>4. CASE WorkerTrainingFails(p)
    BY <2>4 DEF WorkerTrainingFails, FailRun, CanClaim, Repairable
  <2>5. CASE WorkerEnds(p)
    BY <2>5 DEF WorkerEnds, Exit, MarkAbandoned, CanClaim, Repairable
  <2>6. CASE WorkerInterrupted(p)
    BY <2>6 DEF WorkerInterrupted, Exit, FailRun, CanClaim, Repairable
  <2>7. CASE WorkerClaims(p) \/ WorkerStartupFails(p) \/ WorkerChecks(p) \/ WorkerFinishes(p)
         \/ WatcherFires(p)
    BY <2>7 DEF WorkerClaims, Exit, WorkerStartupFails, WorkerChecks, Becomes, WorkerFinishes,
           WatcherFires
  <2> QED
    BY <1>1, <2>1, <2>2, <2>3, <2>4, <2>5, <2>6, <2>7 DEF WorkerStep
<1>2. ASSUME SchedulerStep PROVE OwnStep
  <2>1. CASE Repair
    BY <2>1 DEF Repair, Reconciled, ReconcileRaises, MarkAbandoned, CanClaim, Repairable
  <2>2. CASE Start \/ Classify \/ Top \/ Choose \/ Attach \/ Register \/ EndTurn \/ StopChildren
         \/ ChildrenReaped \/ Finished
    BY <2>2 DEF Start, Classify, Top, Choose, Attach, Register, EndTurn, StopChildren,
           ChildrenReaped, Finished
  <2>3. ASSUME NEW n \in Names, Preflight(n) PROVE OwnStep
    BY <2>3 DEF Preflight, CanClaim, Repairable
  <2>4. ASSUME NEW n \in Names, FinalReconcile(n) PROVE OwnStep
    BY <2>4 DEF FinalReconcile, Reconciled, ReconcileRaises, MarkAbandoned, CanClaim, Repairable
  <2>5. ASSUME NEW n \in Names, Poll(n) PROVE OwnStep
    BY <2>5 DEF Poll
  <2>6. ASSUME NEW temp \in Temps, Sample(temp) PROVE OwnStep
    BY <2>6 DEF Sample
  <2>7. ASSUME NEW p \in Procs, Spawn(p) PROVE OwnStep
    BY <2>7 DEF Spawn
  <2> QED
    BY <1>2, <2>1, <2>2, <2>3, <2>4, <2>5, <2>6, <2>7 DEF SchedulerStep
<1>3. ASSUME Environment PROVE OwnStep
  <2>1. CASE Interrupt \/ InterruptAgain \/ Crash \/ KillChildren
    BY <2>1 DEF Interrupt, InterruptAgain, Crash, KillChildren, Die
  <2>2. ASSUME NEW n \in Names, Recover(n) PROVE OwnStep
    BY <2>2 DEF Recover, MarkAbandoned, CanClaim, Repairable
  <2>3. ASSUME NEW n \in Names, UserStep(n) PROVE OwnStep
    BY <2>3 DEF UserStep, CanClaim, Repairable
  <2>4. ASSUME NEW n \in Names, SessionEnds(n) \/ ConnectionLost(n) PROVE OwnStep
    BY <2>4 DEF SessionEnds, ConnectionLost
  <2>5. ASSUME NEW p \in Procs, WorkerKilled(p) \/ OrphanReaped(p) PROVE OwnStep
    BY <2>5 DEF WorkerKilled, Die, OrphanReaped
  <2> QED
    BY <1>3, <2>1, <2>2, <2>3, <2>4, <2>5 DEF Environment
<1>4. CASE UNCHANGED vars
  BY <1>4 DEF vars
<1> QED
  BY <1>1, <1>2, <1>3, <1>4 DEF Next

\* While the creator of a run is alive nobody else changes the run's status,
\* whatever is killed, unless a claim's connection is lost or a user
\* trains the configuration herself.
THEOREM LiveCreatorOwns ==
    ASSUME "lost" \notin Faults, "user" \notin Faults
    PROVE  Spec => LiveCreatorOwnsRow
<1>1. Init => LiveInv
  BY InitTrainers, QueueAssumption DEF Init, LiveInv, NoUser, CreatorInv, NoAttempt
<1>2. LiveInv /\ [Next]_vars => LiveInv'
  <2>1. LiveInv /\ [Next]_vars => TrainersInv'
    BY BaseStep, HeldStep, CapStep DEF LiveInv, TrainersInv
  <2> QED
    BY <2>1, NoUserStep, CreatorStep DEF LiveInv
<1>3. LiveInv /\ [Next]_vars
        => [\A n \in Names :
              CreatorAlive(n) /\ row[n] \in Unfinished /\ row'[n] # row[n] =>
                \/ by[n] \in Procs /\ stage'[by[n]] # stage[by[n]]
                \/ by[n] = User /\ (user' # user \/ row'[n] = "running")]_vars
  BY OwnRowStep DEF OwnStep
<1> QED
  BY <1>1, <1>2, <1>3, PTL DEF Spec, LiveCreatorOwnsRow

-----------------------------------------------------------------------------
(* Every attempt is accounted for *)

\* The worker that was just started and is not yet in `active`, or not yet on
\* record.
Attaching(n, p) == sched \in {"attach", "register"} /\ child = <<n, p>>

\* An active attempt is a process started for its name.
ActiveInv ==
    /\ \A n \in Names : active[n] # Nobody => stage[active[n]] # "free" /\ job[active[n]] = n
    /\ sched \in {"attach", "register"} => stage[child[2]] # "free" /\ job[child[2]] = child[1]

\* What holds in the scheduler's loop and at its end.
PlaceInv ==
    /\ sched \in {"down", "preflight"} => ActiveNames = {}
    /\ sched \in {"poll", "repair"} => todo \subseteq ActiveNames
    /\ sched \in {"spawn", "attach", "repair"} => active[child[1]] = Nobody
    /\ sched = "spawn" => snap[child[1]] = "none"
    /\ sched = "reconcile" => todo = ActiveNames /\ \A n \in todo : stage[active[n]] = "exited"

\* A worker belongs to an attempt of the scheduler, and the attempt to it.
OwnedInv ==
    \A p \in Procs : stage[p] # "free" => active[job[p]] = p \/ Attaching(job[p], p)

\* A queue worker left or is making the row.
Ours(n) == row[n] \in Unfinished /\ by[n] \in Procs

\* A name the scheduler read as free, and has not started since, has no
\* unfinished row of a worker; one that it is starting only a row of that worker.
FreshInv ==
    /\ sched \in InLoop \ {"top"} =>
        \A n \in Names : active[n] = Nobody /\ snap[n] = "none" /\ Ours(n) => Attaching(n, by[n])
    /\ sched \in {"attach", "register"} /\ Ours(child[1]) => by[child[1]] = child[2]

\* A worker's attempt is on disk; so is that of each unfinished row, which is
\* not older than the attempt.
RecordInv ==
    /\ \A p \in Procs : stage[p] # "free" => journal[job[p]] = p \/ Attaching(job[p], p)
    /\ \A n \in Names : Ours(n) => ~ older[n] /\ (journal[n] = by[n] \/ Attaching(n, by[n]))

EndInv == BaseInv /\ AttachInv /\ ActiveInv /\ PlaceInv /\ OwnedInv /\ FreshInv /\ RecordInv

\* The scheduler neither dies nor is interrupted where it cannot clean up.
Orderly == Faults \cap {"crash", "interrupt_attach", "interrupt_again"} = {}

\* A step of a worker leaves its name, and only changes stages of workers that
\* have not exited.
LEMMA WorkerKeeps ==
    ASSUME BaseInv, NEW p \in Procs, WorkerStep(p)
    PROVE  /\ job' = job
           /\ \A q \in Procs : /\ stage'[q] = "free" <=> stage[q] = "free"
                               /\ stage[q] = "exited" => stage'[q] = "exited"
           /\ UNCHANGED <<sched, planVars, attemptVars, loopVars>>
<1> USE DEF BaseInv, Types, ProcTypes
<1> UNCHANGED <<sched, planVars, attemptVars, loopVars>>
  BY DEF WorkerStep
<1>1. CASE WorkerClaims(p)
  BY <1>1 DEF WorkerClaims, Exit
<1>2. CASE WorkerStartupFails(p)
  BY <1>2 DEF WorkerStartupFails, Exit
<1>3. CASE WorkerChecks(p)
  BY <1>3 DEF WorkerChecks, Exit, Becomes
<1>4. CASE WorkerCreatesRun(p)
  BY <1>4 DEF WorkerCreatesRun, Becomes
<1>5. CASE WorkerMarksRunning(p)
  BY <1>5 DEF WorkerMarksRunning, Becomes
<1>6. CASE WorkerCompletesRun(p)
  BY <1>6 DEF WorkerCompletesRun, Becomes
<1>7. CASE WorkerFinishes(p)
  BY <1>7 DEF WorkerFinishes, Becomes
<1>8. CASE WorkerTrainingFails(p)
  BY <1>8 DEF WorkerTrainingFails, FailRun
<1>9. CASE WorkerEnds(p)
  BY <1>9 DEF WorkerEnds, Exit
<1>10. CASE WorkerInterrupted(p)
  BY <1>10 DEF WorkerInterrupted, Exit, FailRun
<1>11. CASE WatcherFires(p)
  BY <1>11 DEF WatcherFires
<1> QED
  BY <1>1, <1>2, <1>3, <1>4, <1>5, <1>6, <1>7, <1>8, <1>9, <1>10, <1>11 DEF WorkerStep

\* So do the deaths of workers.
LEMMA DieKeeps ==
    ASSUME BaseInv, NEW P \in SUBSET Procs, \A p \in P : Alive(p), Die(P)
    PROVE  /\ job' = job
           /\ \A q \in Procs : /\ stage'[q] = "free" <=> stage[q] = "free"
                               /\ stage[q] = "exited" => stage'[q] = "exited"
BY DEF Die, Alive, BaseInv, Types, ProcTypes

\* A process is freed only with its attempt.
LEMMA ActiveStep == EndInv /\ [Next]_vars => ActiveInv'
<1> SUFFICES ASSUME EndInv, [Next]_vars PROVE ActiveInv'
  OBVIOUS
<1> USE QueueAssumption DEF EndInv, BaseInv, Types, ProcTypes, AttemptTypes, JobNamed, AttachInv,
         NoAttempt, dbVars, procVars, planVars, attemptVars, loopVars, ActiveInv
<1>1. ASSUME NEW p \in Procs, WorkerStep(p) PROVE ActiveInv'
  BY <1>1, WorkerKeeps
<1>2. ASSUME SchedulerStep PROVE ActiveInv'
  <2>1. CASE Start
    BY <2>1 DEF Start
  <2>2. CASE Classify
    BY <2>2 DEF Classify
  <2>3. CASE Top
    BY <2>3 DEF Top, Down
  <2>4. CASE Repair
    BY <2>4 DEF Repair, Unwind, Down
  <2>5. CASE Choose
    BY <2>5 DEF Choose
  <2>6. CASE Attach
    BY <2>6 DEF Attach
  <2>7. CASE Register
    BY <2>7 DEF Register
  <2>8. CASE EndTurn
    BY <2>8 DEF EndTurn, Down
  <2>9. CASE StopChildren
    BY <2>9 DEF StopChildren
  <2>10. CASE ChildrenReaped
    BY <2>10 DEF ChildrenReaped
  <2>11. CASE Finished
    BY <2>11 DEF Finished, Down
  <2>12. ASSUME NEW n \in Names, Preflight(n) PROVE ActiveInv'
    BY <2>12 DEF Preflight, Down
  <2>13. ASSUME NEW n \in Names, Poll(n) PROVE ActiveInv'
    BY <2>13 DEF Poll, Reap
  <2>14. ASSUME NEW n \in Names, FinalReconcile(n) PROVE ActiveInv'
    BY <2>14 DEF FinalReconcile, Reap
  <2>15. ASSUME NEW temp \in Temps, Sample(temp) PROVE ActiveInv'
    BY <2>15 DEF Sample, Unwind, Down
  <2>16. ASSUME NEW p \in Procs, Spawn(p) PROVE ActiveInv'
    BY <2>16 DEF Spawn, Unused
  <2> QED
    BY <1>2, <2>1, <2>2, <2>3, <2>4, <2>5, <2>6, <2>7, <2>8, <2>9, <2>10, <2>11, <2>12,
           <2>13, <2>14, <2>15, <2>16 DEF SchedulerStep
<1>3. ASSUME Environment PROVE ActiveInv'
  <2>1. CASE Interrupt
    BY <2>1 DEF Interrupt, Unwind, Down
  <2>2. CASE InterruptAgain
    BY <2>2 DEF InterruptAgain, Down
  <2>3. CASE Crash
    BY <2>3 DEF Crash, Down
  <2>4. CASE KillChildren
    <3>1. PICK P \in SUBSET Procs : (\A p \in P : Alive(p)) /\ Die(P)
      BY <2>4 DEF KillChildren
    <3> QED
      BY <2>4, <3>1, DieKeeps DEF KillChildren
  <2>5. ASSUME NEW n \in Names, Recover(n) \/ UserStep(n) \/ SessionEnds(n)
         \/ ConnectionLost(n) PROVE ActiveInv'
    BY <2>5 DEF Recover, UserStep, SessionEnds, ConnectionLost
  <2>6. ASSUME NEW p \in Procs, WorkerKilled(p) PROVE ActiveInv'
    <3>1. Die({p}) /\ \A q \in {p} : Alive(q)
      BY <2>6 DEF WorkerKilled
    <3> QED
      BY <2>6, <3>1, DieKeeps DEF WorkerKilled
  <2>7. ASSUME NEW p \in Procs, OrphanReaped(p) PROVE ActiveInv'
    BY <2>7 DEF OrphanReaped
  <2> QED
    BY <1>3, <2>1, <2>2, <2>3, <2>4, <2>5, <2>6, <2>7 DEF Environment
<1>4. CASE UNCHANGED vars
  BY <1>4 DEF vars
<1> QED
  BY <1>1, <1>2, <1>3, <1>4 DEF Next

\* The loop polls active attempts, starts and repairs inactive ones, and ends by
\* reconciling all of them.
LEMMA PlaceStep == EndInv /\ [Next]_vars => PlaceInv'
<1> SUFFICES ASSUME EndInv, [Next]_vars PROVE PlaceInv'
  OBVIOUS
<1> USE QueueAssumption DEF EndInv, BaseInv, Types, ProcTypes, AttemptTypes, JobNamed, AttachInv,
         NoAttempt, dbVars, procVars, planVars, attemptVars, loopVars, ActiveInv, PlaceInv,
         ActiveNames
<1>1. ASSUME NEW p \in Procs, WorkerStep(p) PROVE PlaceInv'
  BY <1>1, WorkerKeeps
<1>2. ASSUME SchedulerStep PROVE PlaceInv'
  <2>1. CASE Start
    BY <2>1 DEF Start
  <2>2. CASE Classify
    BY <2>2 DEF Classify
  <2>3. CASE Top
    BY <2>3 DEF Top, Down
  <2>4. CASE Repair
    BY <2>4 DEF Repair, Unwind, Down
  <2>5. CASE Choose
    BY <2>5 DEF Choose, Startable
  <2>6. CASE Attach
    BY <2>6 DEF Attach
  <2>7. CASE Register
    BY <2>7 DEF Register
  <2>8. CASE EndTurn
    BY <2>8 DEF EndTurn, Down
  <2>9. CASE StopChildren
    BY <2>9 DEF StopChildren
  <2>10. CASE ChildrenReaped
    BY <2>10 DEF ChildrenReaped
  <2>11. CASE Finished
    BY <2>11 DEF Finished, Down
  <2>12. ASSUME NEW n \in Names, Preflight(n) PROVE PlaceInv'
    BY <2>12 DEF Preflight, Down
  <2>13. ASSUME NEW n \in Names, Poll(n) PROVE PlaceInv'
    BY <2>13 DEF Poll, Reap
  <2>14. ASSUME NEW n \in Names, FinalReconcile(n) PROVE PlaceInv'
    BY <2>14 DEF FinalReconcile, Reap
  <2>15. ASSUME NEW temp \in Temps, Sample(temp) PROVE PlaceInv'
    BY <2>15 DEF Sample, Unwind, Down
  <2>16. ASSUME NEW p \in Procs, Spawn(p) PROVE PlaceInv'
    BY <2>16 DEF Spawn
  <2> QED
    BY <1>2, <2>1, <2>2, <2>3, <2>4, <2>5, <2>6, <2>7, <2>8, <2>9, <2>10, <2>11, <2>12,
           <2>13, <2>14, <2>15, <2>16 DEF SchedulerStep
<1>3. ASSUME Environment PROVE PlaceInv'
  <2>1. CASE Interrupt
    BY <2>1 DEF Interrupt, Unwind, Down
  <2>2. CASE InterruptAgain
    BY <2>2 DEF InterruptAgain, Down
  <2>3. CASE Crash
    BY <2>3 DEF Crash, Down
  <2>4. CASE KillChildren
    <3>1. PICK P \in SUBSET Procs : (\A p \in P : Alive(p)) /\ Die(P)
      BY <2>4 DEF KillChildren
    <3> QED
      BY <2>4, <3>1, DieKeeps DEF KillChildren
  <2>5. ASSUME NEW n \in Names, Recover(n) \/ UserStep(n) \/ SessionEnds(n)
         \/ ConnectionLost(n) PROVE PlaceInv'
    BY <2>5 DEF Recover, UserStep, SessionEnds, ConnectionLost
  <2>6. ASSUME NEW p \in Procs, WorkerKilled(p) PROVE PlaceInv'
    <3>1. Die({p}) /\ \A q \in {p} : Alive(q)
      BY <2>6 DEF WorkerKilled
    <3> QED
      BY <2>6, <3>1, DieKeeps DEF WorkerKilled
  <2>7. ASSUME NEW p \in Procs, OrphanReaped(p) PROVE PlaceInv'
    BY <2>7 DEF OrphanReaped
  <2> QED
    BY <1>3, <2>1, <2>2, <2>3, <2>4, <2>5, <2>6, <2>7 DEF Environment
<1>4. CASE UNCHANGED vars
  BY <1>4 DEF vars
<1> QED
  BY <1>1, <1>2, <1>3, <1>4 DEF Next

\* No worker is left behind by an orderly scheduler.
LEMMA OwnedStep ==
    ASSUME Orderly
    PROVE  EndInv /\ [Next]_vars => OwnedInv'
<1> SUFFICES ASSUME EndInv, [Next]_vars PROVE OwnedInv'
  OBVIOUS
<1> USE QueueAssumption DEF EndInv, BaseInv, Types, ProcTypes, AttemptTypes, JobNamed, AttachInv,
         NoAttempt, dbVars, procVars, planVars, attemptVars, loopVars, ActiveInv, PlaceInv,
         ActiveNames, OwnedInv, Attaching
<1>1. ASSUME NEW p \in Procs, WorkerStep(p) PROVE OwnedInv'
  BY <1>1, WorkerKeeps
<1>2. ASSUME SchedulerStep PROVE OwnedInv'
  <2>1. CASE Start
    BY <2>1 DEF Start, Orderly
  <2>2. CASE Classify
    BY <2>2 DEF Classify, Orderly
  <2>3. CASE Top
    BY <2>3 DEF Top, Down, Orderly
  <2>4. CASE Repair
    BY <2>4 DEF Repair, Unwind, Down, Orderly
  <2>5. CASE Choose
    BY <2>5 DEF Choose, Orderly
  <2>6. CASE Attach
    BY <2>6 DEF Attach, Orderly
  <2>7. CASE Register
    BY <2>7 DEF Register, Orderly
  <2>8. CASE EndTurn
    BY <2>8 DEF EndTurn, Down, Orderly
  <2>9. CASE StopChildren
    BY <2>9 DEF StopChildren, Orderly
  <2>10. CASE ChildrenReaped
    BY <2>10 DEF ChildrenReaped, Orderly
  <2>11. CASE Finished
    BY <2>11 DEF Finished, Down, Orderly
  <2>12. ASSUME NEW n \in Names, Preflight(n) PROVE OwnedInv'
    BY <2>12 DEF Preflight, Down, Orderly
  <2>13. ASSUME NEW n \in Names, Poll(n) PROVE OwnedInv'
    BY <2>13 DEF Poll, Reap, Orderly
  <2>14. ASSUME NEW n \in Names, FinalReconcile(n) PROVE OwnedInv'
    BY <2>14 DEF FinalReconcile, Reap, Orderly
  <2>15. ASSUME NEW temp \in Temps, Sample(temp) PROVE OwnedInv'
    BY <2>15 DEF Sample, Unwind, Down, Orderly
  <2>16. ASSUME NEW p \in Procs, Spawn(p) PROVE OwnedInv'
    BY <2>16 DEF Spawn, Orderly
  <2> QED
    BY <1>2, <2>1, <2>2, <2>3, <2>4, <2>5, <2>6, <2>7, <2>8, <2>9, <2>10, <2>11, <2>12,
           <2>13, <2>14, <2>15, <2>16 DEF SchedulerStep
<1>3. ASSUME Environment PROVE OwnedInv'
  <2>1. CASE Interrupt
    BY <2>1 DEF Interrupt, Unwind, Down, Orderly
  <2>2. CASE InterruptAgain
    BY <2>2 DEF InterruptAgain, Down, Orderly
  <2>3. CASE Crash
    BY <2>3 DEF Crash, Down, Orderly
  <2>4. CASE KillChildren
    <3>1. PICK P \in SUBSET Procs : (\A p \in P : Alive(p)) /\ Die(P)
      BY <2>4 DEF KillChildren
    <3> QED
      BY <2>4, <3>1, DieKeeps DEF KillChildren
  <2>5. ASSUME NEW n \in Names, Recover(n) \/ UserStep(n) \/ SessionEnds(n)
         \/ ConnectionLost(n) PROVE OwnedInv'
    BY <2>5 DEF Recover, UserStep, SessionEnds, ConnectionLost
  <2>6. ASSUME NEW p \in Procs, WorkerKilled(p) PROVE OwnedInv'
    <3>1. Die({p}) /\ \A q \in {p} : Alive(q)
      BY <2>6 DEF WorkerKilled
    <3>2. /\ job' = job
          /\ \A q \in Procs : stage'[q] = "free" <=> stage[q] = "free"
      BY <3>1, DieKeeps
    <3> QED
      BY <2>6, <3>2 DEF WorkerKilled
  <2>7. ASSUME NEW p \in Procs, OrphanReaped(p) PROVE OwnedInv'
    BY <2>7 DEF OrphanReaped, Orderly
  <2> QED
    BY <1>3, <2>1, <2>2, <2>3, <2>4, <2>5, <2>6, <2>7 DEF Environment
<1>4. CASE UNCHANGED vars
  BY <1>4 DEF vars
<1> QED
  BY <1>1, <1>2, <1>3, <1>4 DEF Next

\* Only a worker acts as one.
LEMMA WorkerNotFree ==
    ASSUME NEW p \in Procs, WorkerStep(p)
    PROVE  stage[p] # "free"
BY DEF WorkerStep, WorkerClaims, WorkerStartupFails, WorkerChecks, WorkerCreatesRun, WorkerMarksRunning,
       WorkerCompletesRun, WorkerFinishes, WorkerTrainingFails, WorkerEnds, WorkerInterrupted,
       WatcherFires

\* The only unfinished row that a worker adds is the one it creates, of its own
\* name, and younger than its attempt.
LEMMA WorkerRows ==
    ASSUME BaseInv, NEW p \in Procs, WorkerStep(p)
    PROVE  \A n \in Names :
              Ours(n)' => \/ Ours(n) /\ by'[n] = by[n] /\ older'[n] = older[n]
                          \/ n = job[p] /\ by'[n] = p /\ older'[n] = FALSE
<1> USE DEF BaseInv, Types, DbTypes, Ours, Unfinished, dbVars
<1>1. CASE WorkerClaims(p)
  BY <1>1 DEF WorkerClaims
<1>2. CASE WorkerStartupFails(p)
  BY <1>2 DEF WorkerStartupFails
<1>3. CASE WorkerChecks(p)
  BY <1>3 DEF WorkerChecks
<1>4. CASE WorkerCreatesRun(p)
  BY <1>4 DEF WorkerCreatesRun
<1>5. CASE WorkerMarksRunning(p)
  BY <1>5 DEF WorkerMarksRunning
<1>6. CASE WorkerCompletesRun(p)
  BY <1>6 DEF WorkerCompletesRun
<1>7. CASE WorkerFinishes(p)
  BY <1>7 DEF WorkerFinishes
<1>8. CASE WorkerTrainingFails(p)
  BY <1>8 DEF WorkerTrainingFails, FailRun
<1>9. CASE WorkerEnds(p)
  BY <1>9 DEF WorkerEnds, MarkAbandoned
<1>10. CASE WorkerInterrupted(p)
  BY <1>10 DEF WorkerInterrupted, FailRun
<1>11. CASE WatcherFires(p)
  BY <1>11 DEF WatcherFires
<1> QED
  BY <1>1, <1>2, <1>3, <1>4, <1>5, <1>6, <1>7, <1>8, <1>9, <1>10, <1>11 DEF WorkerStep

\* What was read as free stays free until the scheduler starts it.
LEMMA FreshStep == EndInv /\ [Next]_vars => FreshInv'
<1> SUFFICES ASSUME EndInv, [Next]_vars PROVE FreshInv'
  OBVIOUS
<1> USE QueueAssumption DEF EndInv, BaseInv, Types, ProcTypes, AttemptTypes, JobNamed, AttachInv,
         NoAttempt, dbVars, procVars, planVars, attemptVars, loopVars, DbTypes, LoopTypes,
         ActiveInv, PlaceInv, ActiveNames, OwnedInv, Attaching,
       FreshInv, InLoop
<1>1. ASSUME NEW p \in Procs, WorkerStep(p) PROVE FreshInv'
  <2>1. UNCHANGED <<sched, planVars, attemptVars, loopVars>> /\ job' = job /\ stage[p] # "free"
         /\ \A q \in Procs : stage'[q] = "free" <=> stage[q] = "free"
    BY <1>1, WorkerKeeps, WorkerNotFree DEF EndInv
  <2>2. \A n \in Names :
            Ours(n)' => \/ Ours(n) /\ by'[n] = by[n] /\ older'[n] = older[n]
                        \/ n = job[p] /\ by'[n] = p /\ older'[n] = FALSE
    BY <1>1, WorkerRows DEF EndInv
  <2>3. ASSUME NEW n \in Names, sched \in InLoop \ {"top"},
               active[n] = Nobody, snap[n] = "none", Ours(n)'
        PROVE  Attaching(n, by'[n])
    <3>1. CASE Ours(n) /\ by'[n] = by[n]
      BY <2>3, <3>1
    <3>2. CASE n = job[p] /\ by'[n] = p
      BY <2>1, <2>3, <3>2
    <3> QED
      BY <2>2, <2>3, <3>1, <3>2
  <2>4. ASSUME sched \in {"attach", "register"}, Ours(child[1])'
        PROVE  by'[child[1]] = child[2]
    <3>1. child[1] \in Names
      BY <2>4
    <3>2. CASE Ours(child[1]) /\ by'[child[1]] = by[child[1]]
      BY <2>4, <3>2
    <3>3. CASE child[1] = job[p] /\ by'[child[1]] = p
      BY <2>1, <2>4, <3>3
    <3>4. child'[1] = child[1]
      BY <2>1
    <3> QED
      BY <2>2, <2>4, <3>1, <3>2, <3>3, <3>4
  <2> QED
    BY <2>1, <2>3, <2>4
<1>2. ASSUME SchedulerStep PROVE FreshInv'
  <2>1. CASE Start
    BY <2>1 DEF Start, Ours, Unfinished
  <2>2. CASE Classify
    BY <2>2 DEF Classify, Ours, Unfinished
  <2>3. CASE Top
    BY <2>3 DEF Top, Down, Ours, Unfinished
  <2>4. CASE Repair
    BY <2>4 DEF Repair, Reconciled, ReconcileRaises, MarkAbandoned, Unwind, Down, Ours, Unfinished
  <2>5. CASE Choose
    BY <2>5 DEF Choose, Ours
  <2>6. CASE Attach
    BY <2>6 DEF Attach, Ours, Unfinished
  <2>7. CASE Register
    BY <2>7 DEF Register, Ours, Unfinished
  <2>8. CASE EndTurn
    BY <2>8 DEF EndTurn, Down, Ours, Unfinished
  <2>9. CASE StopChildren
    BY <2>9 DEF StopChildren, Ours, Unfinished
  <2>10. CASE ChildrenReaped
    BY <2>10 DEF ChildrenReaped, Ours, Unfinished
  <2>11. CASE Finished
    BY <2>11 DEF Finished, Down, Ours, Unfinished
  <2>12. ASSUME NEW n \in Names, Preflight(n) PROVE FreshInv'
    BY <2>12 DEF Preflight, Down, Ours, Unfinished
  <2>13. ASSUME NEW n \in Names, Poll(n) PROVE FreshInv'
    <3>1. CASE stage[active[n]] # "exited"
      BY <2>13, <3>1 DEF Poll, Ours
    <3>2. CASE stage[active[n]] = "exited"
      <4>1. /\ active' = [active EXCEPT ![n] = Nobody]
            /\ snap' = [snap EXCEPT ![n] = row[n]]
            /\ sched = "poll" /\ sched' \in {"poll", "repair"}
            /\ UNCHANGED <<row, by, older>>
        BY <2>13, <3>2 DEF Poll, Reap
      <4> QED
        BY <4>1 DEF Ours, Unfinished
    <3> QED
      BY <3>1, <3>2
  <2>14. ASSUME NEW n \in Names, FinalReconcile(n) PROVE FreshInv'
    BY <2>14 DEF FinalReconcile, Reap
  <2>15. ASSUME NEW temp \in Temps, Sample(temp) PROVE FreshInv'
    BY <2>15 DEF Sample, Unwind, Down, Ours, Unfinished
  <2>16. ASSUME NEW p \in Procs, Spawn(p) PROVE FreshInv'
    BY <2>16 DEF Spawn, Ours, Unfinished
  <2> QED
    BY <1>2, <2>1, <2>2, <2>3, <2>4, <2>5, <2>6, <2>7, <2>8, <2>9, <2>10, <2>11, <2>12,
           <2>13, <2>14, <2>15, <2>16 DEF SchedulerStep
<1>3. ASSUME Environment PROVE FreshInv'
  <2>1. CASE Interrupt
    BY <2>1 DEF Interrupt, Unwind, Down, Ours, Unfinished
  <2>2. CASE InterruptAgain
    BY <2>2 DEF InterruptAgain, Down, Ours, Unfinished
  <2>3. CASE Crash
    BY <2>3 DEF Crash, Down, Ours, Unfinished
  <2>4. CASE KillChildren
    <3>1. PICK P \in SUBSET Procs : (\A p \in P : Alive(p)) /\ Die(P)
      BY <2>4 DEF KillChildren
    <3> QED
      BY <2>4, <3>1, DieKeeps DEF KillChildren, Ours
  <2>5. ASSUME NEW n \in Names, Recover(n) PROVE FreshInv'
    BY <2>5 DEF Recover, MarkAbandoned, Ours, Unfinished
  <2>6. ASSUME NEW n \in Names, UserStep(n) PROVE FreshInv'
    BY <2>6 DEF UserStep, Ours, Unfinished
  <2>7. ASSUME NEW n \in Names, SessionEnds(n) \/ ConnectionLost(n) PROVE FreshInv'
    BY <2>7 DEF SessionEnds, ConnectionLost, Ours
  <2>8. ASSUME NEW p \in Procs, WorkerKilled(p) PROVE FreshInv'
    <3>1. Die({p}) /\ \A q \in {p} : Alive(q)
      BY <2>8 DEF WorkerKilled
    <3> QED
      BY <2>8, <3>1, DieKeeps DEF WorkerKilled, Ours
  <2>9. ASSUME NEW p \in Procs, OrphanReaped(p) PROVE FreshInv'
    BY <2>9 DEF OrphanReaped, Ours
  <2> QED
    BY <1>3, <2>1, <2>2, <2>3, <2>4, <2>5, <2>6, <2>7, <2>8, <2>9 DEF Environment
<1>4. CASE UNCHANGED vars
  BY <1>4 DEF vars, Ours
<1> QED
  BY <1>1, <1>2, <1>3, <1>4 DEF Next

\* Each attempt is written to disk before the scheduler turns to another.
LEMMA RecordStep ==
    ASSUME Orderly
    PROVE  EndInv /\ [Next]_vars => RecordInv'
<1> SUFFICES ASSUME EndInv, [Next]_vars PROVE RecordInv'
  OBVIOUS
<1> USE QueueAssumption DEF EndInv, BaseInv, Types, ProcTypes, AttemptTypes, JobNamed, AttachInv,
         NoAttempt, dbVars, procVars, planVars, attemptVars, loopVars, DbTypes, LoopTypes,
         ActiveInv, PlaceInv, ActiveNames, OwnedInv, Attaching, FreshInv, RecordInv, InLoop
<1>1. ASSUME NEW p \in Procs, WorkerStep(p) PROVE RecordInv'
  <2>1. UNCHANGED <<sched, planVars, attemptVars, loopVars>> /\ job' = job /\ stage[p] # "free"
         /\ \A q \in Procs : stage'[q] = "free" <=> stage[q] = "free"
    BY <1>1, WorkerKeeps, WorkerNotFree DEF EndInv
  <2>2. \A n \in Names :
            Ours(n)' => \/ Ours(n) /\ by'[n] = by[n] /\ older'[n] = older[n]
                        \/ n = job[p] /\ by'[n] = p /\ older'[n] = FALSE
    BY <1>1, WorkerRows DEF EndInv
  <2> QED
    BY <2>1, <2>2
<1>2. ASSUME SchedulerStep PROVE RecordInv'
  <2>1. CASE Start
    BY <2>1 DEF Start, Ours, Unfinished
  <2>2. CASE Classify
    BY <2>2 DEF Classify, Ours, Unfinished
  <2>3. CASE Top
    BY <2>3 DEF Top, Down, Ours, Unfinished
  <2>4. CASE Repair
    BY <2>4 DEF Repair, Reconciled, ReconcileRaises, MarkAbandoned, Unwind, Down, Ours, Unfinished
  <2>5. CASE Choose
    BY <2>5 DEF Choose, Ours, Startable
  <2>6. CASE Attach
    BY <2>6 DEF Attach, Ours, Unfinished
  <2>7. CASE Register
    BY <2>7 DEF Register, Ours, Unfinished
  <2>8. CASE EndTurn
    BY <2>8 DEF EndTurn, Down, Ours, Unfinished
  <2>9. CASE StopChildren
    BY <2>9 DEF StopChildren, Ours, Unfinished
  <2>10. CASE ChildrenReaped
    BY <2>10 DEF ChildrenReaped, Ours, Unfinished
  <2>11. CASE Finished
    BY <2>11 DEF Finished, Down, Ours, Unfinished
  <2>12. ASSUME NEW n \in Names, Preflight(n) PROVE RecordInv'
    BY <2>12 DEF Preflight, Down, Ours, Unfinished
  <2>13. ASSUME NEW n \in Names, Poll(n) PROVE RecordInv'
    <3>1. UNCHANGED <<dbVars, journal>> /\ \A m \in Names : Ours(m)' <=> Ours(m)
      BY <2>13 DEF Poll, Reap, Ours
    <3>2. CASE UNCHANGED <<procVars, child, sched>>
      BY <2>13, <3>1, <3>2 DEF Poll
    <3>3. CASE Reap(n) /\ UNCHANGED <<child, sched>>
      BY <2>13, <3>1, <3>3 DEF Reap
    <3>4. CASE Reap(n) /\ sched' = "repair"
      BY <2>13, <3>1, <3>4 DEF Poll, Reap
    <3> QED
      BY <2>13, <3>2, <3>3, <3>4 DEF Poll
  <2>14. ASSUME NEW n \in Names, FinalReconcile(n) PROVE RecordInv'
    BY <2>14 DEF FinalReconcile, Reconciled, ReconcileRaises, MarkAbandoned, Reap, Ours, Unfinished
  <2>15. ASSUME NEW temp \in Temps, Sample(temp) PROVE RecordInv'
    BY <2>15 DEF Sample, Unwind, Down, Ours, Unfinished
  <2>16. ASSUME NEW p \in Procs, Spawn(p) PROVE RecordInv'
    BY <2>16 DEF Spawn, Ours, Unfinished
  <2> QED
    BY <1>2, <2>1, <2>2, <2>3, <2>4, <2>5, <2>6, <2>7, <2>8, <2>9, <2>10, <2>11, <2>12,
           <2>13, <2>14, <2>15, <2>16 DEF SchedulerStep
<1>3. ASSUME Environment PROVE RecordInv'
  <2>1. CASE Interrupt
    BY <2>1 DEF Interrupt, Unwind, Down, Ours, Orderly
  <2>2. CASE InterruptAgain
    BY <2>2 DEF InterruptAgain, Down, Ours, Unfinished
  <2>3. CASE Crash
    BY <2>3 DEF Crash, Orderly
  <2>4. CASE KillChildren
    <3>1. PICK P \in SUBSET Procs : (\A p \in P : Alive(p)) /\ Die(P)
      BY <2>4 DEF KillChildren
    <3> QED
      BY <2>4, <3>1, DieKeeps DEF KillChildren, Ours
  <2>5. ASSUME NEW n \in Names, Recover(n) PROVE RecordInv'
    BY <2>5 DEF Recover, MarkAbandoned, Ours, Unfinished
  <2>6. ASSUME NEW n \in Names, UserStep(n) PROVE RecordInv'
    BY <2>6 DEF UserStep, Ours, Unfinished
  <2>7. ASSUME NEW n \in Names, SessionEnds(n) \/ ConnectionLost(n) PROVE RecordInv'
    BY <2>7 DEF SessionEnds, ConnectionLost, Ours
  <2>8. ASSUME NEW p \in Procs, WorkerKilled(p) PROVE RecordInv'
    <3>1. Die({p}) /\ \A q \in {p} : Alive(q)
      BY <2>8 DEF WorkerKilled
    <3> QED
      BY <2>8, <3>1, DieKeeps DEF WorkerKilled, Ours
  <2>9. ASSUME NEW p \in Procs, OrphanReaped(p) PROVE RecordInv'
    BY <2>9 DEF OrphanReaped, Ours, Unfinished
  <2> QED
    BY <1>3, <2>1, <2>2, <2>3, <2>4, <2>5, <2>6, <2>7, <2>8, <2>9 DEF Environment
<1>4. CASE UNCHANGED vars
  BY <1>4 DEF vars, Ours
<1> QED
  BY <1>1, <1>2, <1>3, <1>4 DEF Next

\* EndInv is inductive for an orderly scheduler.
LEMMA EndStep ==
    ASSUME Orderly
    PROVE  EndInv /\ [Next]_vars => EndInv'
<1>1. EndInv /\ [Next]_vars => BaseInv' /\ AttachInv'
  BY BaseStep, AttachStep DEF EndInv
<1> QED
  BY <1>1, ActiveStep, PlaceStep, OwnedStep, FreshStep, RecordStep DEF EndInv

\* EndInv holds initially: nothing was started or recorded.
LEMMA InitEnd == Init => EndInv
<1> SUFFICES ASSUME Init PROVE EndInv
  OBVIOUS
<1>1. BaseInv
  BY InitBase
<1>2. AttachInv /\ ActiveInv /\ PlaceInv /\ OwnedInv /\ FreshInv
  BY DEF Init, AttachInv, ActiveInv, PlaceInv, ActiveNames, OwnedInv, FreshInv, NoAttempt, InLoop
<1>3. RecordInv
  BY DEF Init, RecordInv, Ours, Unfinished, NoRow
<1> QED
  BY <1>1, <1>2, <1>3 DEF EndInv

\* A scheduler that has ended has no attempt left, so no worker of its is alive,
\* and the unfinished rows are on record.
LEMMA EndIsClean == EndInv => EndsClean
<1> SUFFICES ASSUME EndInv, sched = "down"
             PROVE  /\ \A p \in Procs : ~ Alive(p)
                    /\ \A n \in Names : Ours(n) => journal[n] = by[n] /\ ~ older[n]
  BY DEF EndsClean, WorkersStopped, AbandonedIsRecoverable, Ours
<1>1. \A p \in Procs : stage[p] = "free"
  BY QueueAssumption DEF EndInv, BaseInv, JobNamed, PlaceInv, ActiveNames, OwnedInv, Attaching
<1> QED
  BY <1>1 DEF EndInv, RecordInv, Attaching, Alive

\* A scheduler that is not killed, and not interrupted while it attaches a
\* worker or a second time while it stops them, leaves no worker alive, and
\* no unfinished row that the recovery command could not repair: with every
\* other fault, lost connections, lingering sessions and users included.
THEOREM QueueEndsClean ==
    ASSUME Orderly
    PROVE  Spec => []EndsClean
<1>1. EndInv /\ [Next]_vars => EndInv'
  BY EndStep
<1> QED
  BY InitEnd, <1>1, EndIsClean, PTL DEF Spec

-----------------------------------------------------------------------------
(* The first failure only drains the queue *)

\* The sessions of dead workers do not outlive them, rows are made by workers,
\* the sensors show no temperature that stops the queue, and --workers is
\* not above the limit that reconcile_attempt claims with.
Calm ==
    /\ Faults \cap {"linger", "user"} = {}
    /\ Temps \cap {"abort", "absent"} = {}
    /\ \A w \in WorkerLimits : w <= RepairLimit

\* A claim is held by a live worker of that name.
AliveHeld == \A n \in Names : holder[n] # Nobody => Alive(holder[n]) /\ job[holder[n]] = n

\* No more attempts than --workers, and room for the one being started or
\* repaired.
ActiveCap ==
    /\ Cardinality(ActiveNames) <= workers
    /\ sched \in {"spawn", "attach", "repair"} => Cardinality(ActiveNames) < workers

\* Unfinished rows are those of queue workers.
AllOurs == \A n \in Names : by[n] # User /\ (row[n] \in Unfinished => by[n] \in Procs)

\* The children are only stopped for an interrupt.
StopInv == sched \in {"stop", "wait", "reconcile"} => result = "interrupted"

DrainInv == EndInv /\ AliveHeld /\ ActiveCap /\ AllOurs /\ StopInv

\* A dead worker's claim is gone with it.
LEMMA AliveHeldStep ==
    ASSUME Calm
    PROVE  DrainInv /\ [Next]_vars => AliveHeld'
<1> SUFFICES ASSUME DrainInv, [Next]_vars PROVE AliveHeld'
  OBVIOUS
<1> USE QueueAssumption DEF DrainInv, EndInv, BaseInv, Types, ProcTypes, AttemptTypes, JobNamed,
         PlaceInv, AliveHeld, Alive, dbVars, procVars, planVars, attemptVars, loopVars
<1>1. ASSUME NEW p \in Procs, WorkerStep(p) PROVE AliveHeld'
  <2> UNCHANGED <<sched, planVars, attemptVars, loopVars>>
    BY <1>1 DEF WorkerStep
  <2>1. CASE WorkerClaims(p)
    <3>1. CASE CanClaim(job[p], limit[p])
      BY <2>1, <3>1 DEF WorkerClaims, CanClaim, Exit
    <3>2. CASE ~ CanClaim(job[p], limit[p])
      BY <2>1, <3>2 DEF WorkerClaims, Exit
    <3> QED
      BY <3>1, <3>2
  <2>2. CASE WorkerStartupFails(p)
    BY <2>2 DEF WorkerStartupFails, Exit
  <2>3. CASE WorkerChecks(p)
    BY <2>3 DEF WorkerChecks, Exit, Becomes
  <2>4. CASE WorkerCreatesRun(p)
    BY <2>4 DEF WorkerCreatesRun, Becomes
  <2>5. CASE WorkerMarksRunning(p)
    BY <2>5 DEF WorkerMarksRunning, Becomes
  <2>6. CASE WorkerCompletesRun(p)
    BY <2>6 DEF WorkerCompletesRun, Becomes
  <2>7. CASE WorkerFinishes(p)
    BY <2>7 DEF WorkerFinishes, Becomes
  <2>8. CASE WorkerTrainingFails(p)
    BY <2>8 DEF WorkerTrainingFails, FailRun
  <2>9. CASE WorkerEnds(p)
    BY <2>9 DEF WorkerEnds, Exit
  <2>10. CASE WorkerInterrupted(p)
    BY <2>10 DEF WorkerInterrupted, Exit, FailRun
  <2>11. CASE WatcherFires(p)
    BY <2>11 DEF WatcherFires
  <2> QED
    BY <1>1, <2>1, <2>2, <2>3, <2>4, <2>5, <2>6, <2>7, <2>8, <2>9, <2>10, <2>11 DEF WorkerStep
<1>2. ASSUME SchedulerStep PROVE AliveHeld'
  <2>1. CASE Start \/ Classify \/ Top \/ Repair \/ Choose \/ Attach \/ Register \/ EndTurn
         \/ StopChildren \/ ChildrenReaped \/ Finished
    BY <2>1 DEF Start, Classify, Top, Down, Repair, Unwind, Choose, Attach, Register, EndTurn,
           StopChildren, ChildrenReaped, Finished
  <2>2. ASSUME NEW n \in Names, Poll(n) PROVE AliveHeld'
    BY <2>2 DEF Poll, Reap
  <2>3. ASSUME NEW n \in Names, FinalReconcile(n) PROVE AliveHeld'
    BY <2>3 DEF FinalReconcile, Reap
  <2>4. ASSUME NEW n \in Names, Preflight(n) PROVE AliveHeld'
    BY <2>4 DEF Preflight, Down
  <2>5. ASSUME NEW temp \in Temps, Sample(temp) PROVE AliveHeld'
    BY <2>5 DEF Sample, Unwind, Down
  <2>6. ASSUME NEW p \in Procs, Spawn(p) PROVE AliveHeld'
    BY <2>6 DEF Spawn, Unused
  <2> QED
    BY <1>2, <2>1, <2>2, <2>3, <2>4, <2>5, <2>6 DEF SchedulerStep
<1>3. ASSUME Environment PROVE AliveHeld'
  <2>1. CASE KillChildren
    BY <2>1 DEF KillChildren, Die, Calm
  <2>2. CASE Interrupt \/ InterruptAgain \/ Crash
    BY <2>2 DEF Interrupt, Unwind, Down, InterruptAgain, Crash
  <2>3. ASSUME NEW n \in Names, SessionEnds(n) PROVE AliveHeld'
    BY <2>3 DEF SessionEnds
  <2>4. ASSUME NEW n \in Names, ConnectionLost(n) PROVE AliveHeld'
    BY <2>4 DEF ConnectionLost
  <2>5. ASSUME NEW n \in Names, Recover(n) \/ UserStep(n) PROVE AliveHeld'
    BY <2>5 DEF Recover, UserStep
  <2>6. ASSUME NEW p \in Procs, WorkerKilled(p) PROVE AliveHeld'
    BY <2>6 DEF WorkerKilled, Die, Calm
  <2>7. ASSUME NEW p \in Procs, OrphanReaped(p) PROVE AliveHeld'
    BY <2>7 DEF OrphanReaped
  <2> QED
    BY <1>3, <2>1, <2>2, <2>3, <2>4, <2>5, <2>6, <2>7 DEF Environment
<1>4. CASE UNCHANGED vars
  BY <1>4 DEF vars
<1> QED
  BY <1>1, <1>2, <1>3, <1>4 DEF Next

\* Rows are made by workers only.
LEMMA AllOursStep ==
    ASSUME Calm
    PROVE  DrainInv /\ [Next]_vars => AllOurs'
<1> SUFFICES ASSUME DrainInv, [Next]_vars PROVE AllOurs'
  OBVIOUS
<1> USE QueueAssumption DEF DrainInv, EndInv, BaseInv, Types, DbTypes, AllOurs, dbVars, procVars,
         planVars, attemptVars, loopVars
<1>1. ASSUME NEW p \in Procs, WorkerStep(p) PROVE AllOurs'
  <2> UNCHANGED <<sched, planVars, attemptVars, loopVars>>
    BY <1>1 DEF WorkerStep
  <2>1. CASE WorkerCreatesRun(p)
    BY <2>1 DEF WorkerCreatesRun, Unfinished
  <2>2. CASE WorkerMarksRunning(p)
    BY <2>2 DEF WorkerMarksRunning, Unfinished
  <2>3. CASE WorkerCompletesRun(p)
    BY <2>3 DEF WorkerCompletesRun, Unfinished
  <2>4. CASE WorkerTrainingFails(p)
    BY <2>4 DEF WorkerTrainingFails, FailRun, Unfinished
  <2>5. CASE WorkerEnds(p)
    BY <2>5 DEF WorkerEnds, MarkAbandoned, Unfinished
  <2>6. CASE WorkerInterrupted(p)
    BY <2>6 DEF WorkerInterrupted, FailRun, Unfinished
  <2>7. CASE WorkerClaims(p) \/ WorkerStartupFails(p) \/ WorkerChecks(p) \/ WorkerFinishes(p)
         \/ WatcherFires(p)
    BY <2>7 DEF WorkerClaims, WorkerStartupFails, WorkerChecks, WorkerFinishes, WatcherFires
  <2> QED
    BY <1>1, <2>1, <2>2, <2>3, <2>4, <2>5, <2>6, <2>7 DEF WorkerStep
<1>2. ASSUME SchedulerStep PROVE AllOurs'
  <2>1. CASE Repair
    BY <2>1 DEF Repair, Reconciled, ReconcileRaises, MarkAbandoned, Unfinished
  <2>2. CASE Start \/ Classify \/ Top \/ Choose \/ Attach \/ Register \/ EndTurn \/ StopChildren
         \/ ChildrenReaped \/ Finished
    BY <2>2 DEF Start, Classify, Top, Choose, Attach, Register, EndTurn, StopChildren,
           ChildrenReaped, Finished
  <2>3. ASSUME NEW n \in Names, Preflight(n) PROVE AllOurs'
    BY <2>3 DEF Preflight, Unfinished
  <2>4. ASSUME NEW n \in Names, FinalReconcile(n) PROVE AllOurs'
    BY <2>4 DEF FinalReconcile, Reconciled, ReconcileRaises, MarkAbandoned, Unfinished
  <2>5. ASSUME NEW n \in Names, Poll(n) PROVE AllOurs'
    BY <2>5 DEF Poll
  <2>6. ASSUME NEW temp \in Temps, Sample(temp) PROVE AllOurs'
    BY <2>6 DEF Sample
  <2>7. ASSUME NEW p \in Procs, Spawn(p) PROVE AllOurs'
    BY <2>7 DEF Spawn
  <2> QED
    BY <1>2, <2>1, <2>2, <2>3, <2>4, <2>5, <2>6, <2>7 DEF SchedulerStep
<1>3. ASSUME Environment PROVE AllOurs'
  <2>1. CASE Interrupt \/ InterruptAgain \/ Crash \/ KillChildren
    BY <2>1 DEF Interrupt, InterruptAgain, Crash, KillChildren, Die
  <2>2. ASSUME NEW n \in Names, Recover(n) PROVE AllOurs'
    BY <2>2 DEF Recover, MarkAbandoned, Unfinished
  <2>3. ASSUME NEW n \in Names, UserStep(n) PROVE AllOurs'
    BY <2>3 DEF UserStep, Calm
  <2>4. ASSUME NEW n \in Names, SessionEnds(n) \/ ConnectionLost(n) PROVE AllOurs'
    BY <2>4 DEF SessionEnds, ConnectionLost
  <2>5. ASSUME NEW p \in Procs, WorkerKilled(p) \/ OrphanReaped(p) PROVE AllOurs'
    BY <2>5 DEF WorkerKilled, Die, OrphanReaped
  <2> QED
    BY <1>3, <2>1, <2>2, <2>3, <2>4, <2>5 DEF Environment
<1>4. CASE UNCHANGED vars
  BY <1>4 DEF vars
<1> QED
  BY <1>1, <1>2, <1>3, <1>4 DEF Next

\* The attempts: no more after one was taken away, at most one more after one
\* was added.
LEMMA ActiveSets ==
    ASSUME Types, Types'
    PROVE  /\ Cardinality(ActiveNames) \in Nat /\ Cardinality(ActiveNames') \in Nat
           /\ ActiveNames' \subseteq ActiveNames => Cardinality(ActiveNames') <= Cardinality(ActiveNames)
           /\ \A n : ActiveNames' \subseteq ActiveNames \cup {n} =>
                        Cardinality(ActiveNames') <= Cardinality(ActiveNames) + 1
           /\ \A n \in ActiveNames : ActiveNames' \subseteq ActiveNames \ {n} =>
                        Cardinality(ActiveNames') < Cardinality(ActiveNames)
<1>1. ActiveNames \in SUBSET Names /\ ActiveNames' \in SUBSET Names
  BY DEF ActiveNames
<1>2. IsFiniteSet(ActiveNames) /\ Cardinality(ActiveNames) \in Nat /\ Cardinality(ActiveNames') \in Nat
  BY <1>1, QueueAssumption, FiniteSetsGrow
<1>3. ASSUME NEW n \in ActiveNames, ActiveNames' \subseteq ActiveNames \ {n}
      PROVE  Cardinality(ActiveNames') < Cardinality(ActiveNames)
  <2>1. Cardinality(ActiveNames \ {n}) = Cardinality(ActiveNames) - 1
    BY <1>2, FS_RemoveElement
  <2>2. ActiveNames \ {n} \in SUBSET Names
    BY <1>1
  <2>3. Cardinality(ActiveNames') <= Cardinality(ActiveNames \ {n})
    BY <1>1, <1>3, <2>2, QueueAssumption, FiniteSetsGrow
  <2> QED
    BY <1>2, <2>1, <2>3
<1> QED
  BY <1>1, <1>2, <1>3, QueueAssumption, FiniteSetsGrow

\* Where an attempt is about to be added, or was just taken away.
Starting == {"spawn", "attach", "repair"}

\* An attempt is added only by Attach; --workers changes while there is none.
ActiveNamesChange ==
    \/ sched' \in {"down", "preflight"} /\ ActiveNames' = {}
    \/ /\ workers' = workers
       /\ \/ /\ ActiveNames' \subseteq ActiveNames
             /\ sched' \in Starting => sched \in Starting \/ Cardinality(ActiveNames) < workers
          \/ /\ sched = "attach" /\ sched' = "register"
             /\ \E n : ActiveNames' \subseteq ActiveNames \cup {n}
          \/ \E n \in ActiveNames : ActiveNames' \subseteq ActiveNames \ {n}

\* That is all that happens to the attempts.
LEMMA ActiveNamesStep == EndInv /\ [Next]_vars => ActiveNamesChange
<1> SUFFICES ASSUME EndInv, [Next]_vars PROVE ActiveNamesChange
  OBVIOUS
<1> USE QueueAssumption DEF EndInv, BaseInv, Types, AttemptTypes, PlaceInv, ActiveNames, Starting,
         ActiveNamesChange, NoAttempt, dbVars, procVars, planVars, attemptVars, loopVars
<1>1. ASSUME NEW p \in Procs, WorkerStep(p) PROVE ActiveNamesChange
  BY <1>1 DEF WorkerStep
<1>2. ASSUME SchedulerStep PROVE ActiveNamesChange
  <2>1. CASE Start
    BY <2>1 DEF Start
  <2>2. CASE Classify
    BY <2>2 DEF Classify
  <2>3. CASE Top
    BY <2>3 DEF Top, Down
  <2>4. CASE Repair
    BY <2>4 DEF Repair, Unwind, Down
  <2>5. CASE Choose
    BY <2>5 DEF Choose, MayStart
  <2>6. CASE Attach
    BY <2>6 DEF Attach
  <2>7. CASE Register
    BY <2>7 DEF Register
  <2>8. CASE EndTurn
    BY <2>8 DEF EndTurn, Down
  <2>9. CASE StopChildren
    BY <2>9 DEF StopChildren
  <2>10. CASE ChildrenReaped
    BY <2>10 DEF ChildrenReaped
  <2>11. CASE Finished
    BY <2>11 DEF Finished, Down
  <2>12. ASSUME NEW n \in Names, Preflight(n) PROVE ActiveNamesChange
    BY <2>12 DEF Preflight, Down
  <2>13. ASSUME NEW n \in Names, Poll(n) PROVE ActiveNamesChange
    BY <2>13 DEF Poll, Reap
  <2>14. ASSUME NEW n \in Names, FinalReconcile(n) PROVE ActiveNamesChange
    BY <2>14 DEF FinalReconcile, Reap
  <2>15. ASSUME NEW temp \in Temps, Sample(temp) PROVE ActiveNamesChange
    BY <2>15 DEF Sample, Unwind, Down
  <2>16. ASSUME NEW p \in Procs, Spawn(p) PROVE ActiveNamesChange
    BY <2>16 DEF Spawn
  <2> QED
    BY <1>2, <2>1, <2>2, <2>3, <2>4, <2>5, <2>6, <2>7, <2>8, <2>9, <2>10, <2>11, <2>12,
           <2>13, <2>14, <2>15, <2>16 DEF SchedulerStep
<1>3. ASSUME Environment PROVE ActiveNamesChange
  <2>1. CASE Interrupt
    BY <2>1 DEF Interrupt, Unwind, Down
  <2>2. CASE InterruptAgain
    BY <2>2 DEF InterruptAgain, Down
  <2>3. CASE Crash
    BY <2>3 DEF Crash, Down
  <2>4. CASE KillChildren
    BY <2>4 DEF KillChildren, Die
  <2>5. ASSUME NEW n \in Names, Recover(n) \/ UserStep(n) \/ SessionEnds(n)
         \/ ConnectionLost(n) PROVE ActiveNamesChange
    BY <2>5 DEF Recover, UserStep, SessionEnds, ConnectionLost
  <2>6. ASSUME NEW p \in Procs, WorkerKilled(p) \/ OrphanReaped(p) PROVE ActiveNamesChange
    BY <2>6 DEF WorkerKilled, Die, OrphanReaped
  <2> QED
    BY <1>3, <2>1, <2>2, <2>3, <2>4, <2>5, <2>6 DEF Environment
<1>4. CASE UNCHANGED vars
  BY <1>4 DEF vars
<1> QED
  BY <1>1, <1>2, <1>3, <1>4 DEF Next

\* A worker is started only below --workers.
LEMMA ActiveCapStep == DrainInv /\ [Next]_vars => ActiveCap'
<1> SUFFICES ASSUME DrainInv, [Next]_vars PROVE ActiveCap'
  OBVIOUS
<1>1. ActiveNamesChange
  BY ActiveNamesStep DEF DrainInv
<1>2. Types /\ Types'
  BY BaseStep DEF DrainInv, EndInv, BaseInv
<1>3. workers \in Nat /\ workers' \in Nat
  BY <1>2, QueueAssumption DEF Types, LoopTypes
<1>4. /\ Cardinality(ActiveNames) \in Nat /\ Cardinality(ActiveNames') \in Nat
      /\ ActiveNames' \subseteq ActiveNames => Cardinality(ActiveNames') <= Cardinality(ActiveNames)
  BY <1>2, ActiveSets
<1>5. \A n : ActiveNames' \subseteq ActiveNames \cup {n} =>
               Cardinality(ActiveNames') <= Cardinality(ActiveNames) + 1
  BY <1>2, ActiveSets
<1>6. \A n \in ActiveNames : ActiveNames' \subseteq ActiveNames \ {n} =>
               Cardinality(ActiveNames') < Cardinality(ActiveNames)
  BY <1>2, ActiveSets
<1>7. /\ Cardinality(ActiveNames) <= workers
      /\ sched \in Starting => Cardinality(ActiveNames) < workers
  BY DEF DrainInv, ActiveCap, Starting
<1>8. /\ Cardinality(ActiveNames') <= workers'
      /\ sched' \in Starting => Cardinality(ActiveNames') < workers'
  <2>4. CASE sched' \in {"down", "preflight"} /\ ActiveNames' = {}
    BY <1>3, <2>4, FS_EmptySet DEF Starting
  <2>1. CASE /\ workers' = workers
             /\ ActiveNames' \subseteq ActiveNames
             /\ sched' \in Starting => sched \in Starting \/ Cardinality(ActiveNames) < workers
    BY <1>3, <1>4, <1>7, <2>1
  <2>2. CASE /\ workers' = workers
             /\ sched = "attach" /\ sched' = "register"
             /\ \E n : ActiveNames' \subseteq ActiveNames \cup {n}
    <3>1. Cardinality(ActiveNames') <= Cardinality(ActiveNames) + 1
      BY <1>5, <2>2
    <3> QED
      BY <1>3, <1>4, <1>7, <2>2, <3>1 DEF Starting
  <2>3. CASE workers' = workers /\ \E n \in ActiveNames : ActiveNames' \subseteq ActiveNames \ {n}
    <3>1. Cardinality(ActiveNames') < Cardinality(ActiveNames)
      BY <1>6, <2>3
    <3> QED
      BY <1>3, <1>4, <1>7, <2>3, <3>1
  <2> QED
    BY <1>1, <2>1, <2>2, <2>3, <2>4 DEF ActiveNamesChange
<1> QED
  BY <1>8 DEF ActiveCap, Starting

\* Repair can claim the name it repairs, and its row is the attempt's.
LEMMA RepairWorks ==
    ASSUME DrainInv, Calm, sched = "repair"
    PROVE  ~ ReconcileRaises(child[1])
<1>1. /\ child[1] \in Names /\ child[1] \notin ActiveNames
      /\ Cardinality(ActiveNames) < workers
  BY DEF DrainInv, EndInv, BaseInv, Types, AttemptTypes, PlaceInv, ActiveCap, ActiveNames
<1>2. \A n \in Names : holder[n] # Nobody => n \in ActiveNames
  BY QueueAssumption
  DEF DrainInv, EndInv, BaseInv, Types, ProcTypes, OwnedInv, AliveHeld, Alive, Attaching, ActiveNames
<1>3. holder[child[1]] = Nobody
  BY <1>1, <1>2
<1>4. Occupied < RepairLimit
  <2>1. Held \in SUBSET Names /\ ActiveNames \in SUBSET Names /\ Held \subseteq ActiveNames
    BY <1>2 DEF Held, ActiveNames
  <2>2. /\ Cardinality(Held) <= Cardinality(ActiveNames)
        /\ Cardinality(Held) \in Nat /\ Cardinality(ActiveNames) \in Nat
    BY <2>1, QueueAssumption, FiniteSetsGrow
  <2>3. workers \in Nat /\ workers <= RepairLimit /\ RepairLimit \in Nat
    BY QueueAssumption DEF DrainInv, EndInv, BaseInv, Types, LoopTypes, Calm, RepairLimit
  <2> QED
    BY <1>1, <2>2, <2>3 DEF Occupied, Held
<1>5. row[child[1]] \in Unfinished => ~ older[child[1]]
  BY <1>1 DEF DrainInv, AllOurs, EndInv, RecordInv, Ours
<1> QED
  BY <1>3, <1>4, <1>5 DEF ReconcileRaises, CanClaim

\* Only an interrupt stops the children.
LEMMA StopStep ==
    ASSUME Calm
    PROVE  DrainInv /\ [Next]_vars => StopInv'
<1> SUFFICES ASSUME DrainInv, [Next]_vars PROVE StopInv'
  OBVIOUS
<1> USE DEF DrainInv, StopInv, dbVars, procVars, planVars, attemptVars, loopVars
<1>1. ASSUME NEW p \in Procs, WorkerStep(p) PROVE StopInv'
  BY <1>1 DEF WorkerStep
<1>2. ASSUME SchedulerStep PROVE StopInv'
  <2>1. CASE Start
    BY <2>1 DEF Start
  <2>2. CASE Classify
    BY <2>2 DEF Classify
  <2>3. CASE Top
    BY <2>3 DEF Top, Down
  <2>4. CASE Repair
    BY <2>4, RepairWorks DEF Repair
  <2>5. CASE Choose
    BY <2>5 DEF Choose
  <2>6. CASE Attach
    BY <2>6 DEF Attach
  <2>7. CASE Register
    BY <2>7 DEF Register
  <2>8. CASE EndTurn
    BY <2>8 DEF EndTurn, Down
  <2>9. CASE StopChildren
    BY <2>9 DEF StopChildren
  <2>10. CASE ChildrenReaped
    BY <2>10 DEF ChildrenReaped
  <2>11. CASE Finished
    BY <2>11 DEF Finished, Down
  <2>12. ASSUME NEW n \in Names, Preflight(n) PROVE StopInv'
    BY <2>12 DEF Preflight, Down
  <2>13. ASSUME NEW n \in Names, Poll(n) PROVE StopInv'
    BY <2>13 DEF Poll, Reap
  <2>14. ASSUME NEW n \in Names, FinalReconcile(n) PROVE StopInv'
    BY <2>14 DEF FinalReconcile, Reap
  <2>15. ASSUME NEW temp \in Temps, Sample(temp) PROVE StopInv'
    BY <2>15 DEF Sample, Down, Calm
  <2>16. ASSUME NEW p \in Procs, Spawn(p) PROVE StopInv'
    BY <2>16 DEF Spawn
  <2> QED
    BY <1>2, <2>1, <2>2, <2>3, <2>4, <2>5, <2>6, <2>7, <2>8, <2>9, <2>10, <2>11, <2>12,
           <2>13, <2>14, <2>15, <2>16 DEF SchedulerStep
<1>3. ASSUME Environment PROVE StopInv'
  <2>1. CASE Interrupt
    BY <2>1 DEF Interrupt, Unwind, Down
  <2>2. CASE InterruptAgain
    BY <2>2 DEF InterruptAgain, Down
  <2>3. CASE Crash
    BY <2>3 DEF Crash, Down
  <2>4. CASE KillChildren
    BY <2>4 DEF KillChildren, Die
  <2>5. ASSUME NEW n \in Names, Recover(n) \/ UserStep(n) \/ SessionEnds(n)
         \/ ConnectionLost(n) PROVE StopInv'
    BY <2>5 DEF Recover, UserStep, SessionEnds, ConnectionLost
  <2>6. ASSUME NEW p \in Procs, WorkerKilled(p) \/ OrphanReaped(p) PROVE StopInv'
    BY <2>6 DEF WorkerKilled, Die, OrphanReaped
  <2> QED
    BY <1>3, <2>1, <2>2, <2>3, <2>4, <2>5, <2>6 DEF Environment
<1>4. CASE UNCHANGED vars
  BY <1>4 DEF vars
<1> QED
  BY <1>1, <1>2, <1>3, <1>4 DEF Next

\* The first failure only drains the queue: with an orderly scheduler, no
\* sensor over the abort temperature, and --workers no more than the limit that
\* reconcile_attempt claims with, repairs always succeed, so work under way is
\* not stopped for a failure; and nothing else is started.
THEOREM FailureIsContained ==
    ASSUME Orderly, Calm
    PROVE  Spec => FailureContained
<1>1. Init => DrainInv
  <2> SUFFICES ASSUME Init PROVE DrainInv
    OBVIOUS
  <2>1. EndInv
    BY InitEnd
  <2>2. AliveHeld /\ AllOurs /\ StopInv
    BY QueueAssumption DEF Init, AliveHeld, AllOurs, StopInv, NoAttempt, NoRow, Unfinished
  <2>3. Cardinality(ActiveNames) = 0
    <3>1. ActiveNames = {}
      BY DEF Init, ActiveNames, NoAttempt
    <3> QED
      BY <3>1, FS_EmptySet
  <2>4. workers \in Nat
    BY QueueAssumption DEF Init
  <2> QED
    BY <2>1, <2>2, <2>3, <2>4 DEF DrainInv, ActiveCap, Init
<1>2. DrainInv /\ [Next]_vars => DrainInv'
  BY EndStep, AliveHeldStep, ActiveCapStep, AllOursStep, StopStep DEF DrainInv
<1>3. DrainInv => FailureDrains
  BY DEF DrainInv, StopInv, FailureDrains
<1> QED
  BY <1>1, <1>2, <1>3, NothingStartsAfterFailure, PTL DEF Spec, FailureContained

=============================================================================
