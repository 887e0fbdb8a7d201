------------------------ MODULE ManagedSessionProofs ------------------------
(***************************************************************************)
(* Proofs about ManagedSession for any sessions, workers, settings,        *)
(* interrupts and faults: the machine has the session's settings while the *)
(* session computes and the user's afterwards (HardwareIsSafe), and live   *)
(* workers of a session are on different sides and evaluate one at a time  *)
(* (WorkersStayApart).                                                     *)
(*                                                                         *)
(* The argument.  Past TakeLock a session holds the hardware lock (LockInv)*)
(* and only such a session writes settings, so what one session has        *)
(* applied no other restores (AppliedInv).  Its scheduler lives only while *)
(* it waits for it (ComputeInv) and outlives the workers it has registered *)
(* (WorkInv) unless something was killed or interrupted where nothing      *)
(* catches it; a worker it never registered is loose and may outlive both. *)
(* Whoever finds the lock free reads the user's settings and writes those  *)
(* back (UserInv).  A worker starts while fewer than two live, so a side   *)
(* is free (FreeSide).                                                     *)
(***************************************************************************)
EXTENDS ManagedSession, TLAPS, SequenceTheorems, FiniteSetTheorems

-----------------------------------------------------------------------------
(* Lists of settings *)

\* Both orders name every changed setting, and nothing else.
LEMMA OrdersComplete ==
    /\ ApplyOrder \in Seq(Settings) /\ Range(ApplyOrder) = Settings
    /\ RestoreOrder \in Seq(Settings) /\ Range(RestoreOrder) = Settings
<1>1. ASSUME NEW x
      PROVE  Changed(x) \in Seq(Settings) /\ Range(Changed(x)) = Settings \cap {x}
  <2>1. CASE x \in Settings
    <3>1. Changed(x) = <<x>> /\ <<x>> \in Seq(Settings) /\ Len(<<x>>) = 1 /\ <<x>>[1] = x
      BY <2>1 DEF Changed
    <3>2. Range(<<x>>) = {<<x>>[i] : i \in 1 .. 1}
      BY <3>1, RangeEquality
    <3> QED
      BY <2>1, <3>1, <3>2
  <2>2. CASE x \notin Settings
    <3>1. Changed(x) = <<>> /\ <<>> \in Seq(Settings) /\ Len(<<>>) = 0
      BY <2>2 DEF Changed
    <3>2. Range(<<>>) = {<<>>[i] : i \in 1 .. 0}
      BY <3>1, RangeEquality
    <3> QED
      BY <2>2, <3>1, <3>2
  <2> QED
    BY <2>1, <2>2
<1>2. ASSUME NEW p \in Seq(Settings), NEW q \in Seq(Settings)
      PROVE  p \o q \in Seq(Settings) /\ Range(p \o q) = Range(p) \cup Range(q)
  BY RangeConcatenation, ConcatProperties
<1>3. ASSUME NEW a, NEW b, NEW c, NEW d
      PROVE  /\ Changed(a) \o Changed(b) \o Changed(c) \o Changed(d) \in Seq(Settings)
             /\ Range(Changed(a) \o Changed(b) \o Changed(c) \o Changed(d))
                    = Settings \cap {a, b, c, d}
  <2> DEFINE A == Changed(a) B == Changed(b) C == Changed(c) D == Changed(d)
  <2>1. /\ {A, B, C, D} \subseteq Seq(Settings)
        /\ Range(A) = Settings \cap {a} /\ Range(B) = Settings \cap {b}
        /\ Range(C) = Settings \cap {c} /\ Range(D) = Settings \cap {d}
    BY <1>1
  <2> HIDE DEF A, B, C, D
  <2>2. A \o B \in Seq(Settings) /\ Range(A \o B) = Settings \cap {a, b}
    <3>1. A \o B \in Seq(Settings) /\ Range(A \o B) = Range(A) \cup Range(B)
      BY <1>2, <2>1
    <3> QED
      BY <2>1, <3>1
  <2>3. A \o B \o C \in Seq(Settings) /\ Range(A \o B \o C) = Settings \cap {a, b, c}
    <3>1. A \o B \o C \in Seq(Settings) /\ Range(A \o B \o C) = Range(A \o B) \cup Range(C)
      BY <1>2, <2>1, <2>2
    <3> QED
      BY <2>1, <2>2, <3>1
  <2>4. /\ A \o B \o C \o D \in Seq(Settings)
        /\ Range(A \o B \o C \o D) = Range(A \o B \o C) \cup Range(D)
    BY <1>2, <2>1, <2>3
  <2>5. Range(A \o B \o C \o D) = Settings \cap {a, b, c, d}
    BY <2>1, <2>3, <2>4
  <2> QED
    BY <2>4, <2>5 DEF A, B, C, D
<1>4. /\ Settings = Settings \cap {"powermode", "fan", "boost", "limits"}
      /\ Settings = Settings \cap {"boost", "powermode", "limits", "fan"}
  BY SessionAssumption
<1>5. ApplyOrder \in Seq(Settings) /\ Range(ApplyOrder) = Settings
  <2> DEFINE order ==
             Changed("powermode") \o Changed("fan") \o Changed("boost") \o Changed("limits")
  <2>1. /\ order \in Seq(Settings)
        /\ Range(order) = Settings \cap {"powermode", "fan", "boost", "limits"}
    BY <1>3
  <2>2. ApplyOrder = order
    BY DEF ApplyOrder
  <2> HIDE DEF order
  <2> QED
    BY <1>4, <2>1, <2>2
<1>6. RestoreOrder \in Seq(Settings) /\ Range(RestoreOrder) = Settings
  <2> DEFINE order ==
             Changed("boost") \o Changed("powermode") \o Changed("limits") \o Changed("fan")
  <2>1. /\ order \in Seq(Settings)
        /\ Range(order) = Settings \cap {"boost", "powermode", "limits", "fan"}
    BY <1>3
  <2>2. RestoreOrder = order
    BY DEF RestoreOrder
  <2> HIDE DEF order
  <2> QED
    BY <1>4, <2>1, <2>2
<1> QED
  BY <1>5, <1>6

\* The settings of a list are its first one and those of the rest.
LEMMA HeadAndTail ==
    ASSUME NEW S, NEW q \in Seq(S), q # <<>>
    PROVE  /\ Head(q) \in S /\ Tail(q) \in Seq(S)
           /\ Range(q) = {Head(q)} \cup Range(Tail(q))
<1>1. /\ Head(q) \in S /\ Head(q) = q[1] /\ Tail(q) \in Seq(S)
      /\ Len(q) \in Nat /\ Len(q) >= 1 /\ Len(Tail(q)) = Len(q) - 1
      /\ \A i \in 1 .. Len(q) - 1 : Tail(q)[i] = q[i + 1]
  BY HeadTailProperties, EmptySeq, LenProperties
<1>2. Range(q) = {q[i] : i \in 1 .. Len(q)} /\ Range(Tail(q)) = {Tail(q)[i] : i \in 1 .. Len(q) - 1}
  BY <1>1, RangeEquality
<1>3. ASSUME NEW i \in 1 .. Len(q) PROVE q[i] = Head(q) \/ q[i] \in Range(Tail(q))
  <2>1. i = 1 \/ (i - 1 \in 1 .. Len(q) - 1 /\ (i - 1) + 1 = i)
    BY <1>1
  <2>2. i # 1 => Tail(q)[i - 1] = q[i] /\ i - 1 \in 1 .. Len(q) - 1
    BY <1>1, <2>1
  <2> QED
    BY <1>1, <1>2, <2>1, <2>2
<1>4. ASSUME NEW i \in 1 .. Len(q) - 1 PROVE Tail(q)[i] \in Range(q)
  <2>1. i + 1 \in 1 .. Len(q) /\ Tail(q)[i] = q[i + 1]
    BY <1>1
  <2> QED
    BY <1>2, <2>1
<1>5. Head(q) \in Range(q)
  BY <1>1, <1>2
<1> QED
  BY <1>1, <1>2, <1>3, <1>4, <1>5

\* An empty list has no settings.
LEMMA EmptyRange == Range(<<>>) = {}
<1>1. <<>> \in Seq({}) /\ Len(<<>>) = 0
  OBVIOUS
<1>2. Range(<<>>) = {<<>>[i] : i \in 1 .. 0}
  BY <1>1, RangeEquality
<1> QED
  BY <1>2

-----------------------------------------------------------------------------
(* The inductive invariant *)

\* Where a session is while it holds the hardware lock, ...
Inside == {"read", "apply", "spawn", "spawned", "wait", "stop", "stopping", "restore"}

\* ... and while its scheduler may compute.
Computing == {"spawned", "wait", "stop", "stopping"}

Values == {"user", "session"}

\* The parts of the state the arguments speak of have their types.
HardwareTypes ==
    /\ setting \in [Settings -> Values]
    /\ lock \in Sessions \cup {Nobody}
    /\ before \in [Sessions -> [Settings -> Values]]

SessionTypes ==
    /\ pc \in [Sessions -> Inside \cup {"off", "lock", "ended"}]
    /\ left \in [Sessions -> Seq(Settings)]
    /\ child \in [Sessions -> {"none", "start", "run", "stop", "gone"}]

WorkerTypes ==
    /\ at \in [Workers -> Places]
    /\ flock \in Workers \cup {NoWorker}
    /\ owner \in [Workers -> Sessions \cup {Nobody}]
    /\ side \in [Workers -> {0, 1, 2}]

TypesInv == HardwareTypes /\ SessionTypes /\ WorkerTypes

\* The hardware lock belongs to the one session that is past taking it.
LockInv == \A s \in Sessions : pc[s] \in Inside <=> lock = s

\* A session has no scheduler before it spawns one.
ChildInv ==
    \A s \in Sessions : pc[s] \in {"off", "lock", "read", "apply", "spawn"} => child[s] = "none"

\* A worker that evaluates holds the gate's lock, and only that worker.
GateInv == \A w \in Workers : at[w] \in {"eval", "inner"} <=> flock = w

\* A live worker, and no other, is somebody's and runs on a side.
OwnedInv ==
    /\ \A w \in Workers : Live(w) <=> owner[w] # Nobody
    /\ \A w \in Workers : Live(w) => side[w] \in {1, 2}

\* Live workers of one session are on different sides.
SidesInv == \A w, v \in Workers :
    Live(w) /\ Live(v) /\ w # v /\ owner[w] = owner[v] => side[w] # side[v]

\* The scheduler that registered a worker is there to stop it, unless it was
\* killed.
WorkInv == \A w \in Workers \ loose :
    owner[w] # Nobody => child[owner[w]] \in {"run", "stop"} \/ owner[w] \in broken

\* While a scheduler lives, its session waits for it.
ComputeInv == \A s \in Sessions : Handled(s) /\ QueueAlive(s) => pc[s] \in Computing

\* From the cooldown to the restoration the session's settings are in place;
\* while they are written, those not written yet are in the list.
Applied(s, x) ==
    /\ pc[s] \in {"spawn"} \cup Computing => setting[x] = "session"
    /\ pc[s] = "apply" => x \in Range(left[s]) \/ setting[x] = "session"

AppliedInv == \A s \in Sessions : \A x \in Settings : Applied(s, x)

\* Without a failure a session has read the user's settings, and a setting it
\* has restored, and every setting while no session holds the lock, is the
\* user's.
Idle(x) == lock = Nobody => setting[x] = "user"

Restored(s, x) ==
    /\ pc[s] = "read" => setting[x] = "user"
    /\ pc[s] \in Inside \ {"read"} => before[s][x] = "user"
    /\ pc[s] = "restore" => x \in Range(left[s]) \/ setting[x] = "user"

UserInv == again \cup broken = {} =>
    \A x \in Settings : Idle(x) /\ \A s \in Sessions : Restored(s, x)

IInv ==
    /\ TypesInv
    /\ LockInv /\ ChildInv /\ ComputeInv /\ AppliedInv /\ UserInv
    /\ GateInv /\ OwnedInv /\ SidesInv /\ WorkInv

-----------------------------------------------------------------------------
(* Every step preserves it *)

\* The settings and the lock keep their types.
LEMMA HardwareTypesStep == HardwareTypes /\ SessionTypes /\ [Next]_vars => HardwareTypes'
<1> SUFFICES ASSUME HardwareTypes /\ SessionTypes, [Next]_vars PROVE HardwareTypes'
  OBVIOUS
<1> USE SessionAssumption DEF HardwareTypes, SessionTypes, Inside, Computing, Values, Places
<1>1. ASSUME NEW s \in Sessions, TakeLock(s) PROVE HardwareTypes'
  BY <1>1 DEF TakeLock, Goto, hardware, sessionVars, queueVars, gateVars, bounds
<1>2. ASSUME NEW s \in Sessions, ReadPrevious(s) PROVE HardwareTypes'
  BY <1>2 DEF ReadPrevious, Goto, hardware, sessionVars, queueVars, gateVars, bounds
<1>3. ASSUME NEW s \in Sessions, Apply(s) PROVE HardwareTypes'
  BY <1>3, HeadAndTail DEF Apply, hardware, sessionVars, queueVars, gateVars, bounds
<1>4. ASSUME NEW s \in Sessions, PrepareFails(s) PROVE HardwareTypes'
  BY <1>4 DEF PrepareFails, Goto, Unwind, Fault, hardware, sessionVars, queueVars, gateVars,
         bounds
<1>5. ASSUME NEW s \in Sessions, Restore(s) PROVE HardwareTypes'
  <2>1. Head(left[s]) \in Settings
    BY <1>5,
         HeadAndTail DEF Restore
  <2> DEFINE h == Head(left[s])
  <2>2. CASE setting' = [setting EXCEPT ![h] = before[s][h]]
    <3>1. h \in Settings
      BY <2>1
    <3> HIDE DEF h
    <3>2. before[s][h] \in Values
      BY <3>1
    <3> QED
      BY <1>5,
         <2>2, <3>1, <3>2 DEF Restore, hardware, sessionVars, queueVars, gateVars,
         bounds
  <2>3. CASE UNCHANGED setting
    BY <1>5, <2>3 DEF Restore, hardware, sessionVars,
         queueVars, gateVars, bounds
  <2> QED
    BY <1>5, <2>2, <2>3 DEF Restore
<1>6. ASSUME NEW s \in Sessions, Release(s) PROVE HardwareTypes'
  BY <1>6 DEF Release, Goto, hardware, sessionVars, queueVars, gateVars, bounds
<1>7. ASSUME NEW s \in Sessions, Interrupt(s) PROVE HardwareTypes'
  BY <1>7 DEF Interrupt, Goto, Unwind, hardware, sessionVars, queueVars, gateVars, bounds
<1>8. ASSUME NEW s \in Sessions, Kill(s) PROVE HardwareTypes'
  BY <1>8 DEF Kill, Goto, Fault, hardware, sessionVars, queueVars, gateVars, bounds
<1>9. ASSUME NEW s \in Sessions, NEW w \in Workers, StartWorker(s, w) PROVE HardwareTypes'
  BY <1>9 DEF StartWorker, hardware, sessionVars, queueVars, gateVars, bounds
<1>10. ASSUME NEW s \in Sessions, Begin(s) \/ Cooldown(s) \/ Spawn(s) \/ Wait(s)
         \/ ChildEnded(s) \/ StopChild(s) \/ SchedulerStarts(s) \/ Attach(s) \/ SchedulerStops(s)
         \/ SchedulerEnds(s) \/ SchedulerKilled(s) PROVE HardwareTypes'
  BY <1>10 DEF Begin, Goto, Cooldown, Spawn, Wait, ChildEnded, Unwind, StopChild,
         SchedulerStarts, Attach, SchedulerStops, Fault, SchedulerEnds, SchedulerKilled, hardware,
         sessionVars, queueVars, gateVars, bounds
<1>11. ASSUME NEW w \in Workers, WorkerStops(w) \/ WorkerFinishes(w) \/ WorkerKilled(w)
         \/ Evaluate(w) PROVE HardwareTypes'
  BY <1>11 DEF WorkerStops, Gone, Ends, WorkerFinishes, WorkerKilled, Fault, Evaluate,
         GateStep, Ask, Enter, EnterInner, LeaveInner, LeaveGate, Move, hardware,
         sessionVars, queueVars, gateVars, bounds
<1>12. CASE UNCHANGED vars
  BY <1>12 DEF vars, hardware, sessionVars, queueVars, gateVars, bounds
<1> QED
  BY <1>1, <1>2, <1>3, <1>4, <1>5, <1>6, <1>7, <1>8, <1>9, <1>10, <1>11, <1>12 DEF Next,
         SessionStep, QueueStep

\* A session and its scheduler stay in their places.
LEMMA SessionTypesStep == SessionTypes /\ [Next]_vars => SessionTypes'
<1> SUFFICES ASSUME SessionTypes, [Next]_vars PROVE SessionTypes'
  OBVIOUS
<1> USE SessionAssumption DEF SessionTypes, Inside, Computing, Values, Places, QueueAlive
<1>1. ASSUME NEW s \in Sessions, Begin(s) PROVE SessionTypes'
  BY <1>1 DEF Begin, Goto, hardware, sessionVars, queueVars, gateVars, bounds
<1>2. ASSUME NEW s \in Sessions, TakeLock(s) PROVE SessionTypes'
  <2>1. pc' \in [Sessions -> Inside \cup {"off", "lock", "ended"}]
    BY <1>2 DEF TakeLock, Goto, hardware, sessionVars, queueVars, gateVars, bounds
  <2>2. left' \in [Sessions -> Seq(Settings)]
    BY <1>2 DEF TakeLock, Goto, hardware, sessionVars, queueVars, gateVars, bounds
  <2>3. child' \in [Sessions -> {"none", "start", "run", "stop", "gone"}]
    BY <1>2 DEF TakeLock, Goto, hardware, sessionVars, queueVars, gateVars, bounds
  <2> QED
    BY <2>1, <2>2, <2>3
<1>3. ASSUME NEW s \in Sessions, ReadPrevious(s) PROVE SessionTypes'
  BY <1>3, OrdersComplete DEF ReadPrevious, Goto, hardware, sessionVars, queueVars,
         gateVars, bounds
<1>4. ASSUME NEW s \in Sessions, Apply(s) PROVE SessionTypes'
  BY <1>4, HeadAndTail DEF Apply, hardware, sessionVars, queueVars, gateVars, bounds
<1>5. ASSUME NEW s \in Sessions, PrepareFails(s) PROVE SessionTypes'
  <2>1. pc' \in [Sessions -> Inside \cup {"off", "lock", "ended"}]
    BY <1>5, OrdersComplete DEF PrepareFails, Goto, Unwind, Fault, hardware, sessionVars,
           queueVars, gateVars, bounds
  <2>2. left' \in [Sessions -> Seq(Settings)]
    BY <1>5, OrdersComplete DEF PrepareFails, Goto, Unwind, Fault, hardware, sessionVars,
           queueVars, gateVars, bounds
  <2>3. child' \in [Sessions -> {"none", "start", "run", "stop", "gone"}]
    BY <1>5, OrdersComplete DEF PrepareFails, Goto, Unwind, Fault, hardware, sessionVars,
           queueVars, gateVars, bounds
  <2> QED
    BY <2>1, <2>2, <2>3
<1>6. ASSUME NEW s \in Sessions, Cooldown(s) PROVE SessionTypes'
  BY <1>6 DEF Cooldown, Goto, hardware, sessionVars, queueVars, gateVars, bounds
<1>7. ASSUME NEW s \in Sessions, Spawn(s) PROVE SessionTypes'
  BY <1>7 DEF Spawn, Goto, hardware, sessionVars, queueVars, gateVars, bounds
<1>8. ASSUME NEW s \in Sessions, Wait(s) PROVE SessionTypes'
  BY <1>8 DEF Wait, Goto, hardware, sessionVars, queueVars, gateVars, bounds
<1>9. ASSUME NEW s \in Sessions, ChildEnded(s) PROVE SessionTypes'
  BY <1>9, OrdersComplete DEF ChildEnded, Goto, Unwind, hardware, sessionVars, queueVars,
         gateVars, bounds
<1>10. ASSUME NEW s \in Sessions, StopChild(s) PROVE SessionTypes'
  BY <1>10 DEF StopChild, Goto, hardware, sessionVars, queueVars, gateVars, bounds
<1>11. ASSUME NEW s \in Sessions, Restore(s) PROVE SessionTypes'
  BY <1>11, HeadAndTail DEF Restore, Fault, hardware, sessionVars, queueVars, gateVars,
         bounds
<1>12. ASSUME NEW s \in Sessions, Release(s) PROVE SessionTypes'
  BY <1>12 DEF Release, Goto, hardware, sessionVars, queueVars, gateVars, bounds
<1>13. ASSUME NEW s \in Sessions, Interrupt(s) PROVE SessionTypes'
  <2>1. pc' \in [Sessions -> Inside \cup {"off", "lock", "ended"}]
    BY <1>13, OrdersComplete DEF Interrupt, Goto, Unwind, hardware, sessionVars, queueVars,
           gateVars, bounds
  <2>2. left' \in [Sessions -> Seq(Settings)]
    BY <1>13, OrdersComplete DEF Interrupt, Goto, Unwind, hardware, sessionVars, queueVars,
           gateVars, bounds
  <2>3. child' \in [Sessions -> {"none", "start", "run", "stop", "gone"}]
    BY <1>13, OrdersComplete DEF Interrupt, Goto, Unwind, hardware, sessionVars, queueVars,
           gateVars, bounds
  <2> QED
    BY <2>1, <2>2, <2>3
<1>14. ASSUME NEW s \in Sessions, Kill(s) PROVE SessionTypes'
  BY <1>14 DEF Kill, Goto, Fault, hardware, sessionVars, queueVars, gateVars, bounds
<1>15. ASSUME NEW s \in Sessions, SchedulerStarts(s) \/ Attach(s) PROVE SessionTypes'
  BY <1>15 DEF SchedulerStarts, Attach, hardware, sessionVars, queueVars, gateVars, bounds
<1>16. ASSUME NEW s \in Sessions, SchedulerStops(s) PROVE SessionTypes'
  BY <1>16 DEF SchedulerStops, Fault, hardware, sessionVars, queueVars, gateVars, bounds
<1>17. ASSUME NEW s \in Sessions, SchedulerEnds(s) PROVE SessionTypes'
  BY <1>17 DEF SchedulerEnds, hardware, sessionVars, queueVars, gateVars, bounds
<1>18. ASSUME NEW s \in Sessions, SchedulerKilled(s) PROVE SessionTypes'
  BY <1>18 DEF SchedulerKilled, Fault, hardware, sessionVars, queueVars, gateVars, bounds
<1>19. ASSUME NEW s \in Sessions, NEW w \in Workers, StartWorker(s, w) PROVE SessionTypes'
  BY <1>19 DEF StartWorker, hardware, sessionVars, queueVars, gateVars, bounds
<1>20. ASSUME NEW w \in Workers, WorkerStops(w) \/ WorkerFinishes(w) \/ WorkerKilled(w)
         \/ Evaluate(w) PROVE SessionTypes'
  BY <1>20 DEF WorkerStops, Gone, Ends, WorkerFinishes, WorkerKilled, Fault, Evaluate,
         GateStep, Ask, Enter, EnterInner, LeaveInner, LeaveGate, Move, hardware,
         sessionVars, queueVars, gateVars, bounds
<1>21. CASE UNCHANGED vars
  BY <1>21 DEF vars, hardware, sessionVars, queueVars, gateVars, bounds
<1> QED
  BY <1>1, <1>2, <1>3, <1>4, <1>5, <1>6, <1>7, <1>8, <1>9, <1>10, <1>11, <1>12, <1>13,
         <1>14, <1>15, <1>16, <1>17, <1>18, <1>19, <1>20, <1>21 DEF Next, SessionStep,
         QueueStep

\* The lock changes hands only when a session takes it or leaves.
LEMMA LockStep == HardwareTypes /\ SessionTypes /\ LockInv /\ [Next]_vars => LockInv'
<1> SUFFICES ASSUME HardwareTypes /\ SessionTypes /\ LockInv, [Next]_vars PROVE LockInv'
  OBVIOUS
<1> USE SessionAssumption DEF HardwareTypes, SessionTypes, LockInv, Inside, Computing,
         Values, Places
<1>1. ASSUME NEW s \in Sessions, Begin(s) PROVE LockInv'
  BY <1>1 DEF Begin, Goto, hardware, sessionVars, queueVars, gateVars, bounds
<1>2. ASSUME NEW s \in Sessions, TakeLock(s) PROVE LockInv'
  BY <1>2 DEF TakeLock, Goto, hardware, sessionVars, queueVars, gateVars, bounds
<1>3. ASSUME NEW s \in Sessions, ReadPrevious(s) PROVE LockInv'
  BY <1>3 DEF ReadPrevious, Goto, hardware, sessionVars, queueVars, gateVars, bounds
<1>4. ASSUME NEW s \in Sessions, PrepareFails(s) PROVE LockInv'
  BY <1>4 DEF PrepareFails, Goto, Unwind, Fault, hardware, sessionVars, queueVars, gateVars,
         bounds
<1>5. ASSUME NEW s \in Sessions, Cooldown(s) PROVE LockInv'
  BY <1>5 DEF Cooldown, Goto, hardware, sessionVars, queueVars, gateVars, bounds
<1>6. ASSUME NEW s \in Sessions, Spawn(s) PROVE LockInv'
  BY <1>6 DEF Spawn, Goto, hardware, sessionVars, queueVars, gateVars, bounds
<1>7. ASSUME NEW s \in Sessions, Wait(s) PROVE LockInv'
  BY <1>7 DEF Wait, Goto, hardware, sessionVars, queueVars, gateVars, bounds
<1>8. ASSUME NEW s \in Sessions, ChildEnded(s) PROVE LockInv'
  BY <1>8 DEF ChildEnded, Goto, Unwind, hardware, sessionVars, queueVars, gateVars, bounds
<1>9. ASSUME NEW s \in Sessions, StopChild(s) PROVE LockInv'
  BY <1>9 DEF StopChild, Goto, hardware, sessionVars, queueVars, gateVars, bounds
<1>10. ASSUME NEW s \in Sessions, Release(s) PROVE LockInv'
  BY <1>10 DEF Release, Goto, hardware, sessionVars, queueVars, gateVars, bounds
<1>11. ASSUME NEW s \in Sessions, Interrupt(s) PROVE LockInv'
  BY <1>11 DEF Interrupt, Goto, Unwind, hardware, sessionVars, queueVars, gateVars, bounds
<1>12. ASSUME NEW s \in Sessions, Kill(s) PROVE LockInv'
  BY <1>12 DEF Kill, Goto, Fault, hardware, sessionVars, queueVars, gateVars, bounds
<1>13. ASSUME NEW s \in Sessions, NEW w \in Workers, StartWorker(s, w) PROVE LockInv'
  BY <1>13 DEF StartWorker, hardware, sessionVars, queueVars, gateVars, bounds
<1>14. ASSUME NEW s \in Sessions, Apply(s) \/ Restore(s) \/ SchedulerStarts(s) \/ Attach(s)
         \/ SchedulerStops(s) \/ SchedulerEnds(s) \/ SchedulerKilled(s) PROVE LockInv'
  BY <1>14 DEF Apply, Restore, Fault, SchedulerStarts, Attach, SchedulerStops, SchedulerEnds,
         SchedulerKilled, hardware, sessionVars, queueVars, gateVars, bounds
<1>15. ASSUME NEW w \in Workers, WorkerStops(w) \/ WorkerFinishes(w) \/ WorkerKilled(w)
         \/ Evaluate(w) PROVE LockInv'
  BY <1>15 DEF WorkerStops, Gone, Ends, WorkerFinishes, WorkerKilled, Fault, Evaluate,
         GateStep, Ask, Enter, EnterInner, LeaveInner, LeaveGate, Move, hardware,
         sessionVars, queueVars, gateVars, bounds
<1>16. CASE UNCHANGED vars
  BY <1>16 DEF vars, hardware, sessionVars, queueVars, gateVars, bounds
<1> QED
  BY <1>1, <1>2, <1>3, <1>4, <1>5, <1>6, <1>7, <1>8, <1>9, <1>10, <1>11, <1>12, <1>13,
         <1>14, <1>15, <1>16 DEF Next, SessionStep, QueueStep

\* A scheduler only comes with Spawn.
LEMMA ChildStep == SessionTypes /\ ChildInv /\ [Next]_vars => ChildInv'
<1> SUFFICES ASSUME SessionTypes /\ ChildInv, [Next]_vars PROVE ChildInv'
  OBVIOUS
<1> USE SessionAssumption DEF SessionTypes, ChildInv, Inside, Computing, Values, Places,
         QueueAlive
<1>1. ASSUME NEW s \in Sessions, Begin(s) PROVE ChildInv'
  BY <1>1 DEF Begin, Goto, hardware, sessionVars, queueVars, gateVars, bounds
<1>2. ASSUME NEW s \in Sessions, TakeLock(s) PROVE ChildInv'
  BY <1>2 DEF TakeLock, Goto, hardware, sessionVars, queueVars, gateVars, bounds
<1>3. ASSUME NEW s \in Sessions, ReadPrevious(s) PROVE ChildInv'
  BY <1>3 DEF ReadPrevious, Goto, hardware, sessionVars, queueVars, gateVars, bounds
<1>4. ASSUME NEW s \in Sessions, PrepareFails(s) PROVE ChildInv'
  BY <1>4 DEF PrepareFails, Goto, Unwind, Fault, hardware, sessionVars, queueVars, gateVars,
         bounds
<1>5. ASSUME NEW s \in Sessions, Cooldown(s) PROVE ChildInv'
  BY <1>5 DEF Cooldown, Goto, hardware, sessionVars, queueVars, gateVars, bounds
<1>6. ASSUME NEW s \in Sessions, Spawn(s) PROVE ChildInv'
  BY <1>6 DEF Spawn, Goto, hardware, sessionVars, queueVars, gateVars, bounds
<1>7. ASSUME NEW s \in Sessions, Wait(s) PROVE ChildInv'
  BY <1>7 DEF Wait, Goto, hardware, sessionVars, queueVars, gateVars, bounds
<1>8. ASSUME NEW s \in Sessions, ChildEnded(s) PROVE ChildInv'
  BY <1>8 DEF ChildEnded, Goto, Unwind, hardware, sessionVars, queueVars, gateVars, bounds
<1>9. ASSUME NEW s \in Sessions, StopChild(s) PROVE ChildInv'
  BY <1>9 DEF StopChild, Goto, hardware, sessionVars, queueVars, gateVars, bounds
<1>10. ASSUME NEW s \in Sessions, Release(s) PROVE ChildInv'
  BY <1>10 DEF Release, Goto, hardware, sessionVars, queueVars, gateVars, bounds
<1>11. ASSUME NEW s \in Sessions, Interrupt(s) PROVE ChildInv'
  BY <1>11 DEF Interrupt, Goto, Unwind, hardware, sessionVars, queueVars, gateVars, bounds
<1>12. ASSUME NEW s \in Sessions, Kill(s) PROVE ChildInv'
  BY <1>12 DEF Kill, Goto, Fault, hardware, sessionVars, queueVars, gateVars, bounds
<1>13. ASSUME NEW s \in Sessions, SchedulerStarts(s) \/ Attach(s) PROVE ChildInv'
  BY <1>13 DEF SchedulerStarts, Attach, hardware, sessionVars, queueVars, gateVars, bounds
<1>14. ASSUME NEW s \in Sessions, SchedulerStops(s) PROVE ChildInv'
  BY <1>14 DEF SchedulerStops, Fault, hardware, sessionVars, queueVars, gateVars, bounds
<1>15. ASSUME NEW s \in Sessions, SchedulerEnds(s) PROVE ChildInv'
  BY <1>15 DEF SchedulerEnds, hardware, sessionVars, queueVars, gateVars, bounds
<1>16. ASSUME NEW s \in Sessions, SchedulerKilled(s) PROVE ChildInv'
  BY <1>16 DEF SchedulerKilled, Fault, hardware, sessionVars, queueVars, gateVars, bounds
<1>17. ASSUME NEW s \in Sessions, NEW w \in Workers, StartWorker(s, w) PROVE ChildInv'
  BY <1>17 DEF StartWorker, hardware, sessionVars, queueVars, gateVars, bounds
<1>18. ASSUME NEW s \in Sessions, Apply(s) \/ Restore(s) PROVE ChildInv'
  BY <1>18 DEF Apply, Restore, Fault, hardware, sessionVars, queueVars, gateVars, bounds
<1>19. ASSUME NEW w \in Workers, WorkerStops(w) \/ WorkerFinishes(w) \/ WorkerKilled(w)
         \/ Evaluate(w) PROVE ChildInv'
  BY <1>19 DEF WorkerStops, Gone, Ends, WorkerFinishes, WorkerKilled, Fault, Evaluate,
         GateStep, Ask, Enter, EnterInner, LeaveInner, LeaveGate, Move, hardware,
         sessionVars, queueVars, gateVars, bounds
<1>20. CASE UNCHANGED vars
  BY <1>20 DEF vars, hardware, sessionVars, queueVars, gateVars, bounds
<1> QED
  BY <1>1, <1>2, <1>3, <1>4, <1>5, <1>6, <1>7, <1>8, <1>9, <1>10, <1>11, <1>12, <1>13,
         <1>14, <1>15, <1>16, <1>17, <1>18, <1>19, <1>20 DEF Next, SessionStep, QueueStep

\* A session that nothing broke waits until its scheduler has ended.
LEMMA ComputeStep == SessionTypes /\ ChildInv /\ ComputeInv /\ [Next]_vars => ComputeInv'
<1> SUFFICES ASSUME SessionTypes /\ ChildInv /\ ComputeInv, [Next]_vars PROVE ComputeInv'
  OBVIOUS
<1> USE SessionAssumption DEF SessionTypes, ChildInv, ComputeInv, Inside, Computing, Values,
         Places, QueueAlive, Handled
<1>1. ASSUME NEW s \in Sessions, Begin(s) PROVE ComputeInv'
  BY <1>1 DEF Begin, Goto, hardware, sessionVars, queueVars, gateVars, bounds
<1>2. ASSUME NEW s \in Sessions, TakeLock(s) PROVE ComputeInv'
  BY <1>2 DEF TakeLock, Goto, hardware, sessionVars, queueVars, gateVars, bounds
<1>3. ASSUME NEW s \in Sessions, ReadPrevious(s) PROVE ComputeInv'
  BY <1>3 DEF ReadPrevious, Goto, hardware, sessionVars, queueVars, gateVars, bounds
<1>4. ASSUME NEW s \in Sessions, PrepareFails(s) PROVE ComputeInv'
  BY <1>4 DEF PrepareFails, Goto, Unwind, Fault, hardware, sessionVars, queueVars, gateVars,
         bounds
<1>5. ASSUME NEW s \in Sessions, Cooldown(s) PROVE ComputeInv'
  BY <1>5 DEF Cooldown, Goto, hardware, sessionVars, queueVars, gateVars, bounds
<1>6. ASSUME NEW s \in Sessions, Spawn(s) PROVE ComputeInv'
  BY <1>6 DEF Spawn, Goto, hardware, sessionVars, queueVars, gateVars, bounds
<1>7. ASSUME NEW s \in Sessions, Wait(s) PROVE ComputeInv'
  BY <1>7 DEF Wait, Goto, hardware, sessionVars, queueVars, gateVars, bounds
<1>8. ASSUME NEW s \in Sessions, ChildEnded(s) PROVE ComputeInv'
  BY <1>8 DEF ChildEnded, Goto, Unwind, hardware, sessionVars, queueVars, gateVars, bounds
<1>9. ASSUME NEW s \in Sessions, StopChild(s) PROVE ComputeInv'
  BY <1>9 DEF StopChild, Goto, hardware, sessionVars, queueVars, gateVars, bounds
<1>10. ASSUME NEW s \in Sessions, Release(s) PROVE ComputeInv'
  BY <1>10 DEF Release, Goto, hardware, sessionVars, queueVars, gateVars, bounds
<1>11. ASSUME NEW s \in Sessions, Interrupt(s) PROVE ComputeInv'
  BY <1>11 DEF Interrupt, Goto, Unwind, hardware, sessionVars, queueVars, gateVars, bounds
<1>12. ASSUME NEW s \in Sessions, Kill(s) PROVE ComputeInv'
  BY <1>12 DEF Kill, Goto, Fault, hardware, sessionVars, queueVars, gateVars, bounds
<1>13. ASSUME NEW s \in Sessions, SchedulerStarts(s) \/ Attach(s) PROVE ComputeInv'
  BY <1>13 DEF SchedulerStarts, Attach, hardware, sessionVars, queueVars, gateVars, bounds
<1>14. ASSUME NEW s \in Sessions, SchedulerStops(s) PROVE ComputeInv'
  BY <1>14 DEF SchedulerStops, Fault, hardware, sessionVars, queueVars, gateVars, bounds
<1>15. ASSUME NEW s \in Sessions, SchedulerEnds(s) PROVE ComputeInv'
  BY <1>15 DEF SchedulerEnds, hardware, sessionVars, queueVars, gateVars, bounds
<1>16. ASSUME NEW s \in Sessions, SchedulerKilled(s) PROVE ComputeInv'
  BY <1>16 DEF SchedulerKilled, Fault, hardware, sessionVars, queueVars, gateVars, bounds
<1>17. ASSUME NEW s \in Sessions, NEW w \in Workers, StartWorker(s, w) PROVE ComputeInv'
  BY <1>17 DEF StartWorker, hardware, sessionVars, queueVars, gateVars, bounds
<1>18. ASSUME NEW s \in Sessions, Apply(s) \/ Restore(s) PROVE ComputeInv'
  BY <1>18 DEF Apply, Restore, Fault, hardware, sessionVars, queueVars, gateVars, bounds
<1>19. ASSUME NEW w \in Workers, WorkerStops(w) \/ WorkerFinishes(w) \/ WorkerKilled(w)
         \/ Evaluate(w) PROVE ComputeInv'
  BY <1>19 DEF WorkerStops, Gone, Ends, WorkerFinishes, WorkerKilled, Fault, Evaluate,
         GateStep, Ask, Enter, EnterInner, LeaveInner, LeaveGate, Move, hardware,
         sessionVars, queueVars, gateVars, bounds
<1>20. CASE UNCHANGED vars
  BY <1>20 DEF vars, hardware, sessionVars, queueVars, gateVars, bounds
<1> QED
  BY <1>1, <1>2, <1>3, <1>4, <1>5, <1>6, <1>7, <1>8, <1>9, <1>10, <1>11, <1>12, <1>13,
         <1>14, <1>15, <1>16, <1>17, <1>18, <1>19, <1>20 DEF Next, SessionStep, QueueStep

\* Only the holder of the lock writes settings.
LEMMA AppliedStep ==
    HardwareTypes /\ SessionTypes /\ LockInv /\ AppliedInv /\ [Next]_vars => AppliedInv'
<1> SUFFICES ASSUME HardwareTypes /\ SessionTypes /\ LockInv /\ AppliedInv, [Next]_vars
      PROVE  AppliedInv'
  OBVIOUS
<1> USE SessionAssumption DEF HardwareTypes, SessionTypes, LockInv, AppliedInv, Inside,
         Computing, Values, Places, Applied
<1> SUFFICES ASSUME NEW t \in Sessions, NEW x \in Settings PROVE Applied(t, x)'
  OBVIOUS
<1>1. ASSUME NEW s \in Sessions, Begin(s) PROVE Applied(t, x)'
  BY <1>1 DEF Begin, Goto, hardware, sessionVars, queueVars, gateVars, bounds
<1>2. ASSUME NEW s \in Sessions, TakeLock(s) PROVE Applied(t, x)'
  BY <1>2 DEF TakeLock, Goto, hardware, sessionVars, queueVars, gateVars, bounds
<1>3. ASSUME NEW s \in Sessions, ReadPrevious(s) PROVE Applied(t, x)'
  BY <1>3, OrdersComplete DEF ReadPrevious, Goto, hardware, sessionVars, queueVars,
         gateVars, bounds
<1>4. ASSUME NEW s \in Sessions, Apply(s) PROVE Applied(t, x)'
  BY <1>4, HeadAndTail DEF Apply, hardware, sessionVars, queueVars, gateVars, bounds
<1>5. ASSUME NEW s \in Sessions, PrepareFails(s) PROVE Applied(t, x)'
  BY <1>5 DEF PrepareFails, Goto, Unwind, Fault, hardware, sessionVars, queueVars, gateVars,
         bounds
<1>6. ASSUME NEW s \in Sessions, Cooldown(s) PROVE Applied(t, x)'
  BY <1>6, EmptyRange DEF Cooldown, Goto, hardware, sessionVars, queueVars, gateVars,
         bounds
<1>7. ASSUME NEW s \in Sessions, Spawn(s) PROVE Applied(t, x)'
  BY <1>7 DEF Spawn, Goto, hardware, sessionVars, queueVars, gateVars, bounds
<1>8. ASSUME NEW s \in Sessions, Wait(s) PROVE Applied(t, x)'
  BY <1>8 DEF Wait, Goto, hardware, sessionVars, queueVars, gateVars, bounds
<1>9. ASSUME NEW s \in Sessions, ChildEnded(s) PROVE Applied(t, x)'
  BY <1>9 DEF ChildEnded, Goto, Unwind, hardware, sessionVars, queueVars, gateVars, bounds
<1>10. ASSUME NEW s \in Sessions, StopChild(s) PROVE Applied(t, x)'
  BY <1>10 DEF StopChild, Goto, hardware, sessionVars, queueVars, gateVars, bounds
<1>11. ASSUME NEW s \in Sessions, Restore(s) PROVE Applied(t, x)'
  BY <1>11, HeadAndTail DEF Restore, Fault, hardware, sessionVars, queueVars, gateVars,
         bounds
<1>12. ASSUME NEW s \in Sessions, Release(s) PROVE Applied(t, x)'
  BY <1>12 DEF Release, Goto, hardware, sessionVars, queueVars, gateVars, bounds
<1>13. ASSUME NEW s \in Sessions, Interrupt(s) PROVE Applied(t, x)'
  BY <1>13 DEF Interrupt, Goto, Unwind, hardware, sessionVars, queueVars, gateVars, bounds
<1>14. ASSUME NEW s \in Sessions, Kill(s) PROVE Applied(t, x)'
  BY <1>14 DEF Kill, Goto, Fault, hardware, sessionVars, queueVars, gateVars, bounds
<1>15. ASSUME NEW s \in Sessions, NEW w \in Workers, StartWorker(s, w) PROVE Applied(t, x)'
  BY <1>15 DEF StartWorker, hardware, sessionVars, queueVars, gateVars, bounds
<1>16. ASSUME NEW s \in Sessions, SchedulerStarts(s) \/ Attach(s) \/ SchedulerStops(s)
         \/ SchedulerEnds(s) \/ SchedulerKilled(s) PROVE Applied(t, x)'
  BY <1>16 DEF SchedulerStarts, Attach, SchedulerStops, Fault, SchedulerEnds, SchedulerKilled,
         hardware, sessionVars, queueVars, gateVars, bounds
<1>17. ASSUME NEW w \in Workers, WorkerStops(w) \/ WorkerFinishes(w) \/ WorkerKilled(w)
         \/ Evaluate(w) PROVE Applied(t, x)'
  BY <1>17 DEF WorkerStops, Gone, Ends, WorkerFinishes, WorkerKilled, Fault, Evaluate,
         GateStep, Ask, Enter, EnterInner, LeaveInner, LeaveGate, Move, hardware,
         sessionVars, queueVars, gateVars, bounds
<1>18. CASE UNCHANGED vars
  BY <1>18 DEF vars, hardware, sessionVars, queueVars, gateVars, bounds
<1> QED
  BY <1>1, <1>2, <1>3, <1>4, <1>5, <1>6, <1>7, <1>8, <1>9, <1>10, <1>11, <1>12, <1>13,
         <1>14, <1>15, <1>16, <1>17, <1>18 DEF Next, SessionStep, QueueStep

\* What a session restores is what it has read, and that is the user's.
LEMMA UserStep ==
    HardwareTypes /\ SessionTypes /\ LockInv /\ UserInv /\ [Next]_vars => UserInv'
<1> SUFFICES ASSUME HardwareTypes /\ SessionTypes /\ LockInv /\ UserInv, [Next]_vars
      PROVE  UserInv'
  OBVIOUS
<1> USE SessionAssumption DEF HardwareTypes, SessionTypes, LockInv, UserInv, Inside,
         Computing, Values, Places, Idle, Restored
<1> SUFFICES ASSUME (again \cup broken = {})', NEW x \in Settings
      PROVE  Idle(x)' /\ \A t \in Sessions : Restored(t, x)'
  OBVIOUS
<1>1. ASSUME NEW s \in Sessions, Begin(s)
      PROVE  Idle(x)' /\ \A t \in Sessions : Restored(t, x)'
  BY <1>1 DEF Begin, Goto, hardware, sessionVars, queueVars, gateVars, bounds
<1>2. ASSUME NEW s \in Sessions, TakeLock(s)
      PROVE  Idle(x)' /\ \A t \in Sessions : Restored(t, x)'
  BY <1>2 DEF TakeLock, Goto, hardware, sessionVars, queueVars, gateVars, bounds
<1>3. ASSUME NEW s \in Sessions, ReadPrevious(s)
      PROVE  Idle(x)' /\ \A t \in Sessions : Restored(t, x)'
  BY <1>3 DEF ReadPrevious, Goto, hardware, sessionVars, queueVars, gateVars, bounds
<1>4. ASSUME NEW s \in Sessions, Apply(s)
      PROVE  Idle(x)' /\ \A t \in Sessions : Restored(t, x)'
  BY <1>4, HeadAndTail DEF Apply, hardware, sessionVars, queueVars, gateVars, bounds
<1>5. ASSUME NEW s \in Sessions, PrepareFails(s)
      PROVE  Idle(x)' /\ \A t \in Sessions : Restored(t, x)'
  <2>1. CASE pc[s] = "read"
    BY <1>5, <2>1 DEF PrepareFails, Goto
  <2>2. CASE pc[s] # "read"
    <3>1. /\ pc[s] \in {"apply", "spawn"} /\ UNCHANGED <<setting, before, lock, again, broken>>
          /\ pc' = [pc EXCEPT ![s] = "restore"] /\ left' = [left EXCEPT ![s] = RestoreOrder]
      BY <1>5, <2>2 DEF PrepareFails, Goto, Unwind
    <3> QED
      BY <3>1, OrdersComplete
  <2> QED
    BY <2>1, <2>2
<1>6. ASSUME NEW s \in Sessions, Cooldown(s)
      PROVE  Idle(x)' /\ \A t \in Sessions : Restored(t, x)'
  BY <1>6 DEF Cooldown, Goto, hardware, sessionVars, queueVars, gateVars, bounds
<1>7. ASSUME NEW s \in Sessions, Spawn(s)
      PROVE  Idle(x)' /\ \A t \in Sessions : Restored(t, x)'
  BY <1>7 DEF Spawn, Goto, hardware, sessionVars, queueVars, gateVars, bounds
<1>8. ASSUME NEW s \in Sessions, Wait(s)
      PROVE  Idle(x)' /\ \A t \in Sessions : Restored(t, x)'
  BY <1>8 DEF Wait, Goto, hardware, sessionVars, queueVars, gateVars, bounds
<1>9. ASSUME NEW s \in Sessions, ChildEnded(s)
      PROVE  Idle(x)' /\ \A t \in Sessions : Restored(t, x)'
  BY <1>9, OrdersComplete DEF ChildEnded, Goto, Unwind, hardware, sessionVars, queueVars,
         gateVars, bounds
<1>10. ASSUME NEW s \in Sessions, StopChild(s)
      PROVE  Idle(x)' /\ \A t \in Sessions : Restored(t, x)'
  BY <1>10 DEF StopChild, Goto, hardware, sessionVars, queueVars, gateVars, bounds
<1>11. ASSUME NEW s \in Sessions, Restore(s)
      PROVE  Idle(x)' /\ \A t \in Sessions : Restored(t, x)'
  <2>1. /\ Head(left[s]) \in Settings /\ pc[s] = "restore"
        /\ Range(left[s]) = {Head(left[s])} \cup Range(Tail(left[s]))
    BY <1>11, HeadAndTail DEF Restore
  <2>2. CASE /\ setting' = [setting EXCEPT ![Head(left[s])] = before[s][Head(left[s])]]
             /\ UNCHANGED <<broken, faults>>
    <3>1. \A y \in Settings : Restored(s, y) /\ Idle(y)
      BY <1>11, <2>2 DEF Restore, hardware, sessionVars, queueVars, gateVars, bounds
    <3>2. before[s][Head(left[s])] = "user"
      BY <2>1, <3>1
    <3>3. setting'[x] = IF x = Head(left[s]) THEN "user" ELSE setting[x]
      BY <2>1, <2>2, <3>2
    <3>4. lock = s
      BY <2>1
    <3> QED
      BY <1>11, <2>1, <3>1, <3>3, <3>4 DEF Restore, hardware, sessionVars, queueVars,
             gateVars, bounds
  <2>3. CASE broken' = broken \cup {s}
    BY <2>3
  <2> QED
    BY <1>11, <2>2, <2>3 DEF Restore
<1>12. ASSUME NEW s \in Sessions, Release(s)
      PROVE  Idle(x)' /\ \A t \in Sessions : Restored(t, x)'
  BY <1>12, EmptyRange DEF Release, Goto, hardware, sessionVars, queueVars, gateVars,
         bounds
<1>13. ASSUME NEW s \in Sessions, Interrupt(s)
      PROVE  Idle(x)' /\ \A t \in Sessions : Restored(t, x)'
  <2>1. CASE pc[s] \in {"lock", "read"}
    BY <1>13, <2>1 DEF Interrupt, Goto, hardware, sessionVars, queueVars, gateVars, bounds
  <2>2. CASE pc[s] \in {"apply", "spawn"}
    BY <1>13, <2>2, OrdersComplete DEF Interrupt, Goto, Unwind, hardware, sessionVars,
           queueVars, gateVars, bounds
  <2>3. CASE pc[s] = "wait"
    BY <1>13, <2>3 DEF Interrupt, Goto, hardware, sessionVars, queueVars, gateVars, bounds
  <2>4. CASE again' = again \cup {s}
    BY <2>4
  <2> QED
    BY <1>13, <2>1, <2>2, <2>3, <2>4 DEF Interrupt
<1>14. ASSUME NEW s \in Sessions, Kill(s)
      PROVE  Idle(x)' /\ \A t \in Sessions : Restored(t, x)'
  BY <1>14 DEF Kill, Goto, Fault, hardware, sessionVars, queueVars, gateVars, bounds
<1>15. ASSUME NEW s \in Sessions, SchedulerStarts(s) \/ Attach(s)
      PROVE  Idle(x)' /\ \A t \in Sessions : Restored(t, x)'
  BY <1>15 DEF SchedulerStarts, Attach, hardware, sessionVars, queueVars, gateVars, bounds
<1>16. ASSUME NEW s \in Sessions, SchedulerStops(s)
      PROVE  Idle(x)' /\ \A t \in Sessions : Restored(t, x)'
  BY <1>16 DEF SchedulerStops, Fault, hardware, sessionVars, queueVars, gateVars, bounds
<1>17. ASSUME NEW s \in Sessions, SchedulerEnds(s)
      PROVE  Idle(x)' /\ \A t \in Sessions : Restored(t, x)'
  BY <1>17 DEF SchedulerEnds, hardware, sessionVars, queueVars, gateVars, bounds
<1>18. ASSUME NEW s \in Sessions, SchedulerKilled(s)
      PROVE  Idle(x)' /\ \A t \in Sessions : Restored(t, x)'
  BY <1>18 DEF SchedulerKilled, Fault, hardware, sessionVars, queueVars, gateVars, bounds
<1>19. ASSUME NEW s \in Sessions, NEW w \in Workers, StartWorker(s, w)
      PROVE  Idle(x)' /\ \A t \in Sessions : Restored(t, x)'
  BY <1>19 DEF StartWorker, hardware, sessionVars, queueVars, gateVars, bounds
<1>20. ASSUME NEW w \in Workers, WorkerStops(w) \/ WorkerFinishes(w) \/ WorkerKilled(w)
         \/ Evaluate(w) PROVE Idle(x)' /\ \A t \in Sessions : Restored(t, x)'
  BY <1>20 DEF WorkerStops, Gone, Ends, WorkerFinishes, WorkerKilled, Fault, Evaluate,
         GateStep, Ask, Enter, EnterInner, LeaveInner, LeaveGate, Move, hardware,
         sessionVars, queueVars, gateVars, bounds
<1>21. CASE UNCHANGED vars
  BY <1>21 DEF vars, hardware, sessionVars, queueVars, gateVars, bounds
<1> QED
  BY <1>1, <1>2, <1>3, <1>4, <1>5, <1>6, <1>7, <1>8, <1>9, <1>10, <1>11, <1>12, <1>13,
         <1>14, <1>15, <1>16, <1>17, <1>18, <1>19, <1>20, <1>21 DEF Next, SessionStep,
         QueueStep

-----------------------------------------------------------------------------
(* Workers *)

\* With less than --workers live workers a side is free.
LEMMA FreeSide ==
    ASSUME WorkerTypes, OwnedInv, NEW s \in Sessions, Cardinality(Running) < Capacity
    PROVE  ChooseSide(s) \in {1, 2} /\ \A w \in Own(s) : side[w] # ChooseSide(s)
<1>1. FreeSides(s) # {}
  <2> SUFFICES ASSUME FreeSides(s) = {} PROVE FALSE
    OBVIOUS
  <2>1. PICK w \in Own(s) : side[w] = 1
    BY DEF FreeSides
  <2>2. PICK v \in Own(s) : side[v] = 2
    BY DEF FreeSides
  <2>3. w # v /\ {w, v} \subseteq Running
    BY <2>1, <2>2, SessionAssumption DEF Own, OwnedInv, Running
  <2>4. IsFiniteSet(Running)
    BY SessionAssumption, FS_Subset DEF Running
  <2>5. Cardinality({w, v}) <= Cardinality(Running)
    BY <2>3, <2>4, FS_Subset
  <2>6. Cardinality({w, v}) = 2
    <3>1. IsFiniteSet({w}) /\ Cardinality({w}) = 1
      BY FS_Singleton
    <3>2. {w, v} = {w} \cup {v} /\ v \notin {w}
      BY <2>3
    <3>3. Cardinality({w} \cup {v}) = Cardinality({w}) + 1
      BY <3>1, <3>2, FS_AddElement
    <3> QED
      BY <3>1, <3>2, <3>3
  <2>7. Cardinality(Running) \in Nat
    BY <2>4, FS_CardinalityType
  <2> QED
    BY <2>5, <2>6, <2>7, SessionAssumption
<1>2. FreeSides(s) \subseteq {1, 2}
  BY DEF FreeSides
<1>3. \E x \in FreeSides(s) : \A y \in FreeSides(s) : x <= y
  <2>1. CASE 1 \in FreeSides(s)
    BY <1>2, <2>1
  <2>2. CASE 1 \notin FreeSides(s)
    BY <1>1, <1>2, <2>2
  <2> QED
    BY <2>1, <2>2
<1>4. ChooseSide(s) \in FreeSides(s)
  BY <1>3, Zenon DEF ChooseSide
<1> QED
  BY <1>2, <1>4 DEF FreeSides

\* A worker stays in its places and gets a side when it starts.
LEMMA WorkerTypesStep == WorkerTypes /\ OwnedInv /\ [Next]_vars => WorkerTypes'
<1> SUFFICES ASSUME WorkerTypes /\ OwnedInv, [Next]_vars PROVE WorkerTypes'
  OBVIOUS
<1> USE SessionAssumption DEF WorkerTypes, OwnedInv, Inside, Computing, Values, Places
<1>1. ASSUME NEW s \in Sessions, NEW w \in Workers, StartWorker(s, w) PROVE WorkerTypes'
  <2>1. ChooseSide(s) \in {1, 2} /\ \A v \in Own(s) : side[v] # ChooseSide(s)
    BY <1>1, FreeSide DEF StartWorker
  <2> QED
    BY <1>1, <2>1 DEF StartWorker, Own, hardware, sessionVars, queueVars, gateVars, bounds
<1>2. ASSUME NEW s \in Sessions, Begin(s) \/ TakeLock(s) \/ ReadPrevious(s) \/ Apply(s)
         \/ PrepareFails(s) \/ Cooldown(s) \/ Spawn(s) \/ Wait(s) \/ ChildEnded(s)
         \/ StopChild(s) \/ Restore(s) \/ Release(s) \/ Interrupt(s) \/ Kill(s)
         \/ SchedulerStarts(s) \/ Attach(s) \/ SchedulerStops(s) \/ SchedulerEnds(s)
         \/ SchedulerKilled(s) PROVE WorkerTypes'
  BY <1>2 DEF Begin, Goto, TakeLock, ReadPrevious, Apply, PrepareFails, Unwind, Fault,
         Cooldown, Spawn, Wait, ChildEnded, StopChild, Restore, Release, Interrupt, Kill,
         SchedulerStarts, Attach, SchedulerStops, SchedulerEnds, SchedulerKilled, hardware,
         sessionVars, queueVars, gateVars, bounds
<1>3. ASSUME NEW w \in Workers, WorkerStops(w) PROVE WorkerTypes'
  BY <1>3 DEF WorkerStops, Gone, Ends, hardware, sessionVars, queueVars, gateVars, bounds
<1>4. ASSUME NEW w \in Workers, WorkerFinishes(w) PROVE WorkerTypes'
  BY <1>4 DEF WorkerFinishes, Gone, Ends, hardware, sessionVars, queueVars, gateVars, bounds
<1>5. ASSUME NEW w \in Workers, WorkerKilled(w) PROVE WorkerTypes'
  BY <1>5 DEF WorkerKilled, Gone, Ends, Fault, hardware, sessionVars, queueVars, gateVars,
         bounds
<1>6. ASSUME NEW w \in Workers, Evaluate(w) PROVE WorkerTypes'
  BY <1>6 DEF Evaluate, GateStep, Ask, Enter, EnterInner, LeaveInner, LeaveGate, Move,
         hardware, sessionVars, queueVars, gateVars, bounds
<1>7. CASE UNCHANGED vars
  BY <1>7 DEF vars, hardware, sessionVars, queueVars, gateVars, bounds
<1> QED
  BY <1>1, <1>2, <1>3, <1>4, <1>5, <1>6, <1>7 DEF Next, SessionStep, QueueStep

\* A worker has an owner and a side while it lives.
LEMMA OwnedStep == WorkerTypes /\ OwnedInv /\ [Next]_vars => OwnedInv'
<1> SUFFICES ASSUME WorkerTypes /\ OwnedInv, [Next]_vars PROVE OwnedInv'
  OBVIOUS
<1> USE SessionAssumption DEF WorkerTypes, OwnedInv, Inside, Computing, Values, Places, Live
<1>1. ASSUME NEW s \in Sessions, NEW w \in Workers, StartWorker(s, w) PROVE OwnedInv'
  <2>1. ChooseSide(s) \in {1, 2} /\ \A v \in Own(s) : side[v] # ChooseSide(s)
    BY <1>1, FreeSide DEF StartWorker
  <2> QED
    BY <1>1, <2>1 DEF StartWorker, Own, hardware, sessionVars, queueVars, gateVars, bounds
<1>2. ASSUME NEW s \in Sessions, Begin(s) \/ TakeLock(s) \/ ReadPrevious(s) \/ Apply(s)
         \/ PrepareFails(s) \/ Cooldown(s) \/ Spawn(s) \/ Wait(s) \/ ChildEnded(s)
         \/ StopChild(s) \/ Restore(s) \/ Release(s) \/ Interrupt(s) \/ Kill(s)
         \/ SchedulerStarts(s) \/ Attach(s) \/ SchedulerStops(s) \/ SchedulerEnds(s)
         \/ SchedulerKilled(s) PROVE OwnedInv'
  BY <1>2 DEF Begin, Goto, TakeLock, ReadPrevious, Apply, PrepareFails, Unwind, Fault,
         Cooldown, Spawn, Wait, ChildEnded, StopChild, Restore, Release, Interrupt, Kill,
         SchedulerStarts, Attach, SchedulerStops, SchedulerEnds, SchedulerKilled, hardware,
         sessionVars, queueVars, gateVars, bounds
<1>3. ASSUME NEW w \in Workers, WorkerStops(w) PROVE OwnedInv'
  BY <1>3 DEF WorkerStops, Gone, Ends, hardware, sessionVars, queueVars, gateVars, bounds
<1>4. ASSUME NEW w \in Workers, WorkerFinishes(w) PROVE OwnedInv'
  BY <1>4 DEF WorkerFinishes, Gone, Ends, hardware, sessionVars, queueVars, gateVars, bounds
<1>5. ASSUME NEW w \in Workers, WorkerKilled(w) PROVE OwnedInv'
  BY <1>5 DEF WorkerKilled, Gone, Ends, Fault, hardware, sessionVars, queueVars, gateVars,
         bounds
<1>6. ASSUME NEW w \in Workers, Evaluate(w) PROVE OwnedInv'
  BY <1>6 DEF Evaluate, GateStep, Ask, Enter, EnterInner, LeaveInner, LeaveGate, Move,
         hardware, sessionVars, queueVars, gateVars, bounds
<1>7. CASE UNCHANGED vars
  BY <1>7 DEF vars, hardware, sessionVars, queueVars, gateVars, bounds
<1> QED
  BY <1>1, <1>2, <1>3, <1>4, <1>5, <1>6, <1>7 DEF Next, SessionStep, QueueStep

\* A worker starts on a side that none of its session has.
LEMMA SidesStep == WorkerTypes /\ OwnedInv /\ SidesInv /\ [Next]_vars => SidesInv'
<1> SUFFICES ASSUME WorkerTypes /\ OwnedInv /\ SidesInv, [Next]_vars PROVE SidesInv'
  OBVIOUS
<1> USE SessionAssumption DEF WorkerTypes, OwnedInv, SidesInv, Inside, Computing, Values,
         Places, Live
<1>1. ASSUME NEW s \in Sessions, NEW w \in Workers, StartWorker(s, w) PROVE SidesInv'
  <2>1. ChooseSide(s) \in {1, 2} /\ \A v \in Own(s) : side[v] # ChooseSide(s)
    BY <1>1, FreeSide DEF StartWorker
  <2> QED
    BY <1>1, <2>1 DEF StartWorker, Own, hardware, sessionVars, queueVars, gateVars, bounds
<1>2. ASSUME NEW s \in Sessions, Begin(s) \/ TakeLock(s) \/ ReadPrevious(s) \/ Apply(s)
         \/ PrepareFails(s) \/ Cooldown(s) \/ Spawn(s) \/ Wait(s) \/ ChildEnded(s)
         \/ StopChild(s) \/ Restore(s) \/ Release(s) \/ Interrupt(s) \/ Kill(s)
         \/ SchedulerStarts(s) \/ Attach(s) \/ SchedulerStops(s) \/ SchedulerEnds(s)
         \/ SchedulerKilled(s) PROVE SidesInv'
  BY <1>2 DEF Begin, Goto, TakeLock, ReadPrevious, Apply, PrepareFails, Unwind, Fault,
         Cooldown, Spawn, Wait, ChildEnded, StopChild, Restore, Release, Interrupt, Kill,
         SchedulerStarts, Attach, SchedulerStops, SchedulerEnds, SchedulerKilled, hardware,
         sessionVars, queueVars, gateVars, bounds
<1>3. ASSUME NEW w \in Workers, WorkerStops(w) PROVE SidesInv'
  BY <1>3 DEF WorkerStops, Gone, Ends, hardware, sessionVars, queueVars, gateVars, bounds
<1>4. ASSUME NEW w \in Workers, WorkerFinishes(w) PROVE SidesInv'
  BY <1>4 DEF WorkerFinishes, Gone, Ends, hardware, sessionVars, queueVars, gateVars, bounds
<1>5. ASSUME NEW w \in Workers, WorkerKilled(w) PROVE SidesInv'
  BY <1>5 DEF WorkerKilled, Gone, Ends, Fault, hardware, sessionVars, queueVars, gateVars,
         bounds
<1>6. ASSUME NEW w \in Workers, Evaluate(w) PROVE SidesInv'
  BY <1>6 DEF Evaluate, GateStep, Ask, Enter, EnterInner, LeaveInner, LeaveGate, Move,
         hardware, sessionVars, queueVars, gateVars, bounds
<1>7. CASE UNCHANGED vars
  BY <1>7 DEF vars, hardware, sessionVars, queueVars, gateVars, bounds
<1> QED
  BY <1>1, <1>2, <1>3, <1>4, <1>5, <1>6, <1>7 DEF Next, SessionStep, QueueStep

\* The gate is entered by one worker at a time.
LEMMA GateKept == WorkerTypes /\ GateInv /\ [Next]_vars => GateInv'
<1> SUFFICES ASSUME WorkerTypes /\ GateInv, [Next]_vars PROVE GateInv'
  OBVIOUS
<1> USE SessionAssumption DEF WorkerTypes, GateInv, Inside, Computing, Values, Places
<1>1. ASSUME NEW s \in Sessions, NEW w \in Workers, StartWorker(s, w) PROVE GateInv'
  BY <1>1 DEF StartWorker, hardware, sessionVars, queueVars, gateVars, bounds
<1>2. ASSUME NEW s \in Sessions, Begin(s) \/ TakeLock(s) \/ ReadPrevious(s) \/ Apply(s)
         \/ PrepareFails(s) \/ Cooldown(s) \/ Spawn(s) \/ Wait(s) \/ ChildEnded(s)
         \/ StopChild(s) \/ Restore(s) \/ Release(s) \/ Interrupt(s) \/ Kill(s)
         \/ SchedulerStarts(s) \/ Attach(s) \/ SchedulerStops(s) \/ SchedulerEnds(s)
         \/ SchedulerKilled(s) PROVE GateInv'
  BY <1>2 DEF Begin, Goto, TakeLock, ReadPrevious, Apply, PrepareFails, Unwind, Fault,
         Cooldown, Spawn, Wait, ChildEnded, StopChild, Restore, Release, Interrupt, Kill,
         SchedulerStarts, Attach, SchedulerStops, SchedulerEnds, SchedulerKilled, hardware,
         sessionVars, queueVars, gateVars, bounds
<1>3. ASSUME NEW w \in Workers, WorkerStops(w) PROVE GateInv'
  BY <1>3 DEF WorkerStops, Gone, Ends, hardware, sessionVars, queueVars, gateVars, bounds
<1>4. ASSUME NEW w \in Workers, WorkerFinishes(w) PROVE GateInv'
  BY <1>4 DEF WorkerFinishes, Gone, Ends, hardware, sessionVars, queueVars, gateVars, bounds
<1>5. ASSUME NEW w \in Workers, WorkerKilled(w) PROVE GateInv'
  BY <1>5 DEF WorkerKilled, Gone, Ends, Fault, hardware, sessionVars, queueVars, gateVars,
         bounds
<1>6. ASSUME NEW w \in Workers, Evaluate(w) PROVE GateInv'
  BY <1>6 DEF Evaluate, GateStep, Ask, Enter, EnterInner, LeaveInner, LeaveGate, Move,
         hardware, sessionVars, queueVars, gateVars, bounds
<1>7. CASE UNCHANGED vars
  BY <1>7 DEF vars, hardware, sessionVars, queueVars, gateVars, bounds
<1> QED
  BY <1>1, <1>2, <1>3, <1>4, <1>5, <1>6, <1>7 DEF Next, SessionStep, QueueStep

\* A scheduler ends after the workers it has registered.
LEMMA WorkStep ==
    SessionTypes /\ WorkerTypes /\ ChildInv /\ WorkInv /\ [Next]_vars => WorkInv'
<1> SUFFICES ASSUME SessionTypes /\ WorkerTypes /\ ChildInv /\ WorkInv, [Next]_vars
      PROVE  WorkInv'
  OBVIOUS
<1> USE SessionAssumption DEF SessionTypes, WorkerTypes, ChildInv, WorkInv, Inside,
         Computing, Values, Places, QueueAlive, Own, Live
<1>1. ASSUME NEW s \in Sessions, Spawn(s) PROVE WorkInv'
  BY <1>1 DEF Spawn, Goto, hardware, sessionVars, queueVars, gateVars, bounds
<1>2. ASSUME NEW s \in Sessions, StopChild(s) PROVE WorkInv'
  BY <1>2 DEF StopChild, Goto, hardware, sessionVars, queueVars, gateVars, bounds
<1>3. ASSUME NEW s \in Sessions, Restore(s) PROVE WorkInv'
  BY <1>3 DEF Restore, Fault, hardware, sessionVars, queueVars, gateVars, bounds
<1>4. ASSUME NEW s \in Sessions, Kill(s) PROVE WorkInv'
  BY <1>4 DEF Kill, Goto, Fault, hardware, sessionVars, queueVars, gateVars, bounds
<1>5. ASSUME NEW s \in Sessions, SchedulerStarts(s) PROVE WorkInv'
  BY <1>5 DEF SchedulerStarts, hardware, sessionVars, queueVars, gateVars, bounds
<1>6. ASSUME NEW s \in Sessions, SchedulerStops(s) PROVE WorkInv'
  BY <1>6 DEF SchedulerStops, Fault, hardware, sessionVars, queueVars, gateVars, bounds
<1>7. ASSUME NEW s \in Sessions, SchedulerEnds(s) PROVE WorkInv'
  BY <1>7 DEF SchedulerEnds, hardware, sessionVars, queueVars, gateVars, bounds
<1>8. ASSUME NEW s \in Sessions, SchedulerKilled(s) PROVE WorkInv'
  BY <1>8 DEF SchedulerKilled, Fault, hardware, sessionVars, queueVars, gateVars, bounds
<1>9. ASSUME NEW s \in Sessions, NEW w \in Workers, StartWorker(s, w) PROVE WorkInv'
  BY <1>9 DEF StartWorker, hardware, sessionVars, queueVars, gateVars, bounds
<1>10. ASSUME NEW s \in Sessions, Begin(s) \/ TakeLock(s) \/ ReadPrevious(s) \/ Apply(s)
         \/ PrepareFails(s) \/ Cooldown(s) \/ Wait(s) \/ ChildEnded(s) \/ Release(s)
         \/ Interrupt(s) PROVE WorkInv'
  BY <1>10 DEF Begin, Goto, TakeLock, ReadPrevious, Apply, PrepareFails, Unwind, Fault,
         Cooldown, Wait, ChildEnded, Release, Interrupt, hardware, sessionVars, queueVars,
         gateVars, bounds
<1>11. ASSUME NEW w \in Workers, WorkerStops(w) PROVE WorkInv'
  BY <1>11 DEF WorkerStops, Gone, Ends, hardware, sessionVars, queueVars, gateVars, bounds
<1>12. ASSUME NEW w \in Workers, WorkerFinishes(w) PROVE WorkInv'
  BY <1>12 DEF WorkerFinishes, Gone, Ends, hardware, sessionVars, queueVars, gateVars,
         bounds
<1>13. ASSUME NEW w \in Workers, WorkerKilled(w) PROVE WorkInv'
  BY <1>13 DEF WorkerKilled, Gone, Ends, Fault, hardware, sessionVars, queueVars, gateVars,
         bounds
<1>14. ASSUME NEW w \in Workers, Evaluate(w) PROVE WorkInv'
  BY <1>14 DEF Evaluate, GateStep, Ask, Enter, EnterInner, LeaveInner, LeaveGate, Move,
         hardware, sessionVars, queueVars, gateVars, bounds
<1>15. ASSUME NEW s \in Sessions, Attach(s) PROVE WorkInv'
  BY <1>15 DEF Attach, hardware, sessionVars, queueVars, gateVars, bounds
<1>16. CASE UNCHANGED vars
  BY <1>16 DEF vars, hardware, sessionVars, queueVars, gateVars, bounds
<1> QED
  BY <1>1, <1>2, <1>3, <1>4, <1>5, <1>6, <1>7, <1>8, <1>9, <1>10, <1>11, <1>12, <1>13,
         <1>14, <1>15, <1>16 DEF Next, SessionStep, QueueStep

-----------------------------------------------------------------------------
(* The theorems *)

\* It holds at the start, ...
LEMMA InitIsSafe == Init => IInv
<1> SUFFICES ASSUME Init PROVE IInv
  OBVIOUS
<1> USE SessionAssumption DEF Init
<1>1. HardwareTypes
  BY DEF HardwareTypes, Values
<1>2. SessionTypes
  BY DEF SessionTypes
<1>3. WorkerTypes
  BY DEF WorkerTypes, Places
<1>4. LockInv /\ ChildInv
  BY DEF LockInv, ChildInv, Inside
<1>5. ComputeInv
  BY DEF ComputeInv, QueueAlive
<1>6. AppliedInv
  BY DEF AppliedInv, Applied, Computing
<1>7. UserInv
  BY DEF UserInv, Idle, Restored, Inside
<1>8. GateInv /\ OwnedInv /\ SidesInv /\ WorkInv
  BY DEF GateInv, OwnedInv, SidesInv, WorkInv, Live
<1> QED
  BY <1>1, <1>2, <1>3, <1>4, <1>5, <1>6, <1>7, <1>8 DEF IInv, TypesInv

\* ... every step preserves it, ...
LEMMA StepIsSafe == IInv /\ [Next]_vars => IInv'
BY HardwareTypesStep, SessionTypesStep, WorkerTypesStep, LockStep, ChildStep, ComputeStep,
   AppliedStep, UserStep, GateKept, OwnedStep, SidesStep, WorkStep DEF IInv, TypesInv

\* ... so every reachable state has it.
LEMMA SpecIsSafe == Spec => []IInv
BY InitIsSafe, StepIsSafe, PTL DEF Spec

\* The machine has the session's settings while the session's scheduler or a
\* worker it has registered computes, and the user's when no session is under
\* way (run_managed_queue.py:66-82, hardware.py:86-103): for any number of
\* sessions and workers, any settings, interrupts and faults.  Nothing is
\* promised of a worker that a SIGTERM found between Popen and `active`.
THEOREM HardwareIsSafe == Spec => []HardwareSafe
<1>1. IInv => HardwareSafe
  <2> SUFFICES ASSUME IInv PROVE HardwareSafe
    OBVIOUS
  <2> USE SessionAssumption DEF IInv, TypesInv
  <2>1. SettingsHeld
    <3> SUFFICES ASSUME NEW s \in Sessions, Handled(s), QueueAlive(s) \/ ~(Own(s) \subseteq loose),
                        NEW x \in Settings
                 PROVE  setting[x] = "session"
      BY DEF SettingsHeld
    <3>1. QueueAlive(s)
      BY DEF Own, WorkInv, Handled, QueueAlive
    <3>2. pc[s] \in Computing
      BY <3>1 DEF ComputeInv
    <3> QED
      BY <3>2 DEF AppliedInv, Applied
  <2>2. SettingsReturn
    <3> SUFFICES ASSUME again \cup broken = {},
                        \A s \in Sessions : pc[s] \in {"off", "lock", "ended"},
                        NEW x \in Settings
                 PROVE  setting[x] = "user"
      BY DEF SettingsReturn
    <3>1. lock = Nobody
      BY DEF LockInv, Inside, HardwareTypes
    <3> QED
      BY <3>1 DEF UserInv, Idle
  <2> QED
    BY <2>1, <2>2 DEF HardwareSafe
<1> QED
  BY <1>1, SpecIsSafe, PTL

\* Two live workers of one session never run on the same L3 group
\* (affinity.py, Allocator.choose), and whoever evaluates, and nobody else,
\* holds the gate's lock (evaluation_gate.py), although schedulers and workers
\* are killed and orphans run on.
THEOREM WorkersStayApart == Spec => []WorkersApart
<1>1. IInv => WorkersApart
  BY DEF IInv, SidesInv, GateInv, WorkersApart, Running
<1> QED
  BY <1>1, SpecIsSafe, PTL

=============================================================================
