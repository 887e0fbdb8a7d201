---------------------------- MODULE ManagedSession ----------------------------
(***************************************************************************)
(* Managed queue sessions (src/run_managed_queue.py with queue_execution/  *)
(* hardware.py, affinity.py and the evaluation gate): a session takes the  *)
(* hardware lock, records and changes the machine's settings, cools down,  *)
(* runs the queue command as a child and restores the settings when it and *)
(* its workers are gone.                                                   *)
(*                                                                         *)
(* The child, run_search_queue.py, is here what the session sees of it:    *)
(* it is refused or runs, starts a worker per selected position on a free  *)
(* side of the processor, and ends when those it has registered have       *)
(* ended.  What it does inside is QueueScheduler.                          *)
(***************************************************************************)
EXTENDS EvaluationGate, Sequences, QueueSelection

CONSTANTS
    Sessions,       \* run_managed_queue processes
    Capacity,       \* --workers 2
    Settings,       \* the settings changed: boost, powermode, limits, fan
    Commands,       \* queue arguments a session may be started with
    MaxInterrupts,  \* bound: signals
    MaxFaults,      \* bound: kills and failed commands
    Nobody

ASSUME SessionAssumption ==
    /\ IsFiniteSet(Workers) /\ NoWorker \notin Workers
    /\ Nobody \notin Sessions
    /\ Capacity \in {1, 2}
    /\ Settings \subseteq {"boost", "powermode", "limits", "fan"}
    /\ {MaxInterrupts, MaxFaults} \subseteq Nat

VARIABLES
    setting,        \* each setting: the user's value, or a session's
    lock,           \* holder of /tmp/ppo-managed-hardware-UID.lock
    command,        \* the queue arguments of each session
    pc,             \* where each session is
    left,           \* settings still to write, in order
    before,         \* `previous`: what the session read
    child,          \* its scheduler: "none", "start", "run", "stop" or "gone"
    control,        \* the session whose scheduler holds the control lock
    queue,          \* positions its scheduler has not started yet
    owner, side,    \* whose worker each worker is, and on which L3 group
    loose,          \* workers not, or not yet, in `active` of their scheduler
    again,          \* sessions interrupted where nothing catches it
    broken,         \* sessions whose restoration failed, or that were killed
    interrupts, faults

hardware == <<setting, lock, before>>
sessionVars == <<command, pc, left, again, broken>>
queueVars == <<child, control, queue, owner, side, loose>>
bounds == <<interrupts, faults>>
vars == <<hardware, sessionVars, queueVars, gateVars, bounds>>

-----------------------------------------------------------------------------
(* The order in which thermal_session applies and restores the settings.   *)
Changed(x) == IF x \in Settings THEN <<x>> ELSE <<>>
ApplyOrder == Changed("powermode") \o Changed("fan") \o Changed("boost") \o Changed("limits")
RestoreOrder == Changed("boost") \o Changed("powermode") \o Changed("limits") \o Changed("fan")

Own(s) == {w \in Workers : owner[w] = s}

Running == {w \in Workers : Live(w)}

QueueAlive(s) == child[s] \in {"start", "run", "stop"}

OtherLocalQueue == \E s \in Sessions : QueueAlive(s)

Init ==
    /\ setting = [x \in Settings |-> "user"]
    /\ lock = Nobody
    /\ command \in [Sessions -> Commands]
    /\ pc = [s \in Sessions |-> "off"]
    /\ left = [s \in Sessions |-> <<>>]
    /\ before = [s \in Sessions |-> setting]
    /\ child = [s \in Sessions |-> "none"]
    /\ control = Nobody
    /\ queue = [s \in Sessions |-> <<>>]
    /\ at = [w \in Workers |-> "off"]
    /\ flock = NoWorker
    /\ owner = [w \in Workers |-> Nobody]
    /\ side = [w \in Workers |-> 0]
    /\ loose = {}
    /\ again = {} /\ broken = {}
    /\ interrupts = 0 /\ faults = 0

Goto(s, place) == pc' = [pc EXCEPT ![s] = place]

-----------------------------------------------------------------------------
(* The session.                                                            *)

(* main, before the lock: the arguments, the checkout, the processor, the  *)
(* devices, the other queues, the dry run.                                 *)
Begin(s) ==
    /\ pc[s] = "off"
    /\ \E prepared \in BOOLEAN :
        Goto(s, IF /\ prepared /\ ~OtherLocalQueue
                   /\ ArgumentsAccepted(command[s]) /\ Selected(command[s]) # Refused
                THEN "lock" ELSE "ended")
    /\ UNCHANGED <<hardware, command, left, again, broken, queueVars, gateVars, bounds>>

TakeLock(s) ==
    /\ pc[s] = "lock"
    /\ IF lock = Nobody
       THEN lock' = s /\ Goto(s, "read")
       ELSE UNCHANGED lock /\ Goto(s, "ended")
    /\ UNCHANGED <<setting, before, command, left, again, broken, queueVars, gateVars, bounds>>

(* thermal_session up to the sudo session.                                 *)
ReadPrevious(s) ==
    /\ pc[s] = "read"
    /\ before' = [before EXCEPT ![s] = setting]
    /\ Goto(s, "apply")
    /\ left' = [left EXCEPT ![s] = ApplyOrder]
    /\ UNCHANGED <<setting, lock, command, again, broken, queueVars, gateVars, bounds>>

Apply(s) ==
    /\ pc[s] = "apply" /\ left[s] # <<>>
    /\ setting' = [setting EXCEPT ![Head(left[s])] = "session"]
    /\ left' = [left EXCEPT ![s] = Tail(@)]
    /\ UNCHANGED <<lock, before, command, pc, again, broken, queueVars, gateVars, bounds>>

(* The finally block of thermal_session.                                   *)
Unwind(s) == Goto(s, "restore") /\ left' = [left EXCEPT ![s] = RestoreOrder]

Fault == faults < MaxFaults /\ faults' = faults + 1

(* Mains power, a limit or sudo is refused; later a write with its         *)
(* readback, or the cooldown, fails.                                       *)
PrepareFails(s) ==
    /\ Fault
    /\ \/ pc[s] = "read" /\ Goto(s, "ended") /\ lock' = Nobody /\ UNCHANGED left
       \/ pc[s] \in {"apply", "spawn"} /\ Unwind(s) /\ UNCHANGED lock
    /\ UNCHANGED <<setting, before, command, again, broken, queueVars, gateVars, interrupts>>

Cooldown(s) ==
    /\ pc[s] = "apply" /\ left[s] = <<>>
    /\ Goto(s, "spawn")
    /\ UNCHANGED <<hardware, command, left, again, broken, queueVars, gateVars, bounds>>

Spawn(s) ==
    /\ pc[s] = "spawn"
    /\ child' = [child EXCEPT ![s] = "start"]
    /\ Goto(s, "spawned")
    /\ UNCHANGED <<hardware, command, left, again, broken, control, queue, owner, side, loose,
                   gateVars, bounds>>

Wait(s) ==
    /\ pc[s] = "spawned"
    /\ Goto(s, "wait")
    /\ UNCHANGED <<hardware, command, left, again, broken, queueVars, gateVars, bounds>>

(* process.wait returns, before or after a SIGTERM to the scheduler.       *)
ChildEnded(s) ==
    /\ pc[s] \in {"wait", "stopping"} /\ child[s] = "gone"
    /\ Unwind(s)
    /\ UNCHANGED <<hardware, command, again, broken, queueVars, gateVars, bounds>>

(* Mutant: the settings are restored as soon as the signal is sent.        *)
StopChildAtOnce(s) ==
    /\ pc[s] = "stop"
    /\ Unwind(s)
    /\ child' = [child EXCEPT ![s] = IF QueueAlive(s) THEN "stop" ELSE @]
    /\ UNCHANGED <<hardware, command, again, broken, control, queue, owner, side, loose, gateVars,
                   bounds>>

StopChild(s) ==
    /\ pc[s] = "stop"
    /\ Goto(s, "stopping")
    /\ child' = [child EXCEPT ![s] = IF QueueAlive(s) THEN "stop" ELSE @]
    /\ UNCHANGED <<hardware, command, left, again, broken, control, queue, owner, side, loose,
                   gateVars, bounds>>

(* Every setting is written back; one that fails does not stop the others. *)
Restore(s) ==
    /\ pc[s] = "restore" /\ left[s] # <<>>
    /\ left' = [left EXCEPT ![s] = Tail(@)]
    /\ \/ /\ setting' = [setting EXCEPT ![Head(left[s])] = before[s][Head(left[s])]]
          /\ UNCHANGED <<broken, faults>>
       \/ /\ Fault
          /\ broken' = broken \cup {s}
          /\ UNCHANGED setting
    /\ UNCHANGED <<lock, before, command, pc, again, queueVars, gateVars, interrupts>>

Release(s) ==
    /\ pc[s] = "restore" /\ left[s] = <<>>
    /\ lock' = Nobody
    /\ Goto(s, "ended")
    /\ UNCHANGED <<setting, before, command, left, again, broken, queueVars, gateVars, bounds>>

(* Ctrl+C or SIGTERM, wherever the session is.  Between Popen and the try  *)
(* block, in the wait of the finally block and in the restoration there is *)
(* nothing that would catch it.                                            *)
Interrupt(s) ==
    /\ interrupts < MaxInterrupts /\ interrupts' = interrupts + 1
    /\ \/ /\ pc[s] \in {"lock", "read"}
          /\ Goto(s, "ended")
          /\ lock' = IF lock = s THEN Nobody ELSE lock
          /\ UNCHANGED <<left, again>>
       \/ /\ pc[s] \in {"apply", "spawn"}
          /\ Unwind(s)
          /\ UNCHANGED <<lock, again>>
       \/ /\ pc[s] = "wait"
          /\ Goto(s, "stop")
          /\ UNCHANGED <<lock, left, again>>
       \/ /\ pc[s] \in {"spawned", "stop", "stopping"}
          /\ Unwind(s)
          /\ again' = again \cup {s}
          /\ UNCHANGED lock
       \/ /\ pc[s] = "restore"
          /\ Goto(s, "ended")
          /\ lock' = Nobody
          /\ again' = again \cup {s}
          /\ UNCHANGED left
    /\ UNCHANGED <<setting, before, command, broken, queueVars, gateVars, faults>>

Kill(s) ==
    /\ pc[s] \notin {"off", "ended"} /\ Fault
    /\ Goto(s, "ended")
    /\ lock' = IF lock = s THEN Nobody ELSE lock
    /\ broken' = broken \cup {s}
    /\ UNCHANGED <<setting, before, command, left, again, queueVars, gateVars, interrupts>>

-----------------------------------------------------------------------------
(* The queue command.                                                      *)

(* scheduler.run refuses beside another queue.                             *)
SchedulerStarts(s) ==
    /\ child[s] = "start"
    /\ IF control # Nobody \/ \E q \in Sessions \ {s} : QueueAlive(q)
       THEN child' = [child EXCEPT ![s] = "gone"] /\ UNCHANGED <<control, queue>>
       ELSE /\ child' = [child EXCEPT ![s] = "run"]
            /\ control' = s
            /\ queue' = [queue EXCEPT ![s] = Selected(command[s])]
    /\ UNCHANGED <<hardware, sessionVars, owner, side, loose, gateVars, bounds>>

(* Mutant: a side is free again as soon as its worker evaluates.           *)
FreeSidesTraining(s) == {1, 2} \ {side[w] : w \in {v \in Own(s) : at[v] = "train"}}

(* Allocator.choose: the first side without a live worker of this queue.   *)
FreeSides(s) == {1, 2} \ {side[w] : w \in Own(s)}

ChooseSide(s) == CHOOSE x \in FreeSides(s) : \A y \in FreeSides(s) : x <= y

(* Claims keep the live workers, orphans included, within the capacity.    *)
(* The process runs before the scheduler has written it down.              *)
StartWorker(s, w) ==
    /\ child[s] = "run" /\ queue[s] # <<>> /\ Own(s) \cap loose = {}
    /\ at[w] = "off"
    /\ Cardinality(Running) < Capacity
    /\ at' = [at EXCEPT ![w] = "train"]
    /\ owner' = [owner EXCEPT ![w] = s]
    /\ side' = [side EXCEPT ![w] = ChooseSide(s)]
    /\ loose' = loose \cup {w}
    /\ queue' = [queue EXCEPT ![s] = Tail(@)]
    /\ UNCHANGED <<hardware, sessionVars, child, control, flock, bounds>>

(* active[candidate.name] = item.                                          *)
Attach(s) ==
    /\ child[s] = "run" /\ Own(s) \cap loose # {}
    /\ loose' = loose \ Own(s)
    /\ UNCHANGED <<hardware, sessionVars, child, control, queue, owner, side, gateVars, bounds>>

(* A failed worker, or a temperature over the limit: the queue stops.      *)
SchedulerStops(s) ==
    /\ child[s] = "run" /\ Own(s) \cap loose = {} /\ Fault
    /\ child' = [child EXCEPT ![s] = "stop"]
    /\ UNCHANGED <<hardware, sessionVars, control, queue, owner, side, loose, gateVars, interrupts>>

(* A stopped one knows nothing of a worker it was about to register.       *)
SchedulerEnds(s) ==
    /\ \/ child[s] = "run" /\ queue[s] = <<>> /\ Own(s) = {}
       \/ child[s] = "stop" /\ Own(s) \subseteq loose
    /\ child' = [child EXCEPT ![s] = "gone"]
    /\ control' = IF control = s THEN Nobody ELSE control
    /\ UNCHANGED <<hardware, sessionVars, queue, owner, side, loose, gateVars, bounds>>

SchedulerKilled(s) ==
    /\ QueueAlive(s) /\ Fault
    /\ child' = [child EXCEPT ![s] = "gone"]
    /\ control' = IF control = s THEN Nobody ELSE control
    /\ broken' = broken \cup {s}
    /\ UNCHANGED <<hardware, command, pc, left, again, queue, owner, side, loose, gateVars,
                   interrupts>>

(* A process that ended is nobody's worker any more.                       *)
Gone(w) ==
    /\ Ends(w)
    /\ owner' = [owner EXCEPT ![w] = Nobody]
    /\ side' = [side EXCEPT ![w] = 0]
    /\ loose' = loose \ {w}
    /\ UNCHANGED <<hardware, sessionVars, child, control, queue>>

(* A stopping scheduler signals its workers and kills those that stay.     *)
WorkerStops(w) ==
    /\ owner[w] # Nobody /\ child[owner[w]] = "stop" /\ w \notin loose
    /\ Gone(w)
    /\ UNCHANGED bounds

WorkerFinishes(w) == at[w] = "train" /\ Gone(w) /\ UNCHANGED bounds

WorkerKilled(w) == Fault /\ Gone(w) /\ UNCHANGED interrupts

Evaluate(w) == GateStep(w) /\ UNCHANGED <<hardware, sessionVars, queueVars, bounds>>

SessionStep(s) ==
    \/ TakeLock(s) \/ ReadPrevious(s) \/ Apply(s) \/ Cooldown(s) \/ Spawn(s) \/ Wait(s)
    \/ ChildEnded(s) \/ StopChild(s) \/ Restore(s) \/ Release(s)

QueueStep(s) ==
    \/ SchedulerStarts(s) \/ Attach(s) \/ SchedulerEnds(s)
    \/ \E w \in Workers : StartWorker(s, w)

Next ==
    \/ \E s \in Sessions :
        \/ Begin(s) \/ SessionStep(s) \/ PrepareFails(s) \/ Interrupt(s) \/ Kill(s)
        \/ QueueStep(s) \/ SchedulerStops(s) \/ SchedulerKilled(s)
    \/ \E w \in Workers : WorkerStops(w) \/ WorkerFinishes(w) \/ WorkerKilled(w) \/ Evaluate(w)

(* Every process that can go on does; training and evaluation come to an   *)
(* end.  The polled lock needs no more: its other users end some time.     *)
Fairness ==
    /\ \A s \in Sessions : WF_vars(SessionStep(s)) /\ WF_vars(QueueStep(s))
    /\ \A w \in Workers :
        /\ WF_vars(WorkerStops(w))
        /\ SF_vars(WorkerFinishes(w))
        /\ WF_vars(Evaluate(w) /\ at[w] # "train")
        /\ SF_vars(LeaveGate(w) /\ UNCHANGED <<hardware, sessionVars, queueVars, bounds>>)

Spec == Init /\ [][Next]_vars /\ Fairness

-----------------------------------------------------------------------------
Handled(s) == s \notin again \cup broken

(* While the scheduler of a session, or a worker that it has registered,   *)
(* computes, the machine has the session's settings, and they are not      *)
(* restored under it; once no session is under way they are the user's     *)
(* again.  Excepted are interrupts that nothing catches, kills and failed  *)
(* restorations, and the worker of which its scheduler does not know, when *)
(* SIGTERM falls between Popen and active: the code restores under that    *)
(* one, against its comment "Do not restore settings while unaccounted     *)
(* compute continues" (run_managed_queue.py:77).                           *)
SettingsHeld ==
    \A s \in Sessions :
        Handled(s) /\ (QueueAlive(s) \/ ~(Own(s) \subseteq loose)) =>
            \A x \in Settings : setting[x] = "session"

SettingsReturn ==
    (again \cup broken = {} /\ \A s \in Sessions : pc[s] \in {"off", "lock", "ended"}) =>
        \A x \in Settings : setting[x] = "user"

HardwareSafe == SettingsHeld /\ SettingsReturn

(* Two live workers of one queue never share an L3 group, and one worker   *)
(* of the machine evaluates at a time, with the lock in its hand, whoever  *)
(* its session is and whichever of them was killed.                        *)
WorkersApart ==
    /\ \A w, v \in Running : w # v /\ owner[w] = owner[v] => side[w] # side[v]
    /\ \A w \in Workers : at[w] \in {"eval", "inner"} <=> flock = w

(* A session that has started its queue ends, whatever stops it, and a     *)
(* worker that waits for the evaluation lock goes on.                      *)
SessionEnds ==
    /\ \A s \in Sessions : pc[s] = "spawned" ~> pc[s] = "ended"
    /\ \A w \in Workers : at[w] = "wait" ~> at[w] # "wait"
=============================================================================
