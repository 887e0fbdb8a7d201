----------------------------- MODULE EvaluationGate -----------------------------
(***************************************************************************)
(* The gate of serial evaluation (src/train_and_eval/queue_execution/      *)
(* evaluation_gate.py): claimed workers evaluate one at a time, behind one *)
(* lock file of the machine that each of them polls.  A direct training    *)
(* command has no lock path and never asks.                                *)
(***************************************************************************)
EXTENDS Integers, FiniteSets

CONSTANTS Workers, NoWorker

VARIABLES
    at,         \* where each worker is
    flock       \* the worker whose open file holds the lock

gateVars == <<at, flock>>

\* "inner" is an evaluation called by an evaluation (_inside is set).
Places == {"off", "train", "wait", "eval", "inner"}

Live(w) == at[w] # "off"

Move(w, from, to) == at[w] = from /\ at' = [at EXCEPT ![w] = to]

Ask(w) == Move(w, "train", "wait") /\ UNCHANGED flock

(* flock with LOCK_NB, every tenth of a second until it is free.           *)
Enter(w) == flock = NoWorker /\ flock' = w /\ Move(w, "wait", "eval")

(* A nested evaluation does not ask again.                                 *)
EnterInner(w) == Move(w, "eval", "inner") /\ UNCHANGED flock

LeaveInner(w) == Move(w, "inner", "eval") /\ UNCHANGED flock

(* The evaluation returned or raised.                                      *)
LeaveGate(w) == flock' = NoWorker /\ Move(w, "eval", "train")

(* Mutant: the lock is a file that exists and stays when a process dies.   *)
EndsHolding(w) ==
    /\ Live(w)
    /\ at' = [at EXCEPT ![w] = "off"]
    /\ UNCHANGED flock

(* However the process ends, its open files are closed.                    *)
Ends(w) ==
    /\ Live(w)
    /\ at' = [at EXCEPT ![w] = "off"]
    /\ flock' = IF flock = w THEN NoWorker ELSE flock

GateStep(w) == Ask(w) \/ Enter(w) \/ EnterInner(w) \/ LeaveInner(w) \/ LeaveGate(w)
=============================================================================
