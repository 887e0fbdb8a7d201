--------------------------- MODULE ClaimProtocol ----------------------------
(***************************************************************************)
(* queue_execution/core.claim, one action per SQL statement.  Any number   *)
(* of processes (queue workers, the scheduler's reconciliation and the     *)
(* recovery command) call it, each on a PostgreSQL session of its own:     *)
(*                                                                         *)
(*   gate   the blocking lock (CONTROL, 2) around the acquisition          *)
(*   run    the locks (RUN, run_key(name)), tried without waiting          *)
(*   slot   the locks (SLOT, 1) .. (SLOT, NSlots), tried in order          *)
(*                                                                         *)
(* The scheduler's control connection also takes (RUN, key) for a moment,  *)
(* without the gate, when it asks lock_available: the Prober.              *)
(*                                                                         *)
(* A client can be killed at any statement; its server session then lives  *)
(* on until the server notices.  A connection can break at any statement;  *)
(* the server then drops the session's locks while the client still runs.  *)
(***************************************************************************)
EXTENDS Integers, FiniteSets

CONSTANTS
    Sessions,   \* the database sessions that call claim()
    Keys,       \* the values of run_key(name)
    Key,        \* the run key each session asks for
    Workers,    \* the workers argument of each session
    NSlots,     \* the number of SLOT keys (4 in the code)
    Nobody,     \* the holder of a free lock
    Prober      \* the scheduler's control connection

ASSUME ProtocolAssumption ==
    /\ NSlots \in Nat \ {0}
    /\ Key \in [Sessions -> Keys]
    /\ Workers \in [Sessions -> 1 .. NSlots]
    /\ Nobody \notin Sessions
    /\ Prober \notin Sessions
    /\ Prober # Nobody

Slots == 1 .. NSlots

VARIABLES
    gate,       \* holder of (CONTROL, 2)
    run,        \* holder of each (RUN, key)
    slot,       \* holder of each (SLOT, k)
    pc,         \* the statement each session is about to execute
    at,         \* the slot key the scan tries next, or has acquired
    acquired,   \* len(acquired): 1 for RUN, 2 for RUN and SLOT
    conn        \* whether the server session exists

vars == <<gate, run, slot, pc, at, acquired, conn>>

\* "orphan" and "blocked": the client is gone, its server session is not.
\* "ungate" and "unwind" are the inner finally without and with an exception.
Labels == {"idle", "gate", "count", "run", "scan", "ungate", "unwind", "owned",
           "refused", "release", "orphan", "blocked"}

TypeOK ==
    /\ gate \in Sessions \cup {Nobody}
    /\ run \in [Keys -> Sessions \cup {Nobody, Prober}]
    /\ slot \in [Slots -> Sessions \cup {Nobody}]
    /\ pc \in [Sessions -> Labels]
    /\ at \in [Sessions -> Slots]
    /\ acquired \in [Sessions -> 0 .. 2]
    /\ conn \in [Sessions -> BOOLEAN]

Init ==
    /\ gate = Nobody
    /\ run = [k \in Keys |-> Nobody]
    /\ slot = [k \in Slots |-> Nobody]
    /\ pc = [s \in Sessions |-> "idle"]
    /\ at = [s \in Sessions |-> 1]
    /\ acquired = [s \in Sessions |-> 0]
    /\ conn = [s \in Sessions |-> FALSE]

-----------------------------------------------------------------------------
(* Helpers *)

Goto(s, label) == pc' = [pc EXCEPT ![s] = label]

\* occupied_slots: the SLOT keys that pg_locks lists as granted.
Occupied == {k \in Slots : slot[k] # Nobody}

\* The server drops every advisory lock of a session that ends.
DropLocks(s) ==
    /\ gate' = IF gate = s THEN Nobody ELSE gate
    /\ run' = [k \in Keys |-> IF run[k] = s THEN Nobody ELSE run[k]]
    /\ slot' = [k \in Slots |-> IF slot[k] = s THEN Nobody ELSE slot[k]]

\* The call is over, and its local variables with it.
Over(s) ==
    /\ Goto(s, "idle")
    /\ at' = [at EXCEPT ![s] = 1]
    /\ acquired' = [acquired EXCEPT ![s] = 0]
    /\ conn' = [conn EXCEPT ![s] = FALSE]

-----------------------------------------------------------------------------
(* The statements of claim() *)

\* engine.connect(), then the blocking pg_advisory_lock(CONTROL, 2) is sent.
Connect(s) ==
    /\ pc[s] = "idle"
    /\ Goto(s, "gate")
    /\ conn' = [conn EXCEPT ![s] = TRUE]
    /\ UNCHANGED <<gate, run, slot, at, acquired>>

\* The server grants the gate.  It may grant it to a session whose client died
\* while waiting: a backend blocked on a lock does not look at its socket.
GrantGateTo(s) ==
    /\ pc[s] \in {"gate", "blocked"}
    /\ conn[s]
    /\ gate' = s
    /\ Goto(s, IF pc[s] = "gate" THEN "count" ELSE "orphan")
    /\ UNCHANGED <<run, slot, at, acquired, conn>>
GateGranted(s) == gate = Nobody /\ GrantGateTo(s)

\* occupied_slots(connection) < workers; the answer is used by later statements.
CountAgainst(s, limit) ==
    /\ pc[s] = "count"
    /\ conn[s]
    /\ Goto(s, IF Cardinality(Occupied) < limit THEN "run" ELSE "ungate")
    /\ UNCHANGED <<gate, run, slot, at, acquired, conn>>
CountSlotsInclusive(s) == CountAgainst(s, Workers[s] + 1)
CountSlots(s) == CountAgainst(s, Workers[s])

\* try_lock(connection, RUN, run_key(name)): never waits.
TryRunIgnoringHolder(s) ==
    /\ pc[s] = "run"
    /\ conn[s]
    /\ run' = [run EXCEPT ![Key[s]] = s]
    /\ acquired' = [acquired EXCEPT ![s] = 1]
    /\ Goto(s, "scan")
    /\ UNCHANGED <<gate, slot, at, conn>>
TryRun(s) ==
    /\ pc[s] = "run"
    /\ conn[s]
    /\ \/ /\ run[Key[s]] = Nobody
          /\ run' = [run EXCEPT ![Key[s]] = s]
          /\ acquired' = [acquired EXCEPT ![s] = 1]
          /\ Goto(s, "scan")
       \/ /\ run[Key[s]] # Nobody
          /\ Goto(s, "ungate")
          /\ UNCHANGED <<run, acquired>>
    /\ UNCHANGED <<gate, slot, at, conn>>

\* for slot in (1, 2, 3, 4): try_lock(connection, SLOT, slot), first one wins.
\* The scan reads `last` as the last key of that tuple.
ScanUpTo(s, last) ==
    /\ pc[s] = "scan"
    /\ conn[s]
    /\ \/ /\ slot[at[s]] = Nobody
          /\ slot' = [slot EXCEPT ![at[s]] = s]
          /\ acquired' = [acquired EXCEPT ![s] = 2]
          /\ Goto(s, "ungate")
          /\ at' = at
       \/ /\ slot[at[s]] # Nobody
          /\ at' = [at EXCEPT ![s] = IF @ < last THEN @ + 1 ELSE @]
          /\ Goto(s, IF at[s] < last THEN "scan" ELSE "ungate")
          /\ UNCHANGED <<slot, acquired>>
    /\ UNCHANGED <<gate, run, conn>>
TrySlotStopsEarly(s) == ScanUpTo(s, NSlots - 1)
TrySlot(s) == ScanUpTo(s, NSlots)

\* finally: unlock(CONTROL, 2); then yield connection iff both were acquired.
LeaveGate(s, holder) ==
    /\ pc[s] = "ungate"
    /\ conn[s]
    /\ gate' = holder
    /\ Goto(s, IF acquired[s] = 2 THEN "owned" ELSE "refused")
    /\ UNCHANGED <<run, slot, at, acquired, conn>>
OpenGateKept(s) == LeaveGate(s, gate)
OpenGate(s) == LeaveGate(s, Nobody)

\* The body of the with-statement returns or raises.
Leave(s) ==
    /\ pc[s] \in {"owned", "refused"}
    /\ Goto(s, "release")
    /\ UNCHANGED <<gate, run, slot, at, acquired, conn>>

\* for namespace, key in reversed(acquired): unlock.
UnlockSlotOnly(s) ==
    /\ pc[s] = "release"
    /\ conn[s]
    /\ slot' = [slot EXCEPT ![at[s]] = Nobody]
    /\ acquired' = [acquired EXCEPT ![s] = @ - 1]
    /\ UNCHANGED <<gate, run, pc, at, conn>>
Unlock(s) ==
    /\ pc[s] = "release"
    /\ conn[s]
    /\ \/ /\ acquired[s] = 2
          /\ slot' = [slot EXCEPT ![at[s]] = Nobody]
          /\ run' = run
       \/ /\ acquired[s] = 1
          /\ run' = [run EXCEPT ![Key[s]] = Nobody]
          /\ slot' = slot
    /\ acquired' = [acquired EXCEPT ![s] = @ - 1]
    /\ UNCHANGED <<gate, pc, at, conn>>

\* connection.invalidate(); connection.close(): the session physically ends.
Close(s) ==
    /\ pc[s] = "release"
    /\ conn[s]
    /\ acquired[s] = 0
    /\ DropLocks(s)
    /\ Over(s)

\* A statement raises although the connection lives (the server cancels it, or
\* an interrupt reaches the client while it waits): a lock it asked for is not
\* taken, one acquired before is kept, and the finally blocks run.
StatementRaises(s) ==
    /\ conn[s]
    /\ \/ pc[s] \in {"count", "run", "scan"} /\ Goto(s, "unwind")
       \/ pc[s] \in {"gate", "ungate", "unwind"} /\ Goto(s, "release")
    /\ UNCHANGED <<gate, run, slot, at, acquired, conn>>

\* The inner finally of a block that raised: unlock(CONTROL, 2), no yield.
UnwindGate(s) ==
    /\ pc[s] = "unwind"
    /\ conn[s]
    /\ gate' = Nobody
    /\ Goto(s, "release")
    /\ UNCHANGED <<run, slot, at, acquired, conn>>

\* An unlock of the outer finally raises: the session is closed all the same.
UnlockRaises(s) ==
    /\ pc[s] = "release"
    /\ conn[s]
    /\ acquired[s] # 0
    /\ DropLocks(s)
    /\ Over(s)

\* A statement on a broken connection raises; nothing is yielded and the
\* session is closed.  An owner finds out when its body returns.
StatementFails(s) ==
    /\ pc[s] \in {"gate", "count", "run", "scan", "ungate", "unwind", "release"}
    /\ ~ conn[s]
    /\ Over(s)
    /\ UNCHANGED <<gate, run, slot>>

-----------------------------------------------------------------------------
(* Failures, and the scheduler's probe *)

\* The server loses the session while the client runs.
ConnectionLost(s) ==
    /\ conn[s]
    /\ pc[s] \notin {"orphan", "blocked"}
    /\ DropLocks(s)
    /\ conn' = [conn EXCEPT ![s] = FALSE]
    /\ UNCHANGED <<pc, at, acquired>>

\* The client is killed, or gives its connection up; the server does not know.
ClientGone(s) ==
    /\ conn[s]
    /\ pc[s] \notin {"orphan", "blocked"}
    /\ Goto(s, IF pc[s] = "gate" THEN "blocked" ELSE "orphan")
    /\ UNCHANGED <<gate, run, slot, at, acquired, conn>>

\* The server notices that the client of a session is gone.
SessionEnds(s) ==
    /\ pc[s] = "orphan"
    /\ DropLocks(s)
    /\ Over(s)

\* lock_available on the control connection: try_lock(RUN, key) ...
ProbeTry(k) ==
    /\ \A j \in Keys : run[j] # Prober
    /\ run[k] = Nobody
    /\ run' = [run EXCEPT ![k] = Prober]
    /\ UNCHANGED <<gate, slot, pc, at, acquired, conn>>

\* ... and unlock, by the second statement or by the end of the session.
ProbeUnlock(k) ==
    /\ run[k] = Prober
    /\ run' = [run EXCEPT ![k] = Nobody]
    /\ UNCHANGED <<gate, slot, pc, at, acquired, conn>>

-----------------------------------------------------------------------------

SessionStep(s) ==
    \/ Connect(s)
    \/ GateGranted(s)
    \/ CountSlots(s)
    \/ TryRun(s)
    \/ TrySlot(s)
    \/ OpenGate(s)
    \/ Leave(s)
    \/ Unlock(s)
    \/ Close(s)
    \/ StatementRaises(s)
    \/ UnwindGate(s)
    \/ UnlockRaises(s)
    \/ StatementFails(s)
    \/ ConnectionLost(s)
    \/ ClientGone(s)
    \/ SessionEnds(s)

Next ==
    \/ \E s \in Sessions : SessionStep(s)
    \/ \E k \in Keys : ProbeTry(k) \/ ProbeUnlock(k)

Spec == Init /\ [][Next]_vars

\* A live client executes its next statement, the server ends the session of a
\* dead client, and PostgreSQL serves the waiters of one advisory lock in the
\* order of its wait queue, so a waiter is not overtaken for ever.  Nothing is
\* assumed of Leave: training may take any time.
Fairness ==
    \A s \in Sessions :
        /\ WF_vars(CountSlots(s) \/ TryRun(s) \/ TrySlot(s) \/ OpenGate(s) \/ UnwindGate(s))
        /\ WF_vars(Unlock(s) \/ Close(s) \/ StatementFails(s))
        /\ WF_vars(SessionEnds(s))
        /\ SF_vars(GateGranted(s))

FairSpec == Spec /\ Fairness

-----------------------------------------------------------------------------
(* Properties *)

\* The session is inside the with-block and its server session exists.
Owns(s) == pc[s] = "owned" /\ conn[s]

\* Two live owners never have the same run key, so one run is trained by one
\* worker (core.claim: "Worker owns both locks until training returns").
Exclusive ==
    \A s, t \in Sessions : Owns(s) /\ Owns(t) /\ Key[s] = Key[t] => s = t

\* "The gate makes run + capacity acquisition atomic": after the scan a session
\* has both locks or neither, so no name is ever taken without a slot, and the
\* scan of the four slots cannot come back empty-handed.
AllOrNothing ==
    \A s \in Sessions : conn[s] /\ pc[s] \in {"ungate", "owned", "refused"} =>
        /\ acquired[s] \in {0, 2}
        /\ acquired[s] = 2 => run[Key[s]] = s /\ slot[at[s]] = s

\* A claim that is granted never takes the number of occupied slots above the
\* limit its own caller passed, whatever limits the other callers use.
GrantWithinLimit ==
    [][\A s \in Sessions :
        pc[s] = "scan" /\ acquired'[s] = 2 /\ acquired[s] = 1 =>
            Cardinality(Occupied') <= Workers[s]]_vars

\* The sessions with a slot are the holders of the abstract service.
Holders == {s \in Sessions : \E k \in Slots : slot[k] = s}

Service == INSTANCE ClaimService WITH holders <- Holders

\* The statements of claim() implement the one-step claim service.
ImplementsService == Service!ServiceSpec

\* Every call of claim() gets an answer, or its client fails: nobody waits for
\* ever behind the gate, even when the gate's holder dies with it.
Answered ==
    \A s \in Sessions :
        pc[s] = "gate" ~> pc[s] \in {"owned", "refused", "idle", "orphan", "blocked"}

\* The locks of a dead owner come back: its name and its slot can be claimed
\* again without anybody stealing them.
DeadOwnerReleased ==
    \A s \in Sessions :
        pc[s] = "orphan" ~> (\A k \in Slots : slot[k] # s) /\ run[Key[s]] # s /\ gate # s

\* Nothing is waited for or kept for ever: a call of claim() is answered, and
\* what a dead owner held comes back.
LocksComeBack == Answered /\ DeadOwnerReleased
=============================================================================
