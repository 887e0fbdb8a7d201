------------------------- MODULE ClaimProtocolProofs ------------------------
(***************************************************************************)
(* Proofs about ClaimProtocol for any number of sessions, keys and slots,  *)
(* and any worker limits up to the number of slots.                        *)
(*                                                                         *)
(* The argument: a session between CountSlots and OpenGate is the holder   *)
(* of the gate (GateInv), and slots are acquired only there, so what it    *)
(* counted stays an upper bound while others release (CountInv); hence the *)
(* scan always has a free slot in front of it, and taking it keeps the     *)
(* number of occupied slots within the caller's limit.  RunInv and SlotInv *)
(* tie the client's list of acquired locks to the server's lock table.     *)
(***************************************************************************)
EXTENDS ClaimProtocol, TLAPS, FiniteSetTheorems, FunctionTheorems

Critical == {"count", "run", "scan", "ungate", "unwind"}

\* A live session inside the gated block holds the gate.
GateInv ==
    \A s \in Sessions : conn[s] /\ pc[s] \in Critical => gate = s

\* How far a call has come determines what it has acquired.
PhaseInv ==
    \A s \in Sessions :
        /\ pc[s] \in {"idle", "gate", "blocked", "count", "run"} => acquired[s] = 0 /\ at[s] = 1
        /\ pc[s] = "scan" => acquired[s] = 1
        /\ conn[s] /\ pc[s] = "ungate" => acquired[s] \in {0, 2}
        /\ conn[s] /\ pc[s] = "owned" => acquired[s] = 2
        /\ conn[s] /\ pc[s] = "refused" => acquired[s] = 0
        /\ pc[s] = "idle" => ~ conn[s]

\* The run lock is held exactly by the live session whose list names it.
RunInv ==
    \A s \in Sessions :
        /\ conn[s] /\ acquired[s] # 0 => run[Key[s]] = s
        /\ \A k \in Keys : run[k] = s => conn[s] /\ acquired[s] # 0 /\ k = Key[s]

\* So is the slot.
SlotInv ==
    \A s \in Sessions :
        /\ conn[s] /\ acquired[s] = 2 => slot[at[s]] = s
        /\ \A k \in Slots : slot[k] = s => conn[s] /\ acquired[s] = 2 /\ k = at[s]

\* What the gate's holder counted is still an upper bound, and the scan has a
\* free slot in front of it.
CountInv ==
    \A s \in Sessions :
        conn[s] /\ pc[s] \in {"run", "scan"} =>
            /\ Cardinality(Occupied) < Workers[s]
            /\ pc[s] = "scan" => \E k \in Slots : at[s] <= k /\ slot[k] = Nobody

IInv == TypeOK /\ GateInv /\ PhaseInv /\ RunInv /\ SlotInv /\ CountInv

-----------------------------------------------------------------------------
(* Sets of slots *)

\* Sets of slots are finite, a smaller one has no more elements, and none has
\* more than NSlots.
LEMMA SlotSets ==
    ASSUME NEW S \in SUBSET Slots, NEW T \in SUBSET S
    PROVE  /\ IsFiniteSet(S)
           /\ Cardinality(S) \in Nat
           /\ Cardinality(T) \in Nat
           /\ Cardinality(T) <= Cardinality(S)
           /\ Cardinality(S) <= NSlots
<1>1. IsFiniteSet(Slots) /\ Cardinality(Slots) = NSlots
  BY ProtocolAssumption, FS_Interval DEF Slots
<1>2. IsFiniteSet(S) /\ Cardinality(S) <= NSlots
  BY <1>1, FS_Subset
<1>3. IsFiniteSet(T) /\ Cardinality(T) <= Cardinality(S)
  BY <1>2, FS_Subset
<1> QED
  BY <1>2, <1>3, FS_CardinalityType

\* Taking one more slot adds at most one to the count.
LEMMA OneMoreSlot ==
    ASSUME NEW S \in SUBSET Slots, NEW k \in Slots
    PROVE  Cardinality(S \cup {k}) <= Cardinality(S) + 1
<1>1. IsFiniteSet(S) /\ Cardinality(S) \in Nat
  BY SlotSets
<1> QED
  BY <1>1, FS_AddElement

\* If fewer than NSlots slots are in S, some slot is not in S.
LEMMA SomeSlotFree ==
    ASSUME NEW S \in SUBSET Slots, Cardinality(S) < NSlots
    PROVE  \E k \in Slots : k \notin S
<1>1. Cardinality(Slots) = NSlots
  BY ProtocolAssumption, FS_Interval DEF Slots
<1>2. S # Slots
  BY <1>1, ProtocolAssumption
<1> QED
  BY <1>2

-----------------------------------------------------------------------------
(* The inductive invariant *)

\* IInv holds initially: no session has locked or acquired anything.
LEMMA InitIInv == Init => IInv
<1> SUFFICES ASSUME Init PROVE IInv
  OBVIOUS
<1>1. TypeOK
  BY ProtocolAssumption DEF Init, TypeOK, Labels, Slots
<1>2. GateInv /\ PhaseInv /\ CountInv
  BY DEF Init, GateInv, PhaseInv, CountInv
<1>3. RunInv /\ SlotInv
  BY ProtocolAssumption DEF Init, RunInv, SlotInv
<1> QED
  BY <1>1, <1>2, <1>3 DEF IInv

\* Every action keeps the types.
LEMMA TypeStep == IInv /\ [Next]_vars => TypeOK'
<1> SUFFICES ASSUME IInv, [Next]_vars PROVE TypeOK'
  OBVIOUS
<1> USE ProtocolAssumption DEF IInv, TypeOK, Labels, Slots, Goto, Over, DropLocks
<1>1. ASSUME NEW s \in Sessions, SessionStep(s) PROVE TypeOK'
  <2>1. CASE Connect(s)
    BY <2>1 DEF Connect
  <2>2. CASE GateGranted(s)
    BY <2>2 DEF GateGranted, GrantGateTo
  <2>3. CASE CountSlots(s)
    BY <2>3 DEF CountSlots, CountAgainst
  <2>4. CASE TryRun(s)
    <3>1. run' \in [Keys -> Sessions \cup {Nobody, Prober}]
      BY <2>4 DEF TryRun
    <3>2. acquired' \in [Sessions -> 0 .. 2]
      <4>1. acquired' = [acquired EXCEPT ![s] = 1] \/ acquired' = acquired
        BY <2>4 DEF TryRun
      <4>2. acquired \in [Sessions -> 0 .. 2] /\ 1 \in 0 .. 2
        OBVIOUS
      <4> HIDE DEF IInv, TypeOK, Labels, Goto, Over, DropLocks
      <4> QED
        BY <4>1, <4>2
    <3>3. pc' \in [Sessions -> Labels]
      BY <2>4 DEF TryRun
    <3> QED
      BY <2>4, <3>1, <3>2, <3>3 DEF TryRun
  <2>5. CASE TrySlot(s)
    <3>1. slot' \in [Slots -> Sessions \cup {Nobody}]
      BY <2>5 DEF TrySlot, ScanUpTo
    <3>2. at' \in [Sessions -> Slots]
      <4>1. at[s] \in Int /\ (at[s] < NSlots => at[s] + 1 \in Slots)
        OBVIOUS
      <4>2. \/ at' = at
            \/ at' = [at EXCEPT ![s] = at[s] + 1] /\ at[s] < NSlots
        BY <2>5, <4>1 DEF TrySlot, ScanUpTo
      <4> QED
        BY <4>1, <4>2
    <3>3. acquired' \in [Sessions -> 0 .. 2]
      <4>1. acquired' = [acquired EXCEPT ![s] = 2] \/ acquired' = acquired
        BY <2>5 DEF TrySlot, ScanUpTo
      <4>2. acquired \in [Sessions -> 0 .. 2] /\ 2 \in 0 .. 2
        OBVIOUS
      <4> HIDE DEF IInv, TypeOK, Labels, Goto, Over, DropLocks
      <4> QED
        BY <4>1, <4>2
    <3>4. pc' \in [Sessions -> Labels]
      BY <2>5 DEF TrySlot, ScanUpTo
    <3> QED
      BY <2>5, <3>1, <3>2, <3>3, <3>4 DEF TrySlot, ScanUpTo
  <2>6. CASE OpenGate(s)
    BY <2>6 DEF OpenGate, LeaveGate
  <2>7. CASE Leave(s)
    BY <2>7 DEF Leave
  <2>8. CASE Unlock(s)
    <3>1. run' \in [Keys -> Sessions \cup {Nobody, Prober}]
      BY <2>8 DEF Unlock
    <3>2. slot' \in [Slots -> Sessions \cup {Nobody}]
      BY <2>8 DEF Unlock
    <3>3. acquired' \in [Sessions -> 0 .. 2]
      BY <2>8 DEF Unlock
    <3> QED
      BY <2>8, <3>1, <3>2, <3>3 DEF Unlock
  <2>9. CASE Close(s)
    BY <2>9 DEF Close
  <2>10. CASE StatementFails(s)
    BY <2>10 DEF StatementFails
  <2>11. CASE ConnectionLost(s)
    BY <2>11 DEF ConnectionLost
  <2>12. CASE ClientGone(s)
    BY <2>12 DEF ClientGone
  <2>13. CASE SessionEnds(s)
    BY <2>13 DEF SessionEnds
  <2>14. CASE StatementRaises(s)
    BY <2>14 DEF StatementRaises
  <2>15. CASE UnwindGate(s)
    BY <2>15 DEF UnwindGate
  <2>16. CASE UnlockRaises(s)
    BY <2>16 DEF UnlockRaises
  <2> QED
    BY <1>1, <2>1, <2>2, <2>3, <2>4, <2>5, <2>6, <2>7, <2>8, <2>9, <2>10, <2>11, <2>12, <2>13,
       <2>14, <2>15, <2>16
    DEF SessionStep
<1>2. ASSUME NEW k \in Keys, ProbeTry(k) \/ ProbeUnlock(k) PROVE TypeOK'
  BY <1>2 DEF ProbeTry, ProbeUnlock
<1>3. CASE UNCHANGED vars
  BY <1>3 DEF vars
<1> QED
  BY <1>1, <1>2, <1>3 DEF Next

\* Only the gate's holder is in the gated block.
LEMMA GateStep == IInv /\ [Next]_vars => GateInv'
<1> SUFFICES ASSUME IInv, [Next]_vars PROVE GateInv'
  OBVIOUS
<1> USE ProtocolAssumption DEF IInv, TypeOK, GateInv, Critical, Goto, Over, DropLocks
<1>1. ASSUME NEW s \in Sessions, SessionStep(s) PROVE GateInv'
  <2>1. CASE Connect(s)
    BY <2>1 DEF Connect
  <2>2. CASE GateGranted(s)
    BY <2>2 DEF GateGranted, GrantGateTo
  <2>3. CASE CountSlots(s)
    BY <2>3 DEF CountSlots, CountAgainst
  <2>4. CASE TryRun(s)
    BY <2>4 DEF TryRun
  <2>5. CASE TrySlot(s)
    BY <2>5 DEF TrySlot, ScanUpTo
  <2>6. CASE OpenGate(s)
    BY <2>6 DEF OpenGate, LeaveGate
  <2>7. CASE Leave(s)
    BY <2>7 DEF Leave
  <2>8. CASE Unlock(s)
    BY <2>8 DEF Unlock
  <2>9. CASE Close(s)
    BY <2>9 DEF Close
  <2>10. CASE StatementFails(s)
    BY <2>10 DEF StatementFails
  <2>11. CASE ConnectionLost(s)
    BY <2>11 DEF ConnectionLost
  <2>12. CASE ClientGone(s)
    BY <2>12 DEF ClientGone
  <2>13. CASE SessionEnds(s)
    BY <2>13 DEF SessionEnds
  <2>14. CASE StatementRaises(s)
    BY <2>14 DEF StatementRaises
  <2>15. CASE UnwindGate(s)
    BY <2>15 DEF UnwindGate
  <2>16. CASE UnlockRaises(s)
    BY <2>16 DEF UnlockRaises
  <2> QED
    BY <1>1, <2>1, <2>2, <2>3, <2>4, <2>5, <2>6, <2>7, <2>8, <2>9, <2>10, <2>11, <2>12, <2>13,
       <2>14, <2>15, <2>16
    DEF SessionStep
<1>2. ASSUME NEW k \in Keys, ProbeTry(k) \/ ProbeUnlock(k) PROVE GateInv'
  BY <1>2 DEF ProbeTry, ProbeUnlock
<1>3. CASE UNCHANGED vars
  BY <1>3 DEF vars
<1> QED
  BY <1>1, <1>2, <1>3 DEF Next

\* The phase of a call fixes what it has acquired.
LEMMA PhaseStep == IInv /\ [Next]_vars => PhaseInv'
<1> SUFFICES ASSUME IInv, [Next]_vars PROVE PhaseInv'
  OBVIOUS
<1> USE ProtocolAssumption DEF IInv, TypeOK, PhaseInv, CountInv, Goto, Over, DropLocks
<1>1. ASSUME NEW s \in Sessions, SessionStep(s) PROVE PhaseInv'
  <2>1. CASE Connect(s)
    BY <2>1 DEF Connect
  <2>2. CASE GateGranted(s)
    BY <2>2 DEF GateGranted, GrantGateTo
  <2>3. CASE CountSlots(s)
    BY <2>3 DEF CountSlots, CountAgainst
  <2>4. CASE TryRun(s)
    BY <2>4 DEF TryRun
  <2>5. CASE TrySlot(s)
    <3>1. slot[at[s]] # Nobody => at[s] < NSlots
      <4>1. PICK k \in Slots : at[s] <= k /\ slot[k] = Nobody
        BY <2>5 DEF TrySlot, ScanUpTo
      <4> QED
        BY <4>1 DEF Slots
    <3>2. CASE slot[at[s]] = Nobody
      BY <2>5, <3>2 DEF TrySlot, ScanUpTo
    <3>3. CASE slot[at[s]] # Nobody
      <4>1. pc' = [pc EXCEPT ![s] = "scan"]
        BY <2>5, <3>1, <3>3 DEF TrySlot, ScanUpTo
      <4> QED
        BY <2>5, <3>3, <4>1 DEF TrySlot, ScanUpTo
    <3> QED
      BY <3>2, <3>3
  <2>6. CASE OpenGate(s)
    BY <2>6 DEF OpenGate, LeaveGate
  <2>7. CASE Leave(s)
    BY <2>7 DEF Leave
  <2>8. CASE Unlock(s)
    BY <2>8 DEF Unlock
  <2>9. CASE Close(s)
    BY <2>9 DEF Close
  <2>10. CASE StatementFails(s)
    BY <2>10 DEF StatementFails
  <2>11. CASE ConnectionLost(s)
    BY <2>11 DEF ConnectionLost
  <2>12. CASE ClientGone(s)
    BY <2>12 DEF ClientGone
  <2>13. CASE SessionEnds(s)
    BY <2>13 DEF SessionEnds
  <2>14. CASE StatementRaises(s)
    BY <2>14 DEF StatementRaises
  <2>15. CASE UnwindGate(s)
    BY <2>15 DEF UnwindGate
  <2>16. CASE UnlockRaises(s)
    BY <2>16 DEF UnlockRaises
  <2> QED
    BY <1>1, <2>1, <2>2, <2>3, <2>4, <2>5, <2>6, <2>7, <2>8, <2>9, <2>10, <2>11, <2>12, <2>13,
       <2>14, <2>15, <2>16
    DEF SessionStep
<1>2. ASSUME NEW k \in Keys, ProbeTry(k) \/ ProbeUnlock(k) PROVE PhaseInv'
  BY <1>2 DEF ProbeTry, ProbeUnlock
<1>3. CASE UNCHANGED vars
  BY <1>3 DEF vars
<1> QED
  BY <1>1, <1>2, <1>3 DEF Next

\* The server's run locks agree with the clients' lists.
LEMMA RunStep == IInv /\ [Next]_vars => RunInv'
<1> SUFFICES ASSUME IInv, [Next]_vars PROVE RunInv'
  OBVIOUS
<1> USE ProtocolAssumption DEF IInv, TypeOK, RunInv, PhaseInv, Goto, Over, DropLocks
<1>1. ASSUME NEW s \in Sessions, SessionStep(s) PROVE RunInv'
  <2>1. CASE Connect(s)
    BY <2>1 DEF Connect
  <2>2. CASE GateGranted(s)
    BY <2>2 DEF GateGranted, GrantGateTo
  <2>3. CASE CountSlots(s)
    BY <2>3 DEF CountSlots, CountAgainst
  <2>4. CASE TryRun(s)
    BY <2>4 DEF TryRun
  <2>5. CASE TrySlot(s)
    BY <2>5 DEF TrySlot, ScanUpTo
  <2>6. CASE OpenGate(s)
    BY <2>6 DEF OpenGate, LeaveGate
  <2>7. CASE Leave(s)
    BY <2>7 DEF Leave
  <2>8. CASE Unlock(s)
    BY <2>8 DEF Unlock
  <2>9. CASE Close(s)
    BY <2>9 DEF Close
  <2>10. CASE StatementFails(s)
    BY <2>10 DEF StatementFails
  <2>11. CASE ConnectionLost(s)
    BY <2>11 DEF ConnectionLost
  <2>12. CASE ClientGone(s)
    BY <2>12 DEF ClientGone
  <2>13. CASE SessionEnds(s)
    BY <2>13 DEF SessionEnds
  <2>14. CASE StatementRaises(s)
    BY <2>14 DEF StatementRaises
  <2>15. CASE UnwindGate(s)
    BY <2>15 DEF UnwindGate
  <2>16. CASE UnlockRaises(s)
    BY <2>16 DEF UnlockRaises
  <2> QED
    BY <1>1, <2>1, <2>2, <2>3, <2>4, <2>5, <2>6, <2>7, <2>8, <2>9, <2>10, <2>11, <2>12, <2>13,
       <2>14, <2>15, <2>16
    DEF SessionStep
<1>2. ASSUME NEW k \in Keys, ProbeTry(k) \/ ProbeUnlock(k) PROVE RunInv'
  BY <1>2 DEF ProbeTry, ProbeUnlock
<1>3. CASE UNCHANGED vars
  BY <1>3 DEF vars
<1> QED
  BY <1>1, <1>2, <1>3 DEF Next

\* The server's slot locks agree with the clients' lists.
LEMMA SlotStep == IInv /\ [Next]_vars => SlotInv'
<1> SUFFICES ASSUME IInv, [Next]_vars PROVE SlotInv'
  OBVIOUS
<1> USE ProtocolAssumption DEF IInv, TypeOK, SlotInv, PhaseInv, Goto, Over, DropLocks
<1>1. ASSUME NEW s \in Sessions, SessionStep(s) PROVE SlotInv'
  <2>1. CASE Connect(s)
    BY <2>1 DEF Connect
  <2>2. CASE GateGranted(s)
    BY <2>2 DEF GateGranted, GrantGateTo
  <2>3. CASE CountSlots(s)
    BY <2>3 DEF CountSlots, CountAgainst
  <2>4. CASE TryRun(s)
    BY <2>4 DEF TryRun
  <2>5. CASE TrySlot(s)
    BY <2>5 DEF TrySlot, ScanUpTo
  <2>6. CASE OpenGate(s)
    BY <2>6 DEF OpenGate, LeaveGate
  <2>7. CASE Leave(s)
    BY <2>7 DEF Leave
  <2>8. CASE Unlock(s)
    BY <2>8 DEF Unlock
  <2>9. CASE Close(s)
    BY <2>9 DEF Close
  <2>10. CASE StatementFails(s)
    BY <2>10 DEF StatementFails
  <2>11. CASE ConnectionLost(s)
    BY <2>11 DEF ConnectionLost
  <2>12. CASE ClientGone(s)
    BY <2>12 DEF ClientGone
  <2>13. CASE SessionEnds(s)
    BY <2>13 DEF SessionEnds
  <2>14. CASE StatementRaises(s)
    BY <2>14 DEF StatementRaises
  <2>15. CASE UnwindGate(s)
    BY <2>15 DEF UnwindGate
  <2>16. CASE UnlockRaises(s)
    BY <2>16 DEF UnlockRaises
  <2> QED
    BY <1>1, <2>1, <2>2, <2>3, <2>4, <2>5, <2>6, <2>7, <2>8, <2>9, <2>10, <2>11, <2>12, <2>13,
       <2>14, <2>15, <2>16
    DEF SessionStep
<1>2. ASSUME NEW k \in Keys, ProbeTry(k) \/ ProbeUnlock(k) PROVE SlotInv'
  BY <1>2 DEF ProbeTry, ProbeUnlock
<1>3. CASE UNCHANGED vars
  BY <1>3 DEF vars
<1> QED
  BY <1>1, <1>2, <1>3 DEF Next

\* What was counted under the gate stays true until the gate opens.
LEMMA CountStep == IInv /\ [Next]_vars => CountInv'
<1> SUFFICES ASSUME IInv, [Next]_vars PROVE CountInv'
  OBVIOUS
<1> USE ProtocolAssumption DEF IInv, TypeOK, CountInv, Goto, Over, DropLocks
<1>0. /\ Cardinality(Occupied) \in Nat
      /\ Cardinality(Occupied') \in Nat
      /\ \A t \in Sessions : Workers[t] \in Nat /\ Workers[t] <= NSlots
  BY SlotSets DEF Occupied
<1>1. ASSUME NEW s \in Sessions, SessionStep(s) PROVE CountInv'
  <2>1. CASE Connect(s)
    <3>1. \A k \in Slots : slot[k] = Nobody => slot'[k] = Nobody
      BY <2>1 DEF Connect
    <3>2. Cardinality(Occupied') <= Cardinality(Occupied)
      BY <3>1, SlotSets DEF Occupied
    <3> QED
      BY <2>1, <3>1, <3>2, <1>0 DEF Connect
  <2>2. CASE GateGranted(s)
    <3>1. \A k \in Slots : slot[k] = Nobody => slot'[k] = Nobody
      BY <2>2 DEF GateGranted, GrantGateTo
    <3>2. Cardinality(Occupied') <= Cardinality(Occupied)
      BY <3>1, SlotSets DEF Occupied
    <3> QED
      BY <2>2, <3>1, <3>2, <1>0 DEF GateGranted, GrantGateTo
  <2>3. CASE CountSlots(s)
    BY <2>3, <1>0 DEF CountSlots, CountAgainst, Occupied
  <2>4. CASE TryRun(s)
    <3>1. \E k \in Slots : 1 <= k /\ slot[k] = Nobody
      <4>1. Cardinality(Occupied) < NSlots
        BY <2>4, <1>0 DEF TryRun
      <4>2. PICK k \in Slots : k \notin Occupied
        BY <4>1, SomeSlotFree DEF Occupied
      <4> QED
        BY <4>2 DEF Occupied, Slots
    <3>2. Occupied' = Occupied /\ slot' = slot
      BY <2>4 DEF TryRun, Occupied
    <3> QED
      BY <2>4, <3>1, <3>2 DEF TryRun, PhaseInv
  <2>5. CASE TrySlot(s)
    <3>1. \A t \in Sessions : t # s => ~ (conn[t] /\ pc[t] \in Critical)
      BY <2>5 DEF TrySlot, ScanUpTo, GateInv, Critical
    <3>2. CASE slot[at[s]] = Nobody
      BY <2>5, <3>1, <3>2 DEF TrySlot, ScanUpTo, Critical
    <3>3. CASE slot[at[s]] # Nobody
      <4>1. Occupied' = Occupied /\ slot' = slot
        BY <2>5, <3>3 DEF TrySlot, ScanUpTo, Occupied
      <4>2. PICK k \in Slots : at[s] <= k /\ slot[k] = Nobody
        BY <2>5 DEF TrySlot, ScanUpTo
      <4>3. at[s] + 1 <= k
        BY <3>3, <4>2 DEF Slots
      <4>4. Cardinality(Occupied) < Workers[s]
        BY <2>5 DEF TrySlot, ScanUpTo
      <4>5. at[s] < NSlots /\ at' = [at EXCEPT ![s] = at[s] + 1]
        BY <2>5, <3>3, <4>3 DEF TrySlot, ScanUpTo, Slots
      <4> QED
        BY <2>5, <3>1, <3>3, <4>1, <4>2, <4>3, <4>4, <4>5 DEF TrySlot, ScanUpTo, Critical
    <3> QED
      BY <3>2, <3>3
  <2>6. CASE OpenGate(s)
    <3>1. \A k \in Slots : slot[k] = Nobody => slot'[k] = Nobody
      BY <2>6 DEF OpenGate, LeaveGate
    <3>2. Cardinality(Occupied') <= Cardinality(Occupied)
      BY <3>1, SlotSets DEF Occupied
    <3> QED
      BY <2>6, <3>1, <3>2, <1>0 DEF OpenGate, LeaveGate
  <2>7. CASE Leave(s)
    <3>1. \A k \in Slots : slot[k] = Nobody => slot'[k] = Nobody
      BY <2>7 DEF Leave
    <3>2. Cardinality(Occupied') <= Cardinality(Occupied)
      BY <3>1, SlotSets DEF Occupied
    <3> QED
      BY <2>7, <3>1, <3>2, <1>0 DEF Leave
  <2>8. CASE Unlock(s)
    <3>1. \A k \in Slots : slot[k] = Nobody => slot'[k] = Nobody
      BY <2>8 DEF Unlock
    <3>2. Cardinality(Occupied') <= Cardinality(Occupied)
      BY <3>1, SlotSets DEF Occupied
    <3> QED
      BY <2>8, <3>1, <3>2, <1>0 DEF Unlock
  <2>9. CASE Close(s)
    <3>1. \A k \in Slots : slot[k] = Nobody => slot'[k] = Nobody
      BY <2>9 DEF Close
    <3>2. Cardinality(Occupied') <= Cardinality(Occupied)
      BY <3>1, SlotSets DEF Occupied
    <3> QED
      BY <2>9, <3>1, <3>2, <1>0 DEF Close
  <2>10. CASE StatementFails(s)
    <3>1. \A k \in Slots : slot[k] = Nobody => slot'[k] = Nobody
      BY <2>10 DEF StatementFails
    <3>2. Cardinality(Occupied') <= Cardinality(Occupied)
      BY <3>1, SlotSets DEF Occupied
    <3> QED
      BY <2>10, <3>1, <3>2, <1>0 DEF StatementFails
  <2>11. CASE ConnectionLost(s)
    <3>1. \A k \in Slots : slot[k] = Nobody => slot'[k] = Nobody
      BY <2>11 DEF ConnectionLost
    <3>2. Cardinality(Occupied') <= Cardinality(Occupied)
      BY <3>1, SlotSets DEF Occupied
    <3> QED
      BY <2>11, <3>1, <3>2, <1>0 DEF ConnectionLost
  <2>12. CASE ClientGone(s)
    <3>1. \A k \in Slots : slot[k] = Nobody => slot'[k] = Nobody
      BY <2>12 DEF ClientGone
    <3>2. Cardinality(Occupied') <= Cardinality(Occupied)
      BY <3>1, SlotSets DEF Occupied
    <3> QED
      BY <2>12, <3>1, <3>2, <1>0 DEF ClientGone
  <2>13. CASE SessionEnds(s)
    <3>1. \A k \in Slots : slot[k] = Nobody => slot'[k] = Nobody
      BY <2>13 DEF SessionEnds
    <3>2. Cardinality(Occupied') <= Cardinality(Occupied)
      BY <3>1, SlotSets DEF Occupied
    <3> QED
      BY <2>13, <3>1, <3>2, <1>0 DEF SessionEnds
  <2>14. CASE StatementRaises(s)
    <3>1. \A k \in Slots : slot[k] = Nobody => slot'[k] = Nobody
      BY <2>14 DEF StatementRaises
    <3>2. Cardinality(Occupied') <= Cardinality(Occupied)
      BY <3>1, SlotSets DEF Occupied
    <3> QED
      BY <2>14, <3>1, <3>2, <1>0 DEF StatementRaises
  <2>15. CASE UnwindGate(s)
    <3>1. \A k \in Slots : slot[k] = Nobody => slot'[k] = Nobody
      BY <2>15 DEF UnwindGate
    <3>2. Cardinality(Occupied') <= Cardinality(Occupied)
      BY <3>1, SlotSets DEF Occupied
    <3> QED
      BY <2>15, <3>1, <3>2, <1>0 DEF UnwindGate
  <2>16. CASE UnlockRaises(s)
    <3>1. \A k \in Slots : slot[k] = Nobody => slot'[k] = Nobody
      BY <2>16 DEF UnlockRaises
    <3>2. Cardinality(Occupied') <= Cardinality(Occupied)
      BY <3>1, SlotSets DEF Occupied
    <3> QED
      BY <2>16, <3>1, <3>2, <1>0 DEF UnlockRaises
  <2> QED
    BY <1>1, <2>1, <2>2, <2>3, <2>4, <2>5, <2>6, <2>7, <2>8, <2>9, <2>10, <2>11, <2>12, <2>13,
       <2>14, <2>15, <2>16
    DEF SessionStep
<1>2. ASSUME NEW k \in Keys, ProbeTry(k) \/ ProbeUnlock(k) PROVE CountInv'
  BY <1>2, <1>0 DEF ProbeTry, ProbeUnlock, Occupied
<1>3. CASE UNCHANGED vars
  BY <1>3, <1>0 DEF vars, Occupied
<1> QED
  BY <1>1, <1>2, <1>3 DEF Next

\* IInv is inductive: it holds initially and every step keeps it.
THEOREM InductiveInvariant == Spec => []IInv
<1>1. IInv /\ [Next]_vars => IInv'
  BY TypeStep, GateStep, PhaseStep, RunStep, SlotStep, CountStep DEF IInv
<1> QED
  BY InitIInv, <1>1, PTL DEF Spec

-----------------------------------------------------------------------------
(* The properties *)

\* Every variable keeps its type, for any number of sessions, keys and slots.
THEOREM TypeCorrect == Spec => []TypeOK
<1>1. IInv => TypeOK
  BY DEF IInv
<1> QED
  BY InductiveInvariant, <1>1, PTL

\* One run key has at most one live owner: core.claim never lets two workers
\* train the same run.
THEOREM ExclusiveClaims == Spec => []Exclusive
<1>1. IInv => Exclusive
  <2> SUFFICES ASSUME IInv, NEW s \in Sessions, NEW t \in Sessions,
                      Owns(s), Owns(t), Key[s] = Key[t]
               PROVE  s = t
    BY DEF Exclusive
  <2>1. run[Key[s]] = s
    BY DEF IInv, PhaseInv, RunInv, Owns
  <2>2. run[Key[t]] = t
    BY DEF IInv, PhaseInv, RunInv, Owns
  <2> QED
    BY <2>1, <2>2
<1> QED
  BY InductiveInvariant, <1>1, PTL

\* claim() never comes out of the gate with the name but no slot.
THEOREM AllOrNothingClaims == Spec => []AllOrNothing
<1>1. IInv => AllOrNothing
  BY DEF IInv, PhaseInv, RunInv, SlotInv, AllOrNothing
<1> QED
  BY InductiveInvariant, <1>1, PTL

\* No grant exceeds the worker limit of its caller.
THEOREM GrantsWithinLimit == Spec => GrantWithinLimit
<1>1. IInv /\ [Next]_vars =>
        \A s \in Sessions :
            pc[s] = "scan" /\ acquired'[s] = 2 /\ acquired[s] = 1 =>
                Cardinality(Occupied') <= Workers[s]
  <2> SUFFICES ASSUME IInv, [Next]_vars, NEW s \in Sessions,
                      pc[s] = "scan", acquired'[s] = 2, acquired[s] = 1
               PROVE  Cardinality(Occupied') <= Workers[s]
    OBVIOUS
  <2>1. TrySlot(s)
    <3>1. ASSUME NEW t \in Sessions, SessionStep(t) PROVE TrySlot(s)
      BY <3>1, ProtocolAssumption
      DEF IInv, TypeOK, SessionStep, Connect, GateGranted, GrantGateTo, CountSlots, CountAgainst,
          TryRun, TrySlot, ScanUpTo, OpenGate, LeaveGate, Leave, Unlock, Close, StatementRaises,
          UnwindGate, UnlockRaises, StatementFails,
          ConnectionLost, ClientGone, SessionEnds, Goto, Over
    <3>2. ~ \E k \in Keys : ProbeTry(k) \/ ProbeUnlock(k)
      BY DEF ProbeTry, ProbeUnlock
    <3>3. ~ UNCHANGED vars
      BY DEF vars
    <3> QED
      BY <3>1, <3>2, <3>3 DEF Next
  <2>2. Occupied' = Occupied \cup {at[s]} /\ at[s] \in Slots
    BY <2>1, ProtocolAssumption DEF IInv, TypeOK, TrySlot, ScanUpTo, Occupied
  <2>3. Cardinality(Occupied) < Workers[s]
    BY <2>1 DEF IInv, CountInv, TrySlot, ScanUpTo
  <2>4. Cardinality(Occupied') <= Cardinality(Occupied) + 1
    BY <2>2, OneMoreSlot DEF Occupied
  <2>5. Cardinality(Occupied) \in Nat /\ Cardinality(Occupied') \in Nat /\ Workers[s] \in Nat
    BY SlotSets, ProtocolAssumption DEF Occupied, Slots
  <2> QED
    BY <2>3, <2>4, <2>5
<1> QED
  BY InductiveInvariant, <1>1, PTL DEF Spec, GrantWithinLimit

-----------------------------------------------------------------------------
(* The refinement *)

\* A session has at most one slot, so there are no more holders than slots.
LEMMA HoldersBounded ==
    ASSUME IInv
    PROVE  /\ Cardinality(Holders) \in Nat
           /\ Cardinality(Holders) <= Cardinality(Occupied)
<1> DEFINE f == [k \in Occupied |-> slot[k]]
<1>1. f \in Surjection(Occupied, Holders)
  <2>1. f \in [Occupied -> Holders]
    BY DEF IInv, TypeOK, Occupied, Holders
  <2>2. \A s \in Holders : \E k \in Occupied : f[k] = s
    BY ProtocolAssumption DEF Occupied, Holders
  <2> QED
    BY <2>1, <2>2 DEF Surjection
<1>2. IsFiniteSet(Occupied)
  BY SlotSets DEF Occupied
<1>3. IsFiniteSet(Holders) /\ Cardinality(Holders) <= Cardinality(Occupied)
  BY <1>1, <1>2, FS_Surjection
<1> QED
  BY <1>3, FS_CardinalityType

\* The scan step that takes a slot is the grant.
LEMMA SlotIsGrant ==
    ASSUME IInv, NEW s \in Sessions, TrySlot(s), slot[at[s]] = Nobody
    PROVE  Service!Grant(s)
<1>1. s \notin Holders
  BY DEF IInv, SlotInv, PhaseInv, Holders, TrySlot, ScanUpTo
<1>2. \A h \in Holders : Key[h] # Key[s]
  <2>1. run[Key[s]] = s
    BY DEF IInv, RunInv, PhaseInv, TrySlot, ScanUpTo
  <2>2. \A h \in Holders : run[Key[h]] = h
    BY DEF IInv, RunInv, SlotInv, Holders
  <2> QED
    BY <1>1, <2>1, <2>2
<1>3. Cardinality(Holders) < Workers[s]
  <2>1. Cardinality(Occupied) < Workers[s]
    BY DEF IInv, CountInv, TrySlot, ScanUpTo
  <2>2. Cardinality(Occupied) \in Nat /\ Workers[s] \in Nat
    BY SlotSets, ProtocolAssumption DEF Occupied, Slots
  <2> QED
    BY <2>1, <2>2, HoldersBounded
<1>4. Holders' = Holders \cup {s}
  BY ProtocolAssumption DEF IInv, TypeOK, Holders, TrySlot, ScanUpTo
<1>5. Service!Cardinality(Holders) = Cardinality(Holders)
  BY DEF Service!Cardinality, Cardinality
<1> QED
  BY <1>1, <1>2, <1>3, <1>4, <1>5 DEF Service!Grant

\* A session that loses all its slots is a drop, or held nothing.
LEMMA FreeingIsDrop ==
    ASSUME IInv, NEW s \in Sessions,
           slot' = [k \in Slots |-> IF slot[k] = s THEN Nobody ELSE slot[k]]
    PROVE  Service!Drop(s) \/ Holders' = Holders
<1>1. Holders' = Holders \ {s}
  BY ProtocolAssumption DEF IInv, TypeOK, Holders
<1> QED
  BY <1>1 DEF Service!Drop

\* claim()'s statements implement the abstract claim service: callers may
\* reason with one-step grants and drops.
THEOREM ClaimImplementsService == Spec => ImplementsService
<1>1. Init => Service!ServiceInit
  BY ProtocolAssumption DEF Init, Service!ServiceInit, Holders
<1>2. IInv /\ [Next]_vars => [Service!ServiceNext]_Holders
  <2> SUFFICES ASSUME IInv, [Next]_vars
               PROVE  Service!ServiceNext \/ Holders' = Holders
    OBVIOUS
  <2>1. ASSUME slot' = slot PROVE Holders' = Holders
    BY <2>1 DEF Holders
  <2>2. ASSUME NEW s \in Sessions, SessionStep(s)
        PROVE  Service!ServiceNext \/ Holders' = Holders
    <3>1. CASE \/ Connect(s) \/ GateGranted(s) \/ CountSlots(s) \/ TryRun(s) \/ OpenGate(s)
               \/ Leave(s) \/ StatementRaises(s) \/ UnwindGate(s) \/ StatementFails(s)
               \/ ClientGone(s)
      BY <3>1, <2>1 DEF Connect, GateGranted, GrantGateTo, CountSlots, CountAgainst, TryRun,
                        OpenGate, LeaveGate, Leave, StatementRaises, UnwindGate,
                        StatementFails, ClientGone
    <3>2. CASE TrySlot(s)
      <4>1. CASE slot[at[s]] = Nobody
        BY <3>2, <4>1, SlotIsGrant DEF Service!ServiceNext
      <4>2. CASE slot[at[s]] # Nobody
        BY <3>2, <4>2, <2>1 DEF TrySlot, ScanUpTo
      <4> QED
        BY <4>1, <4>2
    <3>3. CASE Unlock(s)
      <4>1. CASE acquired[s] = 2
        <5>1. slot' = [k \in Slots |-> IF slot[k] = s THEN Nobody ELSE slot[k]]
          BY <3>3, <4>1 DEF IInv, TypeOK, SlotInv, Unlock
        <5> QED
          BY <5>1, FreeingIsDrop DEF Service!ServiceNext
      <4>2. CASE acquired[s] # 2
        BY <3>3, <4>2, <2>1 DEF Unlock
      <4> QED
        BY <4>1, <4>2
    <3>4. CASE Close(s) \/ UnlockRaises(s) \/ ConnectionLost(s) \/ SessionEnds(s)
      BY <3>4, FreeingIsDrop DEF Close, UnlockRaises, ConnectionLost, SessionEnds, DropLocks, Service!ServiceNext
    <3> QED
      BY <2>2, <3>1, <3>2, <3>3, <3>4 DEF SessionStep
  <2>3. ASSUME NEW k \in Keys, ProbeTry(k) \/ ProbeUnlock(k) PROVE Holders' = Holders
    BY <2>3, <2>1 DEF ProbeTry, ProbeUnlock
  <2>4. CASE UNCHANGED vars
    BY <2>4, <2>1 DEF vars
  <2> QED
    BY <2>2, <2>3, <2>4 DEF Next
<1> QED
  BY InductiveInvariant, <1>1, <1>2, PTL DEF Spec, ImplementsService, Service!ServiceSpec
=============================================================================
