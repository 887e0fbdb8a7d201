---------------------------- MODULE ClaimService ----------------------------
(***************************************************************************)
(* What queue_execution/core.claim promises its callers, in one variable:  *)
(* the sessions that hold a claim.  A claim is granted in one step, only   *)
(* when no other holder has the same run key and fewer than the caller's   *)
(* --workers limit are held; it is dropped in one step.  ClaimProtocol     *)
(* shows that the SQL statements of claim() implement this.                *)
(***************************************************************************)
EXTENDS Integers, FiniteSets

CONSTANTS
    Sessions,   \* the database sessions that call claim()
    Keys,       \* the values of run_key(name)
    Key,        \* the run key each session asks for
    Workers     \* the workers argument of each session

VARIABLE holders

ServiceInit == holders = {}

\* A refused call is a stuttering step: the caller gets None and nothing changes.
Grant(s) ==
    /\ s \notin holders
    /\ \A h \in holders : Key[h] # Key[s]
    /\ Cardinality(holders) < Workers[s]
    /\ holders' = holders \cup {s}

\* The with-block ended, the holder died or its connection was lost.
Drop(s) ==
    /\ s \in holders
    /\ holders' = holders \ {s}

ServiceNext == \E s \in Sessions : Grant(s) \/ Drop(s)

ServiceSpec == ServiceInit /\ [][ServiceNext]_holders

=============================================================================
