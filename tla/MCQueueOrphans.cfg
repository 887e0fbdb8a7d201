SPECIFICATION FairSpec
CONSTANTS
    a = a
    b = b
    c = c
    p1 = p1
    p2 = p2
    p3 = p3
    NoName = NoName
    Nobody = Nobody
    User = User
    Names <- MCPair
    Order <- MCPairOrder
    Source <- MCPairSource
    Procs = {p1, p2}
    WorkerLimits = {1, 2}
    Temps = {"cool"}
    Faults = {"kill", "crash"}
CHECK_DEADLOCK FALSE
INVARIANTS
    TrainersBounded
PROPERTIES
    LiveCreatorOwnsRow
    QueueEnds
