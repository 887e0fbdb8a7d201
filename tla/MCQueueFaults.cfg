SPECIFICATION Spec
CONSTANTS
    a = a
    b = b
    c = c
    p1 = p1
    p2 = p2
    p3 = p3
    NoName = NoName
    Nobody = Nobody
    User = User
    Names <- MCPair
    Order <- MCPairOrder
    Source <- MCPairSource
    Procs = {p1}
    WorkerLimits = {1}
    Temps = {"cool", "warm", "hot", "abort", "absent"}
    Faults = {"train", "startup", "kill", "linger", "slow", "lost", "interrupt", "interrupt_attach", "interrupt_again", "crash", "user"}
CHECK_DEADLOCK FALSE
INVARIANTS
    TypeOK
PROPERTIES
    SuccessHolds
