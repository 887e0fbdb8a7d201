SPECIFICATION Spec
CONSTANTS
    a = a
    b = b
    c = c
    p1 = p1
    p2 = p2
    p3 = p3
    NoName = NoName
    Nobody = Nobody
    User = User
    Names <- MCPair
    Order <- MCPairOrder
    Source <- MCPairSource
    Procs = {p1, p2}
    WorkerLimits = {2}
    Temps = {"cool"}
    Faults = {"interrupt_attach"}
INVARIANTS
    WorkersStopped
