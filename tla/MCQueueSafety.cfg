SPECIFICATION Spec
CONSTANTS
    a = a
    b = b
    c = c
    p1 = p1
    p2 = p2
    p3 = p3
    NoName = NoName
    Nobody = Nobody
    User = User
    Names <- MCNames
    Order <- MCOrder
    Source <- MCSource
    Procs = {p1, p2}
    WorkerLimits = {2}
    Temps = {"cool"}
    Faults = {"train", "kill", "interrupt", "slow"}
SYMMETRY MCSymmetry
INVARIANTS
    DependencyOrder
    EndsClean
PROPERTIES
    FailureContained
