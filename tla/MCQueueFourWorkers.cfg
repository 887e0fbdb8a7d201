SPECIFICATION Spec
CONSTANTS
    a = a
    b = b
    c = c
    p1 = p1
    p2 = p2
    p3 = p3
    NoName = NoName
    Nobody = Nobody
    User = User
    Names <- MCNames
    Order <- MCOrder
    Source <- MCFree
    Procs = {p1, p2, p3}
    WorkerLimits = {4}
    Temps = {"cool"}
    Faults = {"train"}
SYMMETRY MCSymmetry
INVARIANTS
    FailureDrains
