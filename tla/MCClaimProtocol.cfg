SPECIFICATION FairSpec
CONSTANTS
    a = a
    b = b
    c = c
    x = x
    y = y
    Nobody = Nobody
    Prober = Prober
    NSlots = 2
    Sessions <- MCSessions
    Keys <- MCKeys
    Key <- MCKey
    Workers <- MCWorkers
INVARIANTS
    TypeOK
    Exclusive
    AllOrNothing
PROPERTIES
    GrantWithinLimit
    ImplementsService
    LocksComeBack
