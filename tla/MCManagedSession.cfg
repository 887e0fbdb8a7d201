CONSTANTS
    Sessions = {s1, s2}
    Workers = {w1, w2}
    NoWorker = NoWorker
    Nobody = Nobody
    Refused = Refused
    Capacity = 2
    Total = 2
    MaxInterrupts = 1
    MaxFaults = 1
    Settings <- MCSettings
    Commands <- MCCommands

SPECIFICATION Spec
CHECK_DEADLOCK FALSE

INVARIANT HardwareSafe
INVARIANT WorkersApart
PROPERTY SessionEnds
