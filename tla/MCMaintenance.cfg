SPECIFICATION FairSpec
CONSTANTS
    MaxId = 2
    Plays <- MCPlays
    Generations = {g1, g2, g3}
    Nothing = Nothing
INVARIANTS
    Consistent
PROPERTIES
    DataKept
    BackupKept
    RecoveryEnds
