SPECIFICATION FairSpec
CONSTANTS
    Configs <- MCConfigs
    Scores = {1, 2, 3}
CHECK_DEADLOCK FALSE
INVARIANTS
    TypeOK
    RowsHaveFiles
    OutcomeWhole
    RaisedIsRecorded
    StopsWhenStale
PROPERTIES
    OutcomeStays
    OutcomeRecorded
