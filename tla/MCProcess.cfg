SPECIFICATION FairPSpec
CONSTANTS
    Calls = {c1, c2}
    MaxSignals = 2
    MaxFaults = 2
CHECK_DEADLOCK FALSE
INVARIANTS
    PTypeOK
    RowsHaveRecords
    StatusEarned
    TeardownBeforeExit
PROPERTY
    StopsWhenTold
