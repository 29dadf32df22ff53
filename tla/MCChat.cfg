CONSTANTS
    Turns = {t1, t2}
    MaxPerMinute = 1
    Budget = 2
    MaxMemory = 2
    MaxRounds = 2
    MaxRetries = 1
SPECIFICATION Spec
INVARIANTS WholeTurns LimitsHold TotalIsCost RowsRestorable
PROPERTY Ends
CHECK_DEADLOCK FALSE
