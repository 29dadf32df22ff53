CONSTANTS
    Turns = {t1, t2}
    MaxPerMinute = 2
    Budget = 3
    MaxMemory = 4
    MaxRounds = 2
    MaxRetries = 1
SPECIFICATION Spec
INVARIANT HistoryIsProtocol
CHECK_DEADLOCK FALSE
