CONSTANTS
    Executions = {e1, e2}
    Waits = 2
    MaxRequests = 2
SPECIFICATION Spec
INVARIANTS OwnPayload CompletedHeardAll
PROPERTIES UsedOnce Ends
CHECK_DEADLOCK FALSE
