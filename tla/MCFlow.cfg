CONSTANTS
    Nodes <- MCNodes
    Flows <- MCFlows
    Workers = 2
    MaxLoops = 2
    MaxRuns = 2
    MaxCrashes = 1
    MaxLost = 1
SPECIFICATION Spec
INVARIANTS NoneForgotten SuccessIsWhole AskedIsPending
PROPERTIES ApprovedFirst RecordedNeverRepeats SavedIterationNeverRepeats LogSpec RunEnds
CHECK_DEADLOCK FALSE
