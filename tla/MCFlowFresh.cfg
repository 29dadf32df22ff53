CONSTANTS
    Nodes <- MCNodes
    Flows <- MCFlows
    Workers = 2
    MaxLoops = 2
    MaxRuns = 3
    MaxCrashes = 0
    MaxLost = 0
SPECIFICATION Spec
PROPERTY FreshRunStartsOver
CHECK_DEADLOCK FALSE
