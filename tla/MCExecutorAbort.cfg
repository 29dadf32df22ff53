CONSTANTS
    Nodes <- MCNodes
    Branches <- MCBranches
    Graphs <- ActionGraphs
    MaxItems = 3
    Concurrency = 2
SPECIFICATION Spec
PROPERTIES FailAborts
CHECK_DEADLOCK FALSE
