CONSTANTS
    Nodes <- MCNodes
    Branches <- MCBranches
    Graphs <- MCGraphs
    MaxItems = 3
    Concurrency = 2
SPECIFICATION Spec
INVARIANTS AgentFailureFails
CHECK_DEADLOCK FALSE
