CONSTANTS
    Nodes <- MCNodes
    Branches <- MCBranches
    Graphs <- MCGraphs
    MaxItems = 3
    Concurrency = 2
SPECIFICATION Spec
INVARIANTS ChoicesHold BranchesExclude CompletedIsWhole
PROPERTIES Ends
CHECK_DEADLOCK FALSE
