CONSTANTS
    Capacity = 2
    Stages = 4
    Checkpoints <- MCCheckpoints
    MaxIterations = 3
    MaxDecisions = 3
SPECIFICATION Spec
INVARIANTS ClosedIsWhole ReviewedFirst ToldIsStored
PROPERTY Ends
CHECK_DEADLOCK FALSE
