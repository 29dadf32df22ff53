CONSTANTS
    Workflows = {wa, wb}
    Versions = {1, 2}
    Slots <- MCSlots
    TickTimes <- MCTicks
    Window = 2
    KeyTTL = 5
    JobTimeout = 2
    MaxJobs = 2
    MaxTime = 6
    MaxUpsets = 1
SPECIFICATION Spec
INVARIANTS AtMostOnce
PROPERTIES TickIsThorough FiredInTime
SYMMETRY MCSymmetry
CHECK_DEADLOCK FALSE
