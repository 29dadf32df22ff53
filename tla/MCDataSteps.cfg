CONSTANTS
    Runs = {r1, r2}
    Calls = {c1}
    Keys = {k1}
    Minted = {m1, m2, m3}
    Fields = {f1, f2}
    MaxRetries = 1
SPECIFICATION Spec
INVARIANT StepsSaved
CHECK_DEADLOCK FALSE
