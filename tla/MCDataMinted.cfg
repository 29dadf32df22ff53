CONSTANTS
    Runs = {r1}
    Calls = {c1, c2}
    Keys = {k1}
    Minted = {m1, m2, m3}
    Fields = {f1, f2}
    MaxRetries = 1
SPECIFICATION Spec
INVARIANT MintedAreOwn
CHECK_DEADLOCK FALSE
