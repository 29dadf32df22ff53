CONSTANTS
    s1 = s1
    s2 = s2
    b1 = b1
    b2 = b2
    n1 = n1
    n2 = n2
    Sessions = {s1, s2}
    Ops = {"update", "publish", "unpublish", "self_heal", "delete", "test", "run"}
    MaxVersion = 2
    Bodies = {b1, b2}
    Names = {n1}
    FirstBody = b1
    FirstName = n1
    Needy = {b2}
    Ways = {"gated", "ungated"}
SPECIFICATION Spec
SYMMETRY Symmetry
INVARIANTS PublishedIsTested ActionsFollowTests
PROPERTIES ImplementsLedger
