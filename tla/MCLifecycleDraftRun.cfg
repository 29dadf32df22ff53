CONSTANTS
    s1 = s1
    s2 = s2
    b1 = b1
    b2 = b2
    n1 = n1
    n2 = n2
    Sessions = {s1, s2}
    Ops = {"update", "publish", "unpublish", "test", "run"}
    MaxVersion = 2
    Bodies = {b1}
    Names = {n1}
    FirstBody = b1
    FirstName = n1
    Needy = {}
    Ways = {"gated", "ungated"}
SPECIFICATION Spec
SYMMETRY Symmetry
PROPERTIES DraftNeverActs
