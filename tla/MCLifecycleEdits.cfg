CONSTANTS
    s1 = s1
    s2 = s2
    b1 = b1
    b2 = b2
    n1 = n1
    n2 = n2
    Sessions = {s1, s2}
    Ops = {"update", "rollback", "rename", "delete"}
    MaxVersion = 4
    Bodies = {b1, b2}
    Names = {n1, n2}
    FirstBody = b1
    FirstName = n1
    Needy = {}
    Ways = {"gated"}
SPECIFICATION Spec
SYMMETRY Symmetry
INVARIANTS VersionsAreLog
PROPERTIES BodiesImmutable
