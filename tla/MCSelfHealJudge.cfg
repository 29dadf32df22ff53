CONSTANTS
    s1 = s1
    s2 = s2
    b1 = b1
    b2 = b2
    n1 = n1
    h1 = h1
    h2 = h2
    Sessions = {s1}
    Ops = {"publish", "test", "self_heal"}
    MaxVersion = 2
    Bodies = {b1}
    Names = {n1}
    FirstBody = b1
    FirstName = n1
    Needy = {}
    Ways = {}
    Healers = {h1}
    Ceiling = "autonomous"
    Faults = {"llm"}
    JobTimeout = 2
    LockTTL = 3
SPECIFICATION HealSpec
PROPERTIES RollsBackOnFailure
