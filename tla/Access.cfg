\* Five flows of two people, at most one failure.
CONSTANTS
    f1 = f1
    f2 = f2
    f3 = f3
    f4 = f4
    f5 = f5
    Flows = {f1, f2, f3, f4, f5}
    ann = ann
    bob = bob
    Users = {ann, bob}
    None = None
    Max = 2
    SessionTtl = 2
    Scenarios <- SomeScenarios
SPECIFICATION FairSpec
CHECK_DEADLOCK FALSE
INVARIANTS
    AllMeansAll
    LonelyLoginWorks
PROPERTIES
    AdminRemains
    WindowEnds
