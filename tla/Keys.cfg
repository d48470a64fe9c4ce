\* Five flows on the keys of one person, at most one failure.
CONSTANTS
    f1 = f1
    f2 = f2
    f3 = f3
    f4 = f4
    f5 = f5
    Flows = {f1, f2, f3, f4, f5}
    First = k0
    Fresh = {k1, k2}
    None = None
    OneTimes = {1, 2}
    Scenarios <- SomeScenarios
SPECIFICATION Spec
CHECK_DEADLOCK FALSE
INVARIANTS
    FreshMailOpens
    OneTimeOnce
    KeyKept
