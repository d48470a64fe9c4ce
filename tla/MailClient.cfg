CONSTANTS
    t1 = t1
    t2 = t2
    m1 = m1
    m2 = m2
    Tabs = {t1, t2}
    Mails = {m1, m2}
    Folders = {"a", "b"}
    None = None
    Hits = {m1}
    SubjectHits = {m2}
    Scenarios <- AllScenarios
    Courses <- AllCourses
    TooLong = TooLong
SPECIFICATION MCSpec
CHECK_DEADLOCK FALSE
INVARIANTS
    OnePressNeverDestroys
    NoLeftovers
    ShownIsStored
PROPERTIES
    ListCatchesUp
    NeighboursKept
