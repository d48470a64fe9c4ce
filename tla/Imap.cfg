\* Two connections, a delivery, a message removed on the web, one failing query.
CONSTANTS
    c1 = c1
    c2 = c2
    Conns = {c1, c2}
    Scenarios <- SomeScenarios
    MaxUid = 3
    None = None
SPECIFICATION FairSpec
CHECK_DEADLOCK FALSE
INVARIANTS
    NumbersAreTrue
    OnlyMeantIsGone
    SubscribedWhileIdle
PROPERTIES
    LinesAreAnswered
    ClosedLetsGo
