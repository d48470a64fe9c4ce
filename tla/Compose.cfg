\* A mail or two, replays and lost answers; a draft, auto-saves and files; or
\* four requests before the limiter.
CONSTANTS
    Budgets <- SomeBudgets
    Posts = {p1, p2}
    MaxQueueDepth = 1
    MaxLost = 2
    None = None
    Requests <- FourRequests
    Max = 2
    Window = 2
    EndOfTime = 3
SPECIFICATION MCSpec
CHECK_DEADLOCK FALSE
INVARIANTS
    ToldIsTrue
    OnceUnlessLost
    DepthNearLimit
    SavedTextIsStored
    SlidingWindow
PROPERTIES
    PressIsSettled
