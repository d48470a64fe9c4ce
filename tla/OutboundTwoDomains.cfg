\* One message to two domains with two MX each: retries, stalls, duplicates.
SPECIFICATION FairSpec
CONSTANTS
    Jobs = {j1}
    NoJob = NoJob
    NumDomains = 2
    NumMx = 2
    MaxAttempts = 2
    MaxStalledCount = 1
    MaxAdminRetries = 1
    EditedJobs = {j1}
INVARIANTS
    DeliveredMeansAccepted
    DeadOnlyWhenExhausted
    CopiesBounded
PROPERTIES
    KeepsPromise
    EveryMessageSettles
CHECK_DEADLOCK FALSE
