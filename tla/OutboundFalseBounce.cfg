\* Expected violation: BounceMeansUndelivered.
SPECIFICATION Spec
CONSTANTS
    Jobs = {j1}
    NoJob = NoJob
    NumDomains = 2
    NumMx = 2
    MaxAttempts = 2
    MaxStalledCount = 1
    MaxAdminRetries = 1
    EditedJobs = {j1}
INVARIANT BounceMeansUndelivered
CHECK_DEADLOCK FALSE
