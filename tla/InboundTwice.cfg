\* One mail, sent twice, to a1, a2 and a1 again.
CONSTANTS
    a1 = a1
    a2 = a2
    m1 = m1
    Mails = {m1}
    Accounts = {a1, a2}
    To <- RepeatedTo
    Jobs = {j1, j2}
    NoMail = NoMail
    NoJob = NoJob
    MaxAttempts = 2
    MaxStalledCount = 1
    MaxEdits = 2
SPECIFICATION MCSpec
CHECK_DEADLOCK FALSE
INVARIANTS
    OneCopyPerInbox
    NothingForgotten
PROPERTIES
    KeepsInboundPromise
    AcceptedIsWorkedOff
