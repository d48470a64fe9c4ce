\* Every operation alone; deliveries, flag changes and expunges together.
SPECIFICATION MCSpec
CONSTANTS
    Calls = {c1, c2}
    Ids = {i1, i2, i3}
    Mails = {m1}
    Mailboxes = {"inbox", "sent", "drafts", "trash"}
    Ops = {"inbound", "bounce", "send", "draft", "move", "copy", "append", "hardDelete", "flag", "store", "expunge", "close"}
    SharedOps = {"inbound", "bounce", "flag", "store", "expunge"}
    MayFail = TRUE
    MaxUid = 2
    MaxUnread = 1
    MaxTaken = 3
    NoId = NoId
    NoMail = NoMail
SYMMETRY Symmetry
INVARIANTS
    CountExactAlone
    OneCopyPerMail
PROPERTIES
    KeepsUidOrder
CHECK_DEADLOCK FALSE
