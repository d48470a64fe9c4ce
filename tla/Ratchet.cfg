\* Two skipped keys are kept; five messages each way.
CONSTANTS
    MaxSkippedKeys = 2
    MaxSent = 5
SPECIFICATION RatchetSpec
CHECK_DEADLOCK FALSE
INVARIANTS
    LateMessageOpens
    OpenedIsForgotten
