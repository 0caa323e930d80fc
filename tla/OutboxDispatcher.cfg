SPECIFICATION FairSpec
CONSTANTS
    Row = {r1, r2}
    Tick = {t1, t2}
    NoRow = NoRow
    MAX_ATTEMPTS = 3
    MaxRollbacks = 1
INVARIANTS
    FailedIffExhausted
    DuplicatesAccounted
PROPERTIES
    ImplementsOutbox
    QueuedIsSettled
CHECK_DEADLOCK FALSE
