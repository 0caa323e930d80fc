SPECIFICATION FairSpec
CONSTANTS
    Claim = {c1, c2}
    Tick = {t1, t2}
    PoolSize = 2
    MAX_ATTEMPTS = 1
    MaxStops = 1
    Late = {c1}
    None = None
INVARIANTS
    SentIsUnderWay
PROPERTIES
    TicksEnd
    SentIsApplied
