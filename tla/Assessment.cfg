CONSTANTS
    Document <- MCDocument
    ChunkSize = 4
    ChunkOverlap = 2
    Unit = 8000
    Confidence <- MCConfidence
    Noise = 1
    Certainty <- MCCertainty
    MaxItems = 2
    Amount <- MCAmount
    Deduction <- MCDeduction
    NoAmount = NoAmount
    windowMs = 3
    maxAttempts = 2
    MaxTime = 8
SPECIFICATION MCSpec
CHECK_DEADLOCK FALSE
INVARIANTS
    StretchesAreWhole
    DecisionJustified
    NegotiableBand
    Metered
