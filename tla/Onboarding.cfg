SPECIFICATION MCSpec
CONSTANTS
    Doc = {d1}
    DocHandler = {h1, h2}
    Size = {1, 2}
    MaxUpload = 1
    NoDoc = NoDoc
    Case = {c1, c2}
    KycHandler = {k1, k2}
    NoCase = NoCase
    Gate = {g1}
    Claim = {c1, c2}
    Row = {h1, h2}
    Photo = {p1, p2}
    Call = {k1, k2}
    Nil = Nil
SYMMETRY Symmetry
INVARIANTS
    ReadyIsStored
    SubmittedWasReady
    ShownIsSaved
    ReviewIsSubmittable
    OneFiling
PROPERTIES
    DeletedForGood
    VerdictIsFinal
CHECK_DEADLOCK FALSE
