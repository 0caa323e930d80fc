SPECIFICATION Spec
CONSTANTS
    Item = {i1, i2}
    Paise = {1, 2}
    Field = {f1}
    Required = {f1}
    Doc = {d1}
    Handler = {h1, h2}
    MaxVersion = 4
    None = None
SYMMETRY Symmetry
INVARIANTS
    AmountIsTotal
    SnapshotConsistent
    BriefedAsVerified
PROPERTIES
    FrozenOnceDrained
CHECK_DEADLOCK FALSE
