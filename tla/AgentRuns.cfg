SPECIFICATION Spec
CONSTANTS
    Run = {r1, r2}
    Claim = {c1, c2}
    Handler = {h1, h2}
    Docs = {0, 2}
    Items = 2
    Starts = 3
    None = None
SYMMETRY Symmetry
INVARIANTS
    StateIsWhole
    IndexIsOneCopy
    LoggedOnce
PROPERTIES
    CompletedIsFinal
CHECK_DEADLOCK FALSE
