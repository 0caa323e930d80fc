SPECIFICATION Spec
CONSTANTS
    Claim = {c1}
    Key = {k1}
    Run = {r1}
    Task = {t1}
    Submit = {s1}
    Callback = {h1}
    Review = {v1, v2}
    Decision = {"pass", "review"}
    None = None
SYMMETRY Symmetry
PROPERTY
    LegalTransitions
CHECK_DEADLOCK FALSE
