SPECIFICATION Spec
CONSTANTS
    Claim = {c1}
    Key = {k1}
    Run = {r1, r2}
    Task = {t1}
    Submit = {s1}
    Callback = {h1, h2}
    Review = {v1, v2}
    Decision = {"pass", "review"}
    None = None
SYMMETRY Symmetry
INVARIANT
    RecordedIsApplied
CHECK_DEADLOCK FALSE
