SPECIFICATION Spec
CONSTANTS
    Claim = {c1}
    Key = {k1, k2}
    Run = {r1, r2}
    Task = {t1}
    Submit = {s1, s2}
    Callback = {h1, h2}
    Review = {v1, v2}
    Decision = {"pass", "review"}
    None = None
SYMMETRY Symmetry
INVARIANTS
    OneSubmissionPerKey
    StatusMatchesLog
    AgentRunPerApproval
    ResultBeforeMove
    TasksMatchLog
PROPERTIES
    LegalUnlessOvertaken
    VerificationDispatchKept
CHECK_DEADLOCK FALSE
