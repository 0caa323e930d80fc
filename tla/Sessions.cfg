SPECIFICATION MCSpec
CONSTANTS
    Session = {s1, s2, s3}
    Handler = {h1, h2}
    Tab = {t1, t2}
    MaxVersion = 2
    None = None
SYMMETRY Symmetry
INVARIANTS
    AnsweredIsRotated
    EndedStaysEnded
    DisabledIsOut
    NoFalseAlarm
    CookieInStep
    LogoutHolds
PROPERTY FamiliesAreChains
CHECK_DEADLOCK FALSE
