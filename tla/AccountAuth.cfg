SPECIFICATION MCSpec
CONSTANTS
    Request = {r1, r2}
    ResetToken = {t1, t2}
    Period = 2
    BatchSize = 2
    MaxNow = 2
    MaxSession = 2
    MaxPassword = 3
    MaxEnrolment = 2
    Writer = {w1}
    Value = {a, b}
    History = 3
    Slice = 2
    MaxKey = 3
    None = None
SYMMETRY Symmetry
INVARIANTS
    CodeOpensOnce
    BurntStaysBurnt
    SerialResetEvicts
PROPERTIES
    SerialOldLinksAreDead
    WindowKeepsAll
CHECK_DEADLOCK FALSE
