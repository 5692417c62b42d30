SPECIFICATION ShareSpec
CONSTANTS
    Share = {s1}
    Request = {r1, r2, r3, r4}
    Nobody = Nobody
    MaxAttempts = 2
    AttemptBound = 4
SYMMETRY Symmetry
INVARIANTS
    GateIsExact
    ClosedIsErased
PROPERTIES
    ImplementsHandover
CHECK_DEADLOCK FALSE
