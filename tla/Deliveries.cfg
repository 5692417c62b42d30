SPECIFICATION MCSpec
CONSTANTS
    Req = {r1, r2}
    Run = {n1, n2}
    MaxDeployment = 3
    MaxService = 2
    Retention = 1
    None = None
    Material = {a, b}
    Track = {"production"}
    Reported = {"uploaded"}
    Held = {"live"}
    MaxNumber = 2
    MaxRow = 2
SYMMETRY Symmetry
INVARIANTS
    SetupIsEarned
    EveryServiceIsCounted
    RowsTellTheirMaterial
PROPERTIES
    NumbersGrow
CHECK_DEADLOCK FALSE
