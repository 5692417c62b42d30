SPECIFICATION MCSpec
CONSTANTS
    Ask = {s1}
    Request = {r1, r2, r3}
    Blob = {b1, b2}
    NoBlob = NoBlob
    MaxCopies = 3
    Req = {q1, q2}
    Env = {e1}
    Key = {k1, k2}
    Value = {v}
    Marked = {m1}
    Whole = {w1}
    Place = {"production", "preview"}
    None = None
SYMMETRY Symmetry
INVARIANTS
    OverIsErased
    OneCiphertext
    ImportedIsWritten
    SerialImportedOnce
    SerialSuccessIsHonest
PROPERTIES
    HandMadeIsSpared
CHECK_DEADLOCK FALSE
