SPECIFICATION MCSpec
CONSTANTS
    Req = {r1, r2}
    Item = {i1}
    MovedId = {m1, m2}
    Collection = {c1, c2}
    Value = {v}
    PrivateKey = {k}
    Extra = {"url"}
    Body <- MCBody
    HistoryCap = 1
    None = None
    Keep = Keep
SYMMETRY Symmetry
INVARIANTS
    KeysStayWhole
    SerialClean
PROPERTIES
    ImplementsCustody
    SerialContents
CHECK_DEADLOCK FALSE
