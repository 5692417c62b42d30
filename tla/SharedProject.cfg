SPECIFICATION SharedSpec
CONSTANTS
    Req = {r1}
    Env = {e1, e2}
    Key = {k1, k2}
    Value = {v}
    Marked = {m1}
    Whole = {}
    Place = {"production", "preview"}
    None = None
SYMMETRY Symmetry
INVARIANT EachPlaceIsHonest
CHECK_DEADLOCK FALSE
