SPECIFICATION Spec
CONSTANTS
    Req = {r1, r2}
    Key = {k1, k2}
    Sid = {s1, s2}
    Value = {a, b}
    NoKey = NoKey
    NoSid = NoSid
    NoValue = NoValue
    MaxVersions = 1
    MaxNumber = 3
    Handler = {"upsert", "patch", "delete", "received"}
SYMMETRY Symmetry
INVARIANTS
    NumberStaysFree
    HistoryIsTrue
