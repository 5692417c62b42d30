SPECIFICATION FairSpec
CONSTANTS
    Req = {r1, r2}
    Key = {k1}
    Sid = {s1, s2}
    Value = {a, b}
    NoKey = NoKey
    NoSid = NoSid
    NoValue = NoValue
    MaxVersions = 2
    MaxNumber = 3
    Handler = {"upsert", "import", "restore", "delete"}
INVARIANT
    HistoryIsAWindow
PROPERTIES
    ReplacedIsKept
    RequestsEnd
