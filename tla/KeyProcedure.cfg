SPECIFICATION ProcedureSpec
CONSTANTS
    Req = {r1}
    Value = {a}
    History = 2
    Slice = 2
    MaxKey = 2
    None = None
INVARIANT ProcedureKeepsAll
