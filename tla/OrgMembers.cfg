SPECIFICATION MCSpec
CONSTANTS
    User = {u1, u2}
    Invite = {i1}
    Request = {r1, r2}
    NoUser = NoUser
    PlatformAdmin = {u2}
    Elsewhere = {u2}
    Role = {"OWNER", "ADMIN"}
    Collection = {c1}
SYMMETRY Symmetry
INVARIANTS
    InvitationsAreCut
    RulesAgree
    SerialLeaversShareNothing
PROPERTIES
    OwnershipDescends
    SerialGesturesKeepAnOwner
CHECK_DEADLOCK FALSE
