SPECIFICATION Spec
CONSTANTS
    User = {u1, u2}
    Device = {d1}
    Session = {s1, s2}
    Poller = {p1, p2}
    NoUser = NoUser
    NoDevice = NoDevice
    DeviceTTL = 2
    SessionTTL = 1
    PollInterval = 2
    Tolerance = 1
    Backoff = 1
    MaxTime = 2
    MaxInterval = 3
SYMMETRY Symmetry
INVARIANTS
    OneSessionPerAuthorization
    SessionFollowsApproval
PROPERTIES
    ImplementsDeviceGrant
CHECK_DEADLOCK FALSE
