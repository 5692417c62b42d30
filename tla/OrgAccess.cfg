SPECIFICATION MCSpec
CONSTANTS
    User = {u1}
    Project = {p1, p2}
    Machine = {m1}
    OrgToken = {t1, t2}
    Request = {r1, r2}
    NoUser = NoUser
    NoProject = NoProject
    DevQuota = 1
    OrgQuota = 1
    Role = {"ADMIN_DEV", "MEMBER"}
    Wish = {"NONE", "EDITOR"}
    Crowd = 1
SYMMETRY Symmetry
INVARIANTS
    FormsAgree
    CascadeIsComplete
    
    SerialRemoval
    SerialHide
CHECK_DEADLOCK FALSE
