SPECIFICATION Spec
CONSTANTS
    Users = {u1, u2}
    Orgs = {o1, o2}
    Rows = {r1, r2, r3}
    Workers = {w1}
    Endpoints <- MCEverything
    Unissued = Unissued
    Deleted = Deleted
    None = None
SYMMETRY Symmetric
INVARIANT TypeOK
INVARIANT OneRolePerMember
CHECK_DEADLOCK FALSE
