SPECIFICATION Spec
CONSTANTS
    Users = {u1, u2}
    Orgs = {o1}
    Rows = {r1, r2}
    Workers = {w1, w2}
    Endpoints <- MCMembers
    Unissued = Unissued
    Deleted = Deleted
    None = None
SYMMETRY Symmetric
INVARIANT HasOwner
CHECK_DEADLOCK FALSE
