SPECIFICATION MCSpec
CONSTANTS
    Users = {u1, u2}
    Orgs = {o1, o2}
    Rows = {r1, r2, r3}
    Workers = {w1, w2}
    Endpoints <- MCGuarded
    Unissued = Unissued
    Deleted = Deleted
    None = None
SYMMETRY Symmetric
INVARIANT SoleOwnerKept
INVARIANT GuardInv
PROPERTY OnlyStaleWritesOrphan
PROPERTY TenantIsolation
PROPERTY NoEscalation
CHECK_DEADLOCK FALSE
