SPECIFICATION Spec
CONSTANTS
    Users = {u1, u2, u3}
    Orgs = {o1, o2}
    Rows = {r1, r2, r3, r4}
    Workers = {w1}
    Endpoints <- MCApi
    Unissued = Unissued
    Deleted = Deleted
    None = None
SYMMETRY Symmetric
INVARIANT HasOwner
PROPERTY MatrixSpec
PROPERTY MatrixBindsCaller
CHECK_DEADLOCK FALSE
