SPECIFICATION FairSpec
CONSTANTS
    o1 = o1
    o2 = o2
    u1 = u1
    u2 = u2
    free = free
    business = business
    Orgs <- MCOrgs
    Users <- MCUsers
    Workers = {w1, w2}
    ProjectIds = {p1, p2}
    Founder <- MCFounder
    RolesUsed <- MCRoles
    Plans <- MCPlans
    FreePlan = free
    ProjectLimit <- MCLimit
    Unlimited = Unlimited
    MaxChanges = 2
    Unissued = Unissued
    Deleted = Deleted
    Nobody = Nobody
    Idle = Idle
CHECK_DEADLOCK FALSE
INVARIANT TypeOK
PROPERTIES WritersAuthorized CreationWithinCap LockReturned
