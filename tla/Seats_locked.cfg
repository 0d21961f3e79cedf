SPECIFICATION HSpec
CONSTANTS
    People = {p1, p2, p3, p4}
    Founder = p1
    Invitations = {i1, i2, i3}
    Workers = {w1, w2}
    InvitedRoles <- MCTwoRoles
    Plans <- MCPlans
    SeatLimit <- MCSeatLimit
    InitialPlan = free
    Endpoints <- MCApi
    free = free
    pro = pro
    business = business
    FreePlan = free
    Unlimited = Unlimited
    NoSubscription = NoSubscription
    Unissued = Unissued
    Gone = Gone
    Nobody = Nobody
SYMMETRY Symmetric
INVARIANT OnePendingPerEmail
INVARIANT LockedInv
PROPERTY RosterSpec
PROPERTY CapSlack
PROPERTY OnlyNewMembersInvited
CHECK_DEADLOCK FALSE
