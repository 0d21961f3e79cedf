SPECIFICATION FairSpec
CONSTANTS
    People = {p1, p2, p3}
    Founder = p1
    Invitations = {i1, i2}
    Workers = {w1, w2}
    InvitedRoles <- MCMemberRole
    Plans <- MCPlans
    SeatLimit <- MCTightLimit
    InitialPlan = free
    Endpoints <- MCAll
    free = free
    pro = pro
    business = business
    FreePlan = free
    Unlimited = Unlimited
    NoSubscription = NoSubscription
    Unissued = Unissued
    Gone = Gone
    Nobody = Nobody
INVARIANT TypeOK
PROPERTY MembershipNeedsInvitation
PROPERTY InviteAnswered
CHECK_DEADLOCK FALSE
