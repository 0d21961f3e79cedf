SPECIFICATION Spec
CONSTANTS
    Orgs = {o1, o2}
    Workers = {w1, w2}
    PaidPlans = {pro}
    Prices = {pro, custom}
    FreePlan = free
    StripeStatuses <- MCStatuses
    MaxStripe = 4
    MaxSubscriptions = 2
    MaxFailures = 1
    Gone = Gone
    Idle = Idle
CHECK_DEADLOCK FALSE
INVARIANT LimitsRevert
