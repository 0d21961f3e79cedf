SPECIFICATION FairSpec
CONSTANTS
    Accounts = {a1}
    Invitations = {i1}
    Workers = {w1, w2}
    Mailers = {m1, m2}
    Attempts = 2
    MaxRequests = 3
    MaxFailures = 2
    MaxSuffix = 3
    Idle = Idle
CHECK_DEADLOCK FALSE
INVARIANTS TypeOK MailAccounted OneMailEach
PROPERTIES MailSent GivesUpOnlyOutrun
