SPECIFICATION FairSpec
CONSTANTS
    Workers = {w1, w2}
    RequireVerified = TRUE
    MaxTokens = 3
    MaxPasswords = 2
    MaxMails = 2
    MaxFailures = 1
    Idle = Idle
CHECK_DEADLOCK FALSE
INVARIANTS TypeOK SessionsEndWithPassword SpentTokensRefused
PROPERTY ResetCompletes
