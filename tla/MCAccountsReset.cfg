CONSTANTS
    e1 = e1
    e2 = e2
    p1 = p1
    p2 = p2
    r1 = r1
    r2 = r2
    Emails <- MCEmails
    Passwords <- MCPasswords
    Requests <- MCRequests
    Operations <- SessionOperations
    SendOldEmailNotice = TRUE
    MaxUsers = 1
    MaxAccounts = 1
    MaxTokens = 2
    MaxSessions = 1
SYMMETRY MCAddressSymmetry
SPECIFICATION Spec
INVARIANTS
    ConsumedMeansReset
