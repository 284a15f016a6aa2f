CONSTANTS
    e1 = e1
    e2 = e2
    p1 = p1
    p2 = p2
    r1 = r1
    r2 = r2
    Emails <- MCOneEmail
    Passwords <- MCPasswords
    Requests <- MCRequests
    Operations <- SessionOperations
    SendOldEmailNotice = TRUE
    MaxUsers = 1
    MaxAccounts = 2
    MaxTokens = 2
    MaxSessions = 2
SYMMETRY MCSymmetry
SPECIFICATION Spec
INVARIANTS
    TypeOK
    StaleSessionsWereLate
    RowsHaveOwners
