CONSTANTS
    e1 = e1
    e2 = e2
    p1 = p1
    p2 = p2
    r1 = r1
    r2 = r2
    Emails <- MCEmails
    Passwords <- MCPasswords
    Requests <- MCRequests
    Operations <- AddressOperations
    SendOldEmailNotice = TRUE
    MaxUsers = 2
    MaxAccounts = 2
    MaxTokens = 3
    MaxSessions = 1
SYMMETRY MCAddressSymmetry
SPECIFICATION Spec
INVARIANTS
    StaleSessionsWereLate
    EmailsAreUnique
    VerifiedMeansProven
    MailGoesToTheAccount
    FormerAddressesWereTold
