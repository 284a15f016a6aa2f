CONSTANTS
    i1 = i1
    e1 = e1
    r1 = r1
    r2 = r2
    IPs <- MCIPs
    Emails <- MCEmails
    Requests <- MCRequests
    MaxRequests <- MCMaxRequests
    Window <- MCWindow
    MaxEntries = 2
    CleanupEvery = 3
    MaxDelay = 1
SYMMETRY MCSymmetry
SPECIFICATION Spec
INVARIANTS
    TypeOK
    BurstIsBounded
    CeilingComesFirst
PROPERTY RefusalsAreEarned
