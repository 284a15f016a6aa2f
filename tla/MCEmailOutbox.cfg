CONSTANTS
    m1 = m1
    m2 = m2
    w1 = w1
    w2 = w2
    Messages <- MCMessages
    Workers <- MCWorkers
    MaxRows = 2
    MaxTime = 3
    MaxFaults = 1
    MaxTokens = 4
    BatchSize = 2
    MaxAttempts = 2
    RetryDelay = 1
    ClaimTTL = 1
    SentRetention = 1
    FailedRetention = 1
SYMMETRY MCSymmetry
SPECIFICATION Spec
INVARIANTS
    TypeOK
    ClaimLostOnlyAfterExpiry
    ClaimedCopyIsCurrent
    SentMeansAccepted
    RetryBudgetExact
    DuplicatesAreExcused
PROPERTY ImplementsContract
