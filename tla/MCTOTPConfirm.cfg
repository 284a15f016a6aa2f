CONSTANTS
    r1 = r1
    r2 = r2
    Requests <- MCRequests
    Operations <- AllOperations
    CodesPerSet = 1
    MaxTime = 1
    MaxSecrets = 2
    MaxSets = 2
SYMMETRY MCSymmetry
SPECIFICATION Spec
INVARIANTS
    EnabledSecretWasConfirmed
