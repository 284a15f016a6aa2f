CONSTANTS
    u1 = u1
    u2 = u2
    b1 = b1
    b2 = b2
    t1 = t1
    t2 = t2
    k1 = k1
    Users <- MCUsers
    Sites <- MCSites
    Browsers <- MCBrowsers
    Tabs <- MCTabs
    Passkeys <- MCPasskeys
    PendingTTL = 1
    MaxSessions = 1
    MaxCount = 2
SYMMETRY MCSymmetry
SPECIFICATION Spec
INVARIANTS
    TypeOK
    SecondFactorAsked
    OldPasswordsRunOut
    PasskeysMatchTheirUsers
PROPERTY CountersFallOnlyInOverlap
