CONSTANTS
    u1 = u1
    u2 = u2
    k1 = k1
    k2 = k2
    t1 = t1
    t2 = t2
    Users <- MCUsers
    Tokens <- MCTokens
    Tabs <- MCTabs
    Visits <- MCVisits
    Nexts <- MCNexts
    MaxRedirects = 2
SYMMETRY MCSymmetry
SPECIFICATION Spec
INVARIANTS
    TypeOK
    RedirectsEnd
    MessagesAreShown
PROPERTY SessionCookieKept
