SPECIFICATION FairSpec
CONSTANTS
    c1 = c1
    c2 = c2
    s1 = s1
    Centres <- OneCentre
    Slots <- MCSlots
    Monitors = {m1}
    RetryWindow = 1
    MaxLogins = 2
    MaxJar = 0
    ConcurrencyGroup = TRUE
    RefreshOverlaps = TRUE
    NamedCentres = FALSE
INVARIANTS
    NoRequestWhileBlocked
    AlertNotRepeated
PROPERTIES
    AuthStickyUntilRefresh
    Settles
