SPECIFICATION Spec
CONSTANTS
    c1 = c1
    c2 = c2
    s1 = s1
    Centres <- MCCentres
    Slots <- MCSlots
    Monitors = {m1}
    RetryWindow = 1
    MaxLogins = 2
    MaxJar = 1
    ConcurrencyGroup = TRUE
    RefreshOverlaps = FALSE
    NamedCentres = FALSE
CONSTRAINT OneCentreChanges
INVARIANTS
    TypeOK
    AnnouncedChangesWereReal
    NothingToldTwice
    RefusedLoginNotReused
    QuietMeansWrittenBack
PROPERTIES
    BaselineOnlyAtFirstSight
