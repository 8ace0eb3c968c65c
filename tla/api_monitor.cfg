SPECIFICATION Spec
CONSTANTS
    c1 = c1
    c2 = c2
    s1 = s1
    Centres <- MCCentres
    Slots <- MCSlots
    MaxLogins = 2
    MaxJar = 1
SYMMETRY CentreSymmetry
INVARIANTS
    ChangesWereReal
    OneBrowserPerCycle
    QuietMeansStored
