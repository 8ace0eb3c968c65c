SPECIFICATION Spec
CONSTANTS
    c1 = c1
    c2 = c2
    s1 = s1
    Centres <- OneCentre
    Slots <- MCSlots
    MaxLogins = 2
    MaxJar = 1
INVARIANT DegradedByTheDatabase
