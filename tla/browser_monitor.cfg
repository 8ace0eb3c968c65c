SPECIFICATION Spec
CONSTANTS
    Centres = 2
    Keys <- MCKeys
    Cooldown = 2
    Retention = 3
CHECK_DEADLOCK FALSE
INVARIANTS
    TypeOK
    FreeSlotWasAnnounced
PROPERTIES
    CooldownHeld
