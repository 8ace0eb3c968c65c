SPECIFICATION FairSpec
CHECK_DEADLOCK FALSE
CONSTANTS
    FormPolls = 2
    ScreenPolls = 3
    Deadline = 5
    Stall = 2
INVARIANTS
    ResetOnlyWhenHandedBack
    ScreenHeldStill
PROPERTIES
    WatchEnds
