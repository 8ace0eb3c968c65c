SPECIFICATION FairLoopSpec
CONSTANTS
    MaxText = 8
    Configured <- MCConfigured
    Histories <- MCHistories
CHECK_DEADLOCK FALSE
INVARIANTS
    EveryReaderLearnsTheChange
    TestExitIsTrue
PROPERTIES
    StopsOnlyForAReason
    ScansAgain
