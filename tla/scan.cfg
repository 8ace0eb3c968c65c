SPECIFICATION FairSpec
CONSTANTS
    NumCentres = 2
    MaxOffered = 2
    DateCaps = {0, 1}
    MaxAttempts = 2
    InitialBackoff = 2
    Multiplier = 2
    MaxBackoff = 4
    RetryAfters <- MCRetryAfters
    MaxRetryAfter = 4
    Interval = 3
    MaxAnswer = 1
INVARIANTS
    CompleteIsWhole
    VerdictSaysWhatWasHeard
    DatesPaced
    ScanBounded
PROPERTIES
    ReadsAsPromised
