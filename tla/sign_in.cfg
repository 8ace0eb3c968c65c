SPECIFICATION FairSpec
CONSTANTS
    first = first
    second = second
    Callers <- MCCallers
INVARIANTS
    LiveSessionLeftAlone
PROPERTIES
    SubmitAsConfigured
    ReturnsSignedIn
    EveryCallEnds
    RecoversWhenCalm
