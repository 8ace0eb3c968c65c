SPECIFICATION Spec
CONSTANTS
    NumCentres = 2
    MaxDates = 2
INVARIANTS
    ReadingsAreTheirOwn
PROPERTIES
    NothingReadIsLost
