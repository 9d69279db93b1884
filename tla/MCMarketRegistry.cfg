CONSTANTS
    k1 = k1
    k2 = k2
    Market = {"m1"}
    Key = {k1, k2}
    Text = {"t1", "t2"}
    Blank = Blank
    MinExpiryDuration = 1
    MaxExpiryDuration = 3
    ResolutionWindow = 2
    MaxTime = 7
SYMMETRY Symmetry
SPECIFICATION RegistrySpec
INVARIANTS
    RegistryTypeOK
    ResolutionRecorded
PROPERTIES
    ResolutionIrrevocable
    ShutAfterExpiryForGood
    UnproposableForGood
    TermsFixedOnceOpened
\* A resolved market takes no instruction any more and the clock is bounded.
CHECK_DEADLOCK FALSE
