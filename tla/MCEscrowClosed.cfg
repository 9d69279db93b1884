CONSTANTS
    h1 = h1
    h2 = h2
    Market = {"m1", "m2"}
    Key = {"k1"}
    Text = {"t1"}
    Blank = Blank
    MinExpiryDuration = 1
    MaxExpiryDuration = 1
    ResolutionWindow = 1
    MaxTime = 2
    Holder = {h1, h2}
    InitialUsdc <- OneWallet
    MaxU64 = 5
    Unit = 2
SPECIFICATION ClosedEscrowSpec
INVARIANT LockedExactlyOwed
PROPERTY KeepsPromise
CHECK_DEADLOCK FALSE
