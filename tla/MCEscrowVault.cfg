CONSTANTS
    h1 = h1
    h2 = h2
    Market = {"m1"}
    Key = {"k1"}
    Text = {"t1"}
    Blank = Blank
    MinExpiryDuration = 1
    MaxExpiryDuration = 1
    ResolutionWindow = 0
    MaxTime = 3
    Holder = {h1, h2}
    InitialUsdc <- BothPay
    MaxU64 = 7
    Unit = 2
SPECIFICATION FairEscrowSpec
INVARIANTS
    EscrowTypeOK
    CollateralCoversTokens
    EveryClaimSucceeds
PROPERTIES
    KeepsPromise
    EveryTokenRedeemed
\* The clock is bounded, and a redeemed market's vault takes no instruction.
CHECK_DEADLOCK FALSE
