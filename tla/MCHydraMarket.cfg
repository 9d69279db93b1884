CONSTANTS
    h1 = h1
    h2 = h2
    Market = {"m1"}
    Key = {"k1"}
    Text = {"t1"}
    Blank = Blank
    MinExpiryDuration = 1
    MaxExpiryDuration = 1
    ResolutionWindow = 1
    MaxTime = 3
    Holder = {h1, h2}
    InitialUsdc <- PairAndBonds
    MaxU64 = 4
    Unit = 2
    MinProposalBond = 1
    DisputeWindow = 1
    DisputeExtension = 1
    OracleReward = 1
    SourceBytes = {615}
    ReasonBytes = {100}
SPECIFICATION FairHydraSpec
PROPERTIES
    KeepsMarketPromise
    EveryTokenRedeemed
CHECK_DEADLOCK FALSE
