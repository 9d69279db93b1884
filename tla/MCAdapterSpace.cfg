CONSTANTS
    oracle = oracle
    rival = rival
    Market = {"m1"}
    Key = {"k1"}
    Text = {"t1"}
    Blank = Blank
    MinExpiryDuration = 1
    MaxExpiryDuration = 1
    ResolutionWindow = 2
    MaxTime = 5
    Holder = {oracle, rival}
    InitialUsdc <- Wallets
    MaxU64 = 5
    MinProposalBond = 1
    DisputeWindow = 1
    DisputeExtension = 2
    OracleReward = 1
    SourceBytes = {615, 1430}
    ReasonBytes = {100}
SPECIFICATION AdapterSpec
INVARIANT DisputesHaveRoom
CHECK_DEADLOCK FALSE
