CONSTANTS
    MaxI64 = 524287
    MaxU64 = 1048575
    MaxDataSources = 5
    MaxOracleStaleness = 300
    MaxPriceDeviationBps = 500
    FeedPrice <- MixedPrices
    FeedExpo <- MixedExpos
    FeedConfidence = {1, 5}
    FeedAge = {0, 300, 301}
    Condition <- Conditions
    SourceAge <- MixedAges
SPECIFICATION OracleSpec
INVARIANTS
    MedianIsCentral
    DissentOnlyNearLimit
    OrderDoesNotMatter
    MostSourcesConcur
CHECK_DEADLOCK FALSE
