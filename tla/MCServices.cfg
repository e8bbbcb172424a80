SPECIFICATION MCSpec
CONSTANTS
    Endpoints <- MCEndpoints
    Threshold = 2
    BaseBackoff = 1
    MaxBackoff = 2
    LagAllowed = 1
    Heights = {0, 1, 2}
    Caller = {1, 2}
    DailyCap = 3
    Rpm = 2
    Day = 4
    Minute = 1
    MaxFreeze = 2
    Bills = {1, 2}
    Keys = 3
    KeyOf <- MCKeyOf
    Refused = {"spent", "blocked"}
    Walker = {1, 2}
    MaxTx = 5
    PageSize = 2
    Creates = {1, 3, 5}
    Attempts = 2
    Lookback = 6
    StartChunk = 4
    MinChunk = 1
    Confirmations = 1
    Heads = {1, 4, 9}
    Listed <- MCListed
    Chains = {"sol", "base"}
    Truth <- MCTruth
    BatchOf <- MCBatchOf
    Ttl = 2
    Addr = {"a", "b"}
    Cool = 2
    Forget = 3
    TradeLists <- MCTradeLists
    MinWallets = 2
    MinBuy = 3
    TrackFresh = 1
    TrackTtl = 2
    Horizon = 5
    AuditTtl = 2
    MaxTax = 10
    Sockets = 2
    MaxBackoffTicks = 2
    FloodTicks = 2
    FloodCap = 6
    Ring = 2
    Mint = {"m1", "m2", "m3"}
    Deliveries <- MCDeliveries
INVARIANTS
    LimitsHold
    ScansAreComplete
    MarketIsTrue
    StreamsAreTrue
PROPERTIES
    RetryMovesOn
    ServicesRecover
CHECK_DEADLOCK FALSE
