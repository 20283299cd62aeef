SPECIFICATION Spec
CONSTANTS
    MaxLevels = 2
    Decimals = 1
    SigFigs = 2
    PxDecimals = 1
    SzDecimals = 0
    Unity = 100
    HalfSpread = 3
    Skew = 8
    OrderNotional = 200
    MaxPosition = 200
    UseMicroprice = TRUE
    RequoteBps = 2
    MinInterval = 1
    MaxBackoff = 2
    MaxMessage = 3
    MaxControl = 1
    Snapshots <- AllSnapshots
    Tops <- AllTops
    FillSize = 10
    FailingWrites = TRUE
    Scenarios <- PingScenarios
    FrameMessages = 2
    BookMessages = 4
    QuoteMessages = 3
    QuoteNews = 2
    QuoteTrades = 2
INVARIANTS
    ClearedWhenLost
CHECK_DEADLOCK FALSE
