SPECIFICATION FairSpec
CONSTANTS
    None = None
    NumCoins = 1
    QueueCapacity = 2
    DedupCapacity = 2
    TradeFrames <- PlainFrames
    MaxFrames = 4
    MaxSessions = 2
INVARIANTS
    ToldAfterCloses
PROPERTIES
    StreamSafe
    FatalReachesConsumer
    EveryBatchTaken
