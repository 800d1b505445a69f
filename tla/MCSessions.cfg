SPECIFICATION Spec
CONSTANTS
    None = None
    NumCoins = 2
    QueueCapacity = 1
    DedupCapacity = 2
    TradeFrames <- SessionFrames
    MaxFrames = 5
    MaxSessions = 3
INVARIANTS
    DedupExact
    GapMarksLaterSessions
