SPECIFICATION Spec
CHECK_DEADLOCK FALSE
CONSTANTS
    None = None
    NoTarget = NoTarget
    WrongInstrument = WrongInstrument
    RiskPerTradePct = 5
    StopPct = 5
    DailyLossPct = 10
    WeeklyLossPct = 10
    DrawdownKillPct = 20
    MaxLeveragePct = 300
    MaxGrossPct = 300
    MaxNetPct = 300
    MaxAssetPct = 300
    MaxStrategyPct = 300
    MaxVenuePct = 300
    MaxOpenPositions = 1
    Lot = 1
    SlippagePct = 0
    TakerFeePct = 0
    EntryBandPct = 10
    ExitBandPct = 20
    StartingCash = 40000
    Latency = 1
    TouchRefill = 2
    StaleAfter = 3
    CreatedNs = 0
    MaxPosition = 4
    MaxNotional = 100000
    MinNotional = 200
    DaysPerWeek = 7
    Bbos <- LevelBbos
    Trades = {}
    Marks = {}
    Targets = {0, 3}
    Days = {0}
    Offsets <- LateOffsets
    MaxCalls = 6
PROPERTIES
    HoldNeverShortens
