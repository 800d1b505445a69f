SPECIFICATION CycleSpec
CHECK_DEADLOCK FALSE
CONSTANTS
    None = None
    NoTarget = NoTarget
    WrongInstrument = WrongInstrument
    RiskPerTradePct = 12
    StopPct = 30
    DailyLossPct = 2
    WeeklyLossPct = 3
    DrawdownKillPct = 8
    MaxLeveragePct = 300
    MaxGrossPct = 300
    MaxNetPct = 300
    MaxAssetPct = 300
    MaxStrategyPct = 300
    MaxVenuePct = 300
    MaxOpenPositions = 1
    Lot = 1
    SlippagePct = 4
    TakerFeePct = 1
    EntryBandPct = 10
    ExitBandPct = 20
    StartingCash = 40000
    Latency = 1
    TouchRefill = 1
    StaleAfter = 1
    CreatedNs = 0
    MaxPosition = 4
    MaxNotional = 12550
    MinNotional = 200
    DaysPerWeek = 3
    Bbos <- RisingBbos
    Trades = {}
    Marks = {}
    Targets <- ShortTargets
    Days = {0, 1, 2, 3}
    Offsets = {1, 2}
    MaxCalls = 1
    MaxFills = 1
INVARIANTS
    LimitsAtRest
    HardLimitsHold
PROPERTIES
    HaltedNeverAddsRisk
    EntryRiskBounded
