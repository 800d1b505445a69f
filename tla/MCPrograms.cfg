SPECIFICATION Spec
CONSTANTS
    Missing = Missing
    Levels <- TwoLevels
    LevelOf <- AlternatingLevels
    Venues = {"standard", "pro", "spot", "okx"}
    MaxBuffered = 2
    MaxRequests = 2
    MaxBookChanges = 6
    MaxWire = 3
    MaxFaults = 2
    MaxSessions = 2
    ChunkFiles = {f1, f2}
    MaxCampaigns = 2
    Chunks = 2
    MaxChanges = 1
    Appenders = {a1, a2}
    MaxSegment = 2
    MaxPending = 2
    MaxRecords = 6
    MaxFailures = 3
    None = None
    NoPrice = NoPrice
    NoFile = NoFile
    SignificantFigures = 2
    MaxDecimals = 1
    Scale = 2
    MaxPrice = 10500
    Durable = TRUE
    MaxLines = 2
    MaxProduced = 4
    MonthDays = 2
    MaxEdits = 1
INVARIANTS
    RecordIsTheBook
    SpoolNeverLastCopy
    SealedIsWhole
    ReportIsTrue
    NearestSafePrice
    LedgerExactlyOnce
    ProjectionBacked
    SettledMonthIsWhole
PROPERTIES
    WriterIsALog
    FailedStatusSticks
    PrintsStayInView
CHECK_DEADLOCK FALSE
