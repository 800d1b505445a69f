SPECIFICATION FundingSpec
CONSTANTS
    NoFile = NoFile
    MonthDays = 2
    MaxEdits = 2
INVARIANT
    NotSelectedIsReported
CHECK_DEADLOCK FALSE
