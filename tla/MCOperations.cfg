SPECIFICATION OperationsSpec
CONSTANTS
    None = None
    MaxRetries = 1
    MaxCampaign = 2
    MaxBoot = 2
    Profiles = {"spot"}
    Attempts = 2
INVARIANTS
    SuccessorAccounted
    NoOrphanCapture
    RetryBudget
    AlertsAgreeWithReport
    CollectorTellsOnce
PROPERTIES
    FailureSticks
    CaptureResumes
    EveryFailureTold
CHECK_DEADLOCK FALSE
