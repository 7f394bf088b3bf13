SPECIFICATION FairSpec
CONSTANTS
    Modes <- BothModes
    InitialInterval = 3
    Ttl <- Ttls
    MetricsPeriod = 2
    ReportPeriod = 1
    Backoff = 1
    MaxFailed = 1
    Followed <- Registrations
    Connection = {c1, c2}
    c1 = c1 c2 = c2
    Margin = 2
    Poll = 1
    AccessTtl <- AccessTtls
    RefreshTtl <- RefreshTtls
INVARIANTS TypeOK TaskPerConnection OldTaskEndsSoon LeaseKept
PROPERTIES HeartbeatsAuthorised RestartNeedsSilence
    HeartbeatsGoOn ExitEndsThread DeadConnectionReplaced OldTasksEnd
CHECK_DEADLOCK FALSE
