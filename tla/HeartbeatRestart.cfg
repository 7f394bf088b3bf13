SPECIFICATION Spec
CONSTANTS
    Modes <- ShredstreamMode
    InitialInterval = 3
    Ttl <- Ttls
    MetricsPeriod = 2
    ReportPeriod = 1
    Backoff = 1
    MaxFailed = 1
    Followed = {}
    Connection = {c1, c2}
    c1 = c1 c2 = c2
    Margin = 2
    Poll = 1
    AccessTtl <- AccessTtls
    RefreshTtl <- RefreshTtls
PROPERTY RestartOnlyIfNoneReceived
CHECK_DEADLOCK FALSE
