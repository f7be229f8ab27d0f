SPECIFICATION FSpec
CONSTANTS
    a = a
    b = b
    r = r
    None = None
    Kind <- Kinds
    Host = {a, b, r}
    Start = 4
    End = 1
    Gap = 1
    Lag = 2
    Ahead = 1
    MaxNow = 5
    MaxPackets = 2
    MaxFaults = 1
    Windows = {1, 5}
    Periods = {1, 2, 6}
    Limits = {1, 2}
    Asked <- Requests
    DefaultPeriod = 3
    PushWindow = 1
    SnapshotWindow = 5
    DefaultLimit = 2
    MaxLimit = 2
    Target = 2
    Steps = {1, 2}
    Hour = 2
    Retention = 11
INVARIANTS
    FTypeOK
    TelemetrySettles
    ViewsAgree
    SnapshotMatchesPush
    HistoryCountsOnce
