SPECIFICATION CFairSpec
CONSTANTS
    Task = {t1}
    Ttl = 4
    Timeout = 3
    Interval = 1
    Cycle = 1
    MaxReported = 1
    MaxFaults = 1
INVARIANTS CTypeOK DropsNotDoubled DropsKept ActiveIsRecent ActivityReachesRow
PROPERTIES SilentDeactivated KeepAliveDeactivated
