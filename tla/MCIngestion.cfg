SPECIFICATION IFairSpec
CONSTANTS
    Task = {t1, t2, t3}
    MaxSeq = 3
    Size = {0, 2, 4}
    MaxLen = 3
    Threshold = 1
    MaxFaults = 1
CHECK_DEADLOCK FALSE
INVARIANTS
    ITypeOK
    DropsAccounted
    BufferCapped
PROPERTIES
    ImplementsConveyor
    BufferEventuallyFlushed
