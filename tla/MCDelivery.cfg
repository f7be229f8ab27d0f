SPECIFICATION DSpec
CONSTANTS
    Client = {c1}
    Hash = {h1}
    SubId = {s1}
    MaxFaults = 1
    MaxData = 1
    MaxBus = 1
CHECK_DEADLOCK FALSE
INVARIANTS
    DTypeOK
    NoMissedUpdate
    AtMostOneLatePush
