SPECIFICATION DFairSpec
CONSTANTS
    Client = {c1}
    Hash = {h1}
    SubId = {s1}
    MaxFaults = 0
    MaxData = 1
    MaxBus = 1
CHECK_DEADLOCK FALSE
PROPERTIES
    NewestDelivered
