SPECIFICATION FairSpec
CONSTANTS
    Client = {c1, c2}
    Hash = {h1}
    SubId = {s1}
    MaxFaults = 0
CHECK_DEADLOCK FALSE
PROPERTIES
    GhostEventuallyRemoved
    EventuallyReclaimed
