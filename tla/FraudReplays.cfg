SPECIFICATION SafeSpec
CONSTANTS
    t1 = t1
    t2 = t2
    t3 = t3
    p1 = p1
    alice = alice
    here = here
    there = there
    NoPlace = NoPlace
    Workers = {w1, w2}
    Partitions = {p1}
    Requests <- MixedRequests
    PartitionOf <- OnePartition
    FarApart <- Differ
    MaxRetries = 2
    MaxFaults = 2
    MaxLog = 2
    VelocityLimit = 2
SYMMETRY Symmetry
CHECK_DEADLOCK FALSE
INVARIANTS
    MarkedIsPublished
    ReplaysSuppressed
PROPERTIES
    DeclineSticks
