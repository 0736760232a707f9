SPECIFICATION SafeSpec
CONSTANTS
    t1 = t1
    t2 = t2
    t3 = t3
    p1 = p1
    alice = alice
    here = here
    there = there
    NoPlace = NoPlace
    Workers = {w1}
    Partitions = {p1}
    Requests <- MixedRequests
    PartitionOf <- OnePartition
    FarApart <- Differ
    MaxRetries = 3
    MaxFaults = 1
    MaxLog = 1
    VelocityLimit = 5
CHECK_DEADLOCK FALSE
INVARIANTS
    FraudDeclineSaysFlagged
