SPECIFICATION Spec
CONSTANTS
    t1 = t1
    t2 = t2
    p1 = p1
    Workers = {w1, w2}
    Partitions = {p1}
    Messages <- MCMessages
    PartitionOf <- OnePartition
    MaxRetries = 2
    MaxFaults = 3
    MaxLog = 3
CHECK_DEADLOCK FALSE
INVARIANTS
    TypeOK
    StaleCostsFailures
PROPERTIES
    ImplementsAtLeastOnce
