SPECIFICATION Spec
CONSTANTS
    t1 = t1
    t2 = t2
    t3 = t3
    p1 = p1
    alice = alice
    here = here
    there = there
    NoPlace = NoPlace
    Workers = {w1, w2}
    Partitions = {p1}
    Requests <- OneRequest
    PartitionOf <- OneTxn
    FarApart <- Differ
    MaxRetries = 1
    MaxFaults = 2
    MaxLog = 2
    VelocityLimit = 1
CHECK_DEADLOCK FALSE
INVARIANTS
    TypeOK
    VelocityBounded
    UntimedCostsFailures
PROPERTIES
    ImplementsAtLeastOnce
