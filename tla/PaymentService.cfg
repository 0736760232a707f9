SPECIFICATION Spec
CONSTANTS
    t1 = t1
    t2 = t2
    p1 = p1
    p2 = p2
    Workers = {w1, w2}
    Partitions = {p1, p2}
    Requests <- MCRequests
    PartitionOf <- MCPartitionOf
    MaxRetries = 2
    MaxFaults = 3
    MaxLog = 2
CHECK_DEADLOCK FALSE
INVARIANTS
    IInv
    CommittedIsSettled
    NoOvertaking
    DuplicatesBounded
    DeadLetterAfterRetries
PROPERTIES
    ImplementsAtLeastOnce
