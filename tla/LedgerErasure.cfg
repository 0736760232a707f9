SPECIFICATION SafeSpec
CONSTANTS
    t1 = t1
    t2 = t2
    p1 = p1
    bob = bob
    NoContact = NoContact
    Workers = {w1}
    Partitions = {p1}
    Messages <- ContactEvents
    PartitionOf <- OnePartition
    Erasures = {d1}
    MaxRetries = 3
    MaxFaults = 0
    MaxLog = 2
CHECK_DEADLOCK FALSE
INVARIANTS
    DeletedIsErased
