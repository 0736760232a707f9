SPECIFICATION Spec
CONSTANTS
    t1 = t1
    t2 = t2
    p1 = p1
    bob = bob
    NoContact = NoContact
    Workers = {w1, w2}
    Partitions = {p1}
    Messages <- VerdictEvents
    PartitionOf <- OnePartition
    Erasures = {d1}
    MaxRetries = 2
    MaxFaults = 3
    MaxLog = 2
CHECK_DEADLOCK FALSE
INVARIANTS
    TypeOK
    ContactsMatchRows
PROPERTIES
    RowsAreFinal
    StaysWithinPromise
    SettledOrHalted
