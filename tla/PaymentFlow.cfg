SPECIFICATION Spec
CONSTANTS
    t1 = t1
    p1 = p1
    Requests <- MCRequests
    PartitionOf <- OnePartition
    MaxLog = 2
    MaxFaults = 2
CHECK_DEADLOCK FALSE
INVARIANTS
    FlowInv
    StoresFollowVerdicts
PROPERTIES
    StagesKeepPromises
    EveryPaymentSettles
