SPECIFICATION StartupSpec
CONSTANTS
    MaxProbes = 3
    MaxStarts = 3
    MaxRetries = 3
    MaxMessages = 3
    MaxIncidents = 5
CHECK_DEADLOCK FALSE
INVARIANTS
    StartupInv
PROPERTIES
    Drained
