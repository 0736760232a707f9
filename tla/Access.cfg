SPECIFICATION AccessSpec
CONSTANTS
    u1 = u1
    k1 = k1
    k2 = k2
    Auths = {a1, a2}
    Gateways = {g1, g2}
    Clients = {u1}
    Anyone = Anyone
    Unset = Unset
    Configurations <- MCConfigurations
    Asks <- MCAsks
    MaxTTL = 1
    MaxTime = 2
    MaxChanges = 2
CHECK_DEADLOCK FALSE
INVARIANTS
    AccessInv
PROPERTIES
    ClientGetsIn
