SPECIFICATION MCSpec
CONSTANTS
    k1 = k1  k2 = k2  s1 = s1  s2 = s2  s3 = s3
    Servers = {s1, s2, s3}
    Clients = {k1, k2}
    None = None
    Redundant = {s2}
    Matching = {k1, k2}
    MaxSlots = 1
    MaxUsers = 1
    Percent = {}
    Balancers <- ApartBalancers
    Weight <- MCWeight
    ConfSlots <- MCConfSlots
    ClientSlots <- MCClientSlots
INVARIANTS ListedServers
CHECK_DEADLOCK FALSE
