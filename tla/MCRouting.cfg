SPECIFICATION Spec
CONSTANTS
    Hosts <- MCHosts
    Servers <- MCServers
    Clients <- MCClients
    Balancers <- MCBalancers
    Sources <- MCSources
    Redundant <- MCRedundant
    ConfSlots <- MCConfSlots
    ClientSlots <- MCClientSlots
    h1 = h1
    h2 = h2
    k1 = k1
    k2 = k2
    s1 = s1
    s2 = s2
    None = None
    Routes = {r1, r2, r3, r4}
    Chans = {c1, c2, c3}
    MaxFaults = 2
    CacheTimeout = 1
    SweepPeriod = 0
SYMMETRY Symmetry
INVARIANTS TypeOK NoDangling SlotsExact OneOwner RouteOfHost
PROPERTIES Pinned JoinsOpenSession FailoverMovesOn OnlyCachedExceeds
