SPECIFICATION QuietSpec
CONSTANTS
    Hosts <- OneHost
    Servers <- MCServers
    Clients <- OneClient
    Balancers <- OneBalancer
    Sources <- OneSources
    Redundant <- MCRedundant
    ConfSlots <- MCConfSlots
    ClientSlots <- OneClientSlots
    h1 = h1
    h2 = h2
    k1 = k1
    k2 = k2
    s1 = s1
    s2 = s2
    None = None
    Routes = {r1, r2, r3, r4}
    Chans = {c1, c2, c3}
    MaxFaults = 2
    CacheTimeout = 1
    SweepPeriod = 0
SYMMETRY Symmetry
PROPERTIES FaultyDisabled
