SPECIFICATION ProxySpec
CONSTANTS
    Hosts <- MCHosts
    Servers <- MCServers
    Clients <- MCClients
    Balancers <- MCBalancers
    Sources <- MCSources
    Redundant <- MCRedundant
    ConfSlots <- MCConfSlots
    ClientSlots <- MCClientSlots
    Machines <- MCMachines
    MachineOf <- MCMachineOf
    CheckMode <- MCCheckMode
    h1 = h1
    k1 = k1
    s1 = s1
    m1 = m1
    None = None
    Routes = {r1, r2}
    Chans = {c1, c2}
    MaxFaults = 2
    CacheTimeout = 1
    SweepPeriod = 0
    InfoLimits = {0, 1}
    SlotBound = 2
PROPERTIES ImplementsRouting ImplementsMonitor
