SPECIFICATION Spec
CONSTANTS
    Servers <- MCServers
    Machines <- MCMachines
    MachineOf <- MCMachineOf
    CheckMode <- MCCheckMode
    ConfSlots <- MCConfSlots
    s1 = s1
    s2 = s2
    m1 = m1
    None = None
    MaxFaults = 2
    InfoLimits = {0, 1}
    SlotBound = 1
INVARIANTS TypeOK
PROPERTIES ComesBack StaysOff InfoRenewed
