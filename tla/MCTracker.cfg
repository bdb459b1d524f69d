SPECIFICATION Spec
CONSTANTS
    Threads = {"main", "info", "control"}
    Locks = {"section", "servers", "callbacks"}
    Nobody = Nobody
    PollsPerTick = 600
    Hosts = {h1}
    NumServers = 2
    ConnTimes = {2, 5}
    ExitTicks = 1
    StopTime = 60000
    TrackerTime = 60
INVARIANTS
    TypeOK
    OnlyControlOutlives
    OnlyReportDeadlocks
PROPERTIES
    Ends
    HearsAgain
    ForgetsLost
\* The process ends, and threads may wait for each other for ever.
CHECK_DEADLOCK FALSE
