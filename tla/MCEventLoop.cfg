\* Two connections; descriptors for both, but none to spare for a failover.
SPECIFICATION Spec
CONSTANTS
    a = a
    b = b
    Conns = {a, b}
    Bytes = {1}
    BufMin = 1
    BufMax = 2
    Fds = {0, 1, 2, 3, 4}
    Listener = 0
    Window = 1
    MaxSaid <- SaidOfTwo
    MaxTries <- TriesOfTwo
INVARIANTS
    TypeOK
    DescriptorsExact
    InTurn
    WaitsOnlyInterrupted
\* The bounded peers may leave the main thread in a recv or send that waits for ever.
CHECK_DEADLOCK FALSE
