\* One connection: the shortest way to a channel that counts as connected too early.
SPECIFICATION Spec
CONSTANTS
    a = a
    b = b
    Conns = {a}
    Bytes = {1, 2}
    BufMin = 1
    BufMax = 2
    Fds = {0, 1, 2, 3}
    Listener = 0
    Window = 1
    MaxSaid <- SaidOfOne
    MaxTries <- TriesOfOne
INVARIANT
    ConnectedEstablished
\* The bounded peers may leave the main thread in a recv or send that waits for ever.
CHECK_DEADLOCK FALSE
