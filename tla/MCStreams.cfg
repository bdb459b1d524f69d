\* One connection with data in both directions, under fairness.
SPECIFICATION Spec
CONSTANTS
    a = a
    b = b
    Conns = {a}
    Bytes = {1, 2}
    BufMin = 1
    BufMax = 2
    Fds = {0, 1, 2, 3}
    Listener = 0
    Window = 1
    MaxSaid <- SaidOfOne
    MaxTries <- TriesOfOne
PROPERTIES
    Streams
    Responsive
    ConnectSettles
    Delivered
    EofCloses
\* The bounded peers may leave the main thread in a recv or send that waits for ever.
CHECK_DEADLOCK FALSE
