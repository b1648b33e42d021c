CONSTANTS
    c1 = c1
    NULL = NULL
    Fds <- MCFds
    Channels = {c1}
    MaxLogins = 2
    MaxSends = 1
    MaxServer = 2
    InCapacity = 3
    OutCapacity = 4
    Patient = TRUE
    Stray = {}
SPECIFICATION Spec
CHECK_DEADLOCK FALSE
INVARIANT WritesOnceConnected
