CONSTANTS
    c1 = c1
    NULL = NULL
    Fds <- MCFds
    Channels = {c1}
    MaxLogins = 2
    MaxSends = 1
    MaxServer = 3
    InCapacity = 3
    OutCapacity = 3
    Patient = TRUE
    Stray = {"RECONNECT_FAILURE", "UNKNOWN"}
SPECIFICATION FairSpec
CHECK_DEADLOCK FALSE
PROPERTIES
    ConnectResolves
    OutbufDrains
