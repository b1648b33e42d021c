CONSTANTS
    c1 = c1
    NULL = NULL
    Fds <- MCFds
    Channels = {c1}
    MaxLogins = 1
    MaxSends = 0
    MaxServer = 2
    InCapacity = 4
    OutCapacity = 4
    Patient = TRUE
    Stray = {}
SPECIFICATION FairSpec
CHECK_DEADLOCK FALSE
PROPERTY WaitingMessageHandled
