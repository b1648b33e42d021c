CONSTANTS
    c1 = c1
    NULL = NULL
    Fds <- MCFds
    Channels = {c1}
    MaxLogins = 3
    MaxSends = 1
    MaxServer = 3
    InCapacity = 3
    OutCapacity = 4
    Patient = TRUE
    Stray = {"RECONNECT_SUCCESS", "UNKNOWN"}
SPECIFICATION Spec
CHECK_DEADLOCK FALSE
INVARIANTS
    TypeOK
    ChannelsAgree
    SessionMeansLoggedIn
    InterestKept
    LoginFirst
PROPERTIES
    ImplementsSession
