SPECIFICATION Spec
CONSTANTS
    Byte = 4
    DataSizes = {0, 5, 12, 14, 15}
    IdSizes = {1, 2}
    StringSizes = {1, 7, 8, 17}
    ServerSizes = {0, 5, 9, 12}
    MaxMessages = 3
INVARIANTS
    HandedAsSent
    SentAsProtocolSays
PROPERTIES
    OnlyOversizeOverruns
CHECK_DEADLOCK FALSE
