CONSTANTS
    MaxOpens = 2
    MaxPackets = 3
SPECIFICATION Spec
INVARIANTS
    TypeOK
    StreamsReady
    LeaksExplained
    FramesAreCurrent
CHECK_DEADLOCK FALSE
