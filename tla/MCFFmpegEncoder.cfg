CONSTANTS
    MaxOpens = 2
    MaxFrames = 1
    MaxData = 2
SPECIFICATION Spec
INVARIANTS
    TypeOK
    NoDanglingPointer
    OpenedReady
    LeaksExplained
CHECK_DEADLOCK FALSE
