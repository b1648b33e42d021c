CONSTANTS
    c1 = c1
    c2 = c2
    t1 = t1
    t2 = t2
    s1 = s1
    s2 = s2
    s3 = s3
    s4 = s4
    e1 = e1
    e2 = e2
    e3 = e3
    NULL = NULL
    Callers <- MCCallers
    Timers <- MCOneTimer
    Samples <- MCThreeSamples
    Encoders <- MCTwoEncoders
    MaxFrames = 2
SPECIFICATION FairSpec
PROPERTIES
    WaitingFrameTaken
    CallsReturn
