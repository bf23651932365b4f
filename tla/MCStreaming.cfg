\* A panic, or a silent microphone, stops the task for good.
CONSTANTS
    MaxUnits = 6
    PIPE_LEN = 6
    READ_LEN = 4
    MaxPop = 2
SPECIFICATION FairStreamingSpec
CHECK_DEADLOCK FALSE
INVARIANTS
    StreamingTypeOK
    EachFrameOnce
    OutOfStepOnlyIfTorn
    ChannelsStayAligned
PROPERTIES
    ClosedSessionReconnects
