SPECIFICATION FairSpec
CONSTANTS
    Video = {"video"}
    Other = {"audio"}
    Streams <- MCStreams
    MaxTime = 3
    Kinds <- MCKinds
    MaxChunk = 1
    MaxRun = 1
    MaxFail = 1
    NumBuffer = 2
INVARIANTS
    BuffersConserved
    OwnFileInOrder
    TrackWithoutGap
    InSync
    AnnouncedOnce
PROPERTIES
    CallReturns
CHECK_DEADLOCK FALSE
