SPECIFICATION FairSpec
CONSTANTS
    MaxSample = 4
    MaxRun = 2
    MaxRequest = 2
    MaxGop = 2
    Spurious = FALSE
    BufferedTime = 1
    Gap = 1
    Depth = 4
INVARIANTS
    RingConsistent
    NoUseAfterRelease
    NothingLeaked
    EventFileContiguous
PROPERTIES
    StopReturns
    SampleTaken
CHECK_DEADLOCK FALSE
