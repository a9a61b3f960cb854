SPECIFICATION FairSpec
CONSTANTS
    MaxByte = 10
    Kinds <- NormalThenEvent
    MaxRun = 2
    MaxFail = 1
    Spurious = FALSE
    NumUnit = 3
    SizeUnit = 3
    Sizes = {5}
INVARIANTS
    BuffersConserved
    OpenFileInOrder
    AnnouncedOnce
    BytesAccounted
    FlushedAtStop
PROPERTIES
    CallsReturn
CHECK_DEADLOCK FALSE
